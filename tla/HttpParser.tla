----------------------------- MODULE HttpParser -----------------------------
(***************************************************************************)
(* brynet::net::HTTPParser: the object that collects what http_parser      *)
(* reports.  One record p holds the fields of the C struct http_parser     *)
(* (mParser) and the members of the class; a callback is an operator from  *)
(* p to p.  http_parser calls the data callbacks with runs of characters;  *)
(* as they only append, here they get one symbol at a time.                *)
(***************************************************************************)
EXTENDS UrlParser

NoLength == -1      \* content_length = ULLONG_MAX

\* http_parser_init(&mParser, HTTP_BOTH): memset, so the method is DELETE.
http_parser_init(p) ==
    [p EXCEPT !.type = "HTTP_BOTH", !.state = "s_start_req_or_res", !.flags = {},
              !.header_state = "h_general", !.index = 0, !.nread = 0, !.content_length = 0,
              !.http_major = 0, !.http_minor = 0, !.status_code = 0, !.method = "DELETE",
              !.http_errno = "HPE_OK", !.upgrade = FALSE]

HTTPParser ==
    http_parser_init(
      [type |-> "", state |-> "", flags |-> {}, header_state |-> "", index |-> 0, nread |-> 0,
       content_length |-> 0, http_major |-> 0, http_minor |-> 0, status_code |-> 0, method |-> "",
       http_errno |-> "", upgrade |-> FALSE,
       parsed |-> 0, exit |-> FALSE,             \* what http_parser_execute returns, and that it does
       result |-> 0,                             \* what sHeadComplete returns
       mIsWebSocket |-> FALSE, mIsKeepAlive |-> FALSE, mISCompleted |-> FALSE, mLastWasValue |-> TRUE,
       mCurrentField |-> <<>>, mCurrentValue |-> <<>>, mPath |-> <<>>, mQuery |-> <<>>,
       mStatus |-> <<>>, mStatusCode |-> 0, mHeadValues |-> {}, mUrl |-> <<>>, mBody |-> <<>>,
       mWSCacheFrame |-> <<>>, mWSFrameType |-> 255])

\* The headers of the previous message stay.
clearParse_KeepHeads(p) == [p EXCEPT !.mISCompleted = FALSE, !.mPath = <<>>, !.mQuery = <<>>]

\* mUrl, mBody and mStatus are not cleared.
clearParse(p) ==
    [p EXCEPT !.mISCompleted = FALSE, !.mHeadValues = {}, !.mPath = <<>>, !.mQuery = <<>>]

hasKey(p, key)          == \E h \in p.mHeadValues : h.name = key
hasEntry(p, key, value) == [name |-> key, value |-> value] \in p.mHeadValues

sMessageBegin(p) ==
    [p EXCEPT !.mLastWasValue = TRUE, !.mCurrentField = <<>>, !.mCurrentValue = <<>>]

sMessageEnd(p) == [p EXCEPT !.mISCompleted = TRUE]

\* mHeadValues[mCurrentField] = mCurrentValue
StoreHead(p) ==
    IF p.mCurrentField = <<>> THEN p
    ELSE [p EXCEPT !.mHeadValues = {h \in @ : h.name # p.mCurrentField}
                        \cup {[name |-> p.mCurrentField, value |-> p.mCurrentValue]}]

\* The URL, kept from message to message, is taken apart: u.  A refused one
\* makes the result -1 and leaves path and query.
TakeUrl(p, u) ==
    IF ~u.ok \/ u.path = <<>> THEN [p EXCEPT !.result = -1]
    ELSE [p EXCEPT !.result = 0, !.mPath = u.path, !.mQuery = IF u.query = <<>> THEN @ ELSE u.query]

\* result is what the callback returns.
sHeadComplete(p) ==
    IF p.mUrl = <<>> THEN [StoreHead(p) EXCEPT !.result = 0]
    ELSE TakeUrl(StoreHead(p), http_parser_parse_url(p.mUrl))

sUrlHandle(p, ch) == [p EXCEPT !.mUrl = Append(@, ch)]

\* at is a symbol, or nothing for an empty value
sHeadValue(p, at) == [p EXCEPT !.mCurrentValue = @ \o at, !.mLastWasValue = TRUE]

\* A name after a value ends the previous header; a name after a name goes on.
sHeadField(p, ch) ==
    IF p.mLastWasValue
    THEN [(IF p.mCurrentField = <<>> THEN p ELSE sHeadComplete(p))
            EXCEPT !.mCurrentField = <<ch>>, !.mCurrentValue = <<>>, !.mLastWasValue = FALSE]
    ELSE [p EXCEPT !.mCurrentField = Append(@, ch)]

sStatusHandle(p, ch) == [p EXCEPT !.mStatus = Append(@, ch), !.mStatusCode = p.status_code]

sBodyHandle(p, ch) == [p EXCEPT !.mBody = Append(@, ch)]
=============================================================================
