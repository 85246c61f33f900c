---------------------------- MODULE HttpService -----------------------------
(***************************************************************************)
(* brynet::net::HttpService on one session: the bytes of the peer arrive   *)
(* in reads of any size; the data callback gets everything not consumed    *)
(* yet and hands it to the HTTP parser or, after an upgrade, to the        *)
(* WebSocket frames.  The callbacks of the user are set and only look.     *)
(*                                                                         *)
(* A member of Streams is what the peer may send: the symbols sym, and     *)
(* the parts they consist of, each a message or a frame.  A part has the   *)
(* position of its end, its kind and the message m it is made of; kind is  *)
(* "message", "close" (a message with Connection: close), "upgrade",       *)
(* "frame" or "unserved" (one that this code must not serve).  ws lists    *)
(* the WebSocket messages that the frames are made of, with the number of  *)
(* the part that ends them.                                                *)
(***************************************************************************)
EXTENDS HttpExecute, WebSocketFormat, FiniteSets

CONSTANTS
    Streams,
    ReadSizes   \* sizes of reads, besides one that ends with a part

VARIABLES
    stream,     \* what the peer sends
    pos,        \* symbols read so far
    buffer,     \* read and not consumed by the data callback
    p,          \* the HTTPParser of the session
    calls,      \* what httpCallback was called with
    connected,  \* calls of wsConnectedCallback
    handshakes, \* answers to an upgrade sent
    wsCalls,    \* what wsCallback was called with
    mode,       \* the branch the data callback took last
    pipelined,  \* history: a read held the end of a message and more
    closed      \* calls of closeCallback

vars == <<stream, pos, buffer, p, calls, connected, handshakes, wsCalls, mode, pipelined, closed>>

Sent  == stream.sym
Parts == stream.parts

\* setup: enterCallback sets the callbacks, handle makes the parser.
Init ==
    /\ stream \in Streams
    /\ pos = 0 /\ buffer = <<>> /\ p = HTTPParser
    /\ calls = <<>> /\ connected = 0 /\ handshakes = 0 /\ wsCalls = <<>>
    /\ mode = "none" /\ pipelined = FALSE /\ closed = 0

-----------------------------------------------------------------------------

\* What tryParse does when http_parser_execute has returned.
Parsed(q) ==
    IF ~q.mISCompleted THEN q
    ELSE http_parser_init([q EXCEPT !.mIsWebSocket = q.upgrade,
                                    !.mIsKeepAlive = ~hasEntry(q, Connection, Close)])

tryParse(q, data) == Parsed(http_parser_execute(q, data))

\* What the user sees of a parser in httpCallback.
Seen(q) == [path |-> q.mPath, query |-> q.mQuery, heads |-> q.mHeadValues, body |-> q.mBody,
            status |-> q.mStatus]

\* ProcessHttp with the parser r after tryParse.
Present(r) ==
    /\ CASE ~r.mISCompleted ->
              p' = r /\ UNCHANGED <<calls, connected, handshakes>>
         [] r.mISCompleted /\ r.mIsWebSocket ->
              /\ p' = r
              /\ connected' = connected + 1
              /\ handshakes' = handshakes + (IF hasKey(r, SecWebSocketKey) THEN 1 ELSE 0)
              /\ UNCHANGED calls
         [] r.mISCompleted /\ ~r.mIsWebSocket ->
              /\ calls' = Append(calls, Seen(r))
              /\ p' = IF r.mIsKeepAlive THEN clearParse(r) ELSE r
              /\ UNCHANGED <<connected, handshakes>>
    /\ UNCHANGED wsCalls

\* The data of a message that is complete is consumed unseen.
ProcessHttp(data) ==
    /\ mode' = "http"
    /\ \E r \in {IF p.mISCompleted THEN [p EXCEPT !.parsed = Len(data)] ELSE tryParse(p, data)} :
          /\ buffer' = SubSeq(data, r.parsed + 1, Len(data))
          /\ Present(r)

\* Every complete frame of the data, until one is not.
ProcessWebSocket(data) ==
    LET w == TakeFrames([left |-> data, cache |-> p.mWSCacheFrame, type |-> p.mWSFrameType, out |-> <<>>]) IN
    /\ mode' = "ws"
    /\ buffer' = w.left
    /\ p' = [p EXCEPT !.mWSCacheFrame = w.cache, !.mWSFrameType = w.type]
    /\ wsCalls' = wsCalls \o w.out
    /\ UNCHANGED <<calls, connected, handshakes>>

\* The data callback after a read of n symbols.
Read(n) ==
    LET data == buffer \o SubSeq(Sent, pos + 1, pos + n) IN
    /\ closed = 0
    /\ n <= Len(Sent) - pos
    /\ pos' = pos + n
    /\ pipelined' = (pipelined \/ \E i \in 1..Len(Parts) - 1 :
                        /\ Parts[i + 1].kind # "frame"
                        /\ pos < Parts[i].end /\ Parts[i].end < pos + n)
    /\ IF p.mIsWebSocket THEN ProcessWebSocket(data) ELSE ProcessHttp(data)
    /\ UNCHANGED <<stream, closed>>

\* The disconnect callback of the session.
DisConnect ==
    /\ closed = 0
    /\ closed' = closed + 1
    /\ UNCHANGED <<stream, pos, buffer, p, calls, connected, handshakes, wsCalls, mode, pipelined>>

\* A read ends anywhere or with the message the peer is sending.
RestOfPart == {Parts[i].end - pos : i \in {j \in 1..Len(Parts) :
                   pos < Parts[j].end /\ (j > 1 => Parts[j - 1].end <= pos)}}

Next == (\E n \in ReadSizes \cup RestOfPart : Read(n)) \/ DisConnect

Spec == Init /\ [][Next]_vars

-----------------------------------------------------------------------------
(* Properties.  The parts that have arrived, up to the first unserved one: *)

Arrived == {i \in 1..Len(Parts) :
               Parts[i].end <= pos /\ \A j \in 1..i : Parts[j].kind # "unserved"}
Messages == {i \in Arrived : Parts[i].kind \in {"message", "close"}}

\* Data after a message with Connection: close calls httpCallback again.
AfterClose == \E i \in 1..Len(Parts) : Parts[i].kind = "close" /\ Parts[i].end < pos

\* However the stream is cut into reads, httpCallback is called once for each
\* message when its last byte is there, wsConnectedCallback and the answer once
\* for an upgrade, and a message the parser refuses or cannot end is never
\* presented, nor anything after it (ProcessHttp, tryParse, http_parser_execute).
\* Pipelined requests and data after Connection: close are outside.
OneCallPerMessage ==
    ~pipelined /\ ~AfterClose =>
        LET upgrades == {i \in Arrived : Parts[i].kind = "upgrade"} IN
        /\ Len(calls) = Cardinality(Messages)
        /\ connected = Cardinality(upgrades)
        /\ handshakes = Cardinality({i \in upgrades : \E h \in Parts[i].m.heads : h.name = SecWebSocketKey})

\* Whatever the cuts, the headers presented are those of the message alone,
\* and the first message of a session is presented exactly as it was sent
\* (sHeadField, sHeadValue, sHeadComplete, clearParse).
MessagesAsSent ==
    ~pipelined /\ ~AfterClose =>
        \A k \in 1..Len(calls) :
            /\ calls[k].heads = Parts[k].m.heads
            /\ k = 1 => LET m == Parts[k].m IN
                        /\ calls[k].body = m.body
                        /\ "url" \in DOMAIN m => calls[k].path = m.path /\ calls[k].query = m.query

\* The WebSocket messages presented are, in order and whole, those whose last
\* frame has arrived, for any cuts and with control frames between fragments;
\* frames that come with the upgrade wait for the next read (ProcessWebSocket).
FramesAsSent ==
    LET complete == {k \in 1..Len(stream.ws) : stream.ws[k].at \in Arrived} IN
    wsCalls = IF mode = "ws"
              THEN [k \in 1..Cardinality(complete) |->
                       [opcode |-> stream.ws[k].opcode, payload |-> stream.ws[k].payload]]
              ELSE <<>>
=============================================================================
