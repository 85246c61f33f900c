-------------------------- MODULE WebSocketFormat ---------------------------
(***************************************************************************)
(* brynet::net::WebSocketFormat: building frames and taking them out of a  *)
(* buffer, and the loop of HttpService that takes one after the other.     *)
(* The code has Base = 256 and Small = 125; a smaller base gives small     *)
(* frames with all three encodings of the length.  Everything in a frame   *)
(* is a byte, a record whose n is its value.                               *)
(***************************************************************************)
EXTENDS Integers, Sequences

CONSTANTS
    Base,   \* values of a byte of the length
    Small   \* longest payload whose length fits the second byte

ASSUME FormatAssumption == Base \in Nat /\ Base >= 2 /\ Small \in Nat

Ext16 == Small + 1
Ext64 == Small + 2
Mask  == Small + 3      \* the mask bit of the second byte
Fin   == 128            \* the fin bit of the first byte

CONTINUATION_FRAME == 0
TEXT_FRAME         == 1
BINARY_FRAME       == 2
PING_FRAME         == 9

Byte(n) == [c |-> "byte", n |-> n]

\* The bit of weight w of a byte, and the exclusive or of two bytes.
Bit(a, w) == (a \div w) % 2
Xor(a, b) ==
    LET bit(w) == w * ((Bit(a, w) + Bit(b, w)) % 2)
    IN bit(1) + bit(2) + bit(4) + bit(8) + bit(16) + bit(32) + bit(64) + bit(128)

\* The length in the shortest of three forms; 64 bits with the upper half zero.
EncodeLength(n) ==
    IF n <= Small THEN <<n>>
    ELSE IF n < Base * Base THEN <<Ext16, n \div Base, n % Base>>
    ELSE <<Ext64, 0, 0, 0, 0, (n \div (Base * Base * Base)) % Base, (n \div (Base * Base)) % Base,
           (n \div Base) % Base, n % Base>>

\* The frame of a payload (a sequence of byte values); key is the mask, <<>> for none.
wsFrameBuild(payload, opcode, isFin, key) ==
    LET length == EncodeLength(Len(payload))
        masked == key # <<>>
        bytes  == <<opcode + (IF isFin THEN Fin ELSE 0),
                    length[1] + (IF masked THEN Mask ELSE 0)>> \o Tail(length) \o key
                  \o [i \in 1..Len(payload) |->
                        IF masked THEN Xor(payload[i], key[((i - 1) % 4) + 1]) ELSE payload[i]]
    IN [i \in 1..Len(bytes) |-> Byte(bytes[i])]

\* What wsFrameExtractBuffer reads of the length: its value, and the bytes
\* read so far; "more" when the buffer is too short, "bad" when it refuses.
DecodeLength(b) ==
    LET len7 == b[2].n % Mask IN
    IF len7 = Ext16
    THEN IF Len(b) < 4 THEN [ok |-> "more", len |-> 0, pos |-> 2]
         ELSE [ok |-> "ok", len |-> b[3].n * Base + b[4].n, pos |-> 4]
    ELSE IF len7 = Ext64
    THEN IF Len(b) < 10 THEN [ok |-> "more", len |-> 0, pos |-> 2]
         ELSE IF (\E i \in 3..6 : b[i].n # 0) \/ b[7].n >= Base \div 2
         THEN [ok |-> "bad", len |-> 0, pos |-> 2]
         ELSE [ok |-> "ok", pos |-> 10,
               len |-> b[7].n * (Base * Base * Base) + b[8].n * (Base * Base) + b[9].n * Base + b[10].n]
    ELSE [ok |-> "ok", len |-> len7, pos |-> 2]

NoFrame == [ok |-> FALSE, payload |-> <<>>, opcode |-> 0, fin |-> FALSE, frameSize |-> 0]

\* A refused frame looks to the caller like one that is not complete yet.
wsFrameExtractBuffer(b) ==
    IF Len(b) < 2 THEN NoFrame
    ELSE LET length == DecodeLength(b)
             masked == b[2].n >= Mask
             pos    == length.pos + (IF masked THEN 4 ELSE 0) IN
         IF length.ok # "ok" \/ Len(b) < pos + length.len THEN NoFrame
         ELSE [ok |-> TRUE, opcode |-> b[1].n % 16, fin |-> b[1].n >= Fin,
               frameSize |-> pos + length.len,
               payload |-> [i \in 1..length.len |->
                   IF masked THEN Xor(b[pos + i].n, b[(pos - 3) + ((i - 1) % 4)].n)
                             ELSE b[pos + i].n]]

-----------------------------------------------------------------------------
(* The frames of a session, as HttpService::ProcessWebSocket takes them: w   *)
(* has the data that is left, the fragments cached and their type, and the   *)
(* messages presented.                                                       *)

\* A final frame inside a fragmented message ends it.
HandleFrame_NoOpcode(w, f) ==
    LET cache == IF f.fin THEN w.cache ELSE w.cache \o f.payload IN
    [w EXCEPT !.cache = IF f.fin THEN <<>> ELSE cache, !.type = IF f.fin THEN @ ELSE f.opcode,
              !.out = IF f.fin THEN Append(@, [opcode |-> f.opcode, payload |-> cache \o f.payload]) ELSE @]

\* One frame: into the cache, out of it, or past it.
HandleFrame(w, f) ==
    LET continued == f.opcode = CONTINUATION_FRAME
        cache     == IF ~f.fin \/ continued THEN w.cache \o f.payload ELSE w.cache IN
    IF ~f.fin THEN [w EXCEPT !.cache = cache, !.type = IF continued THEN @ ELSE f.opcode]
    ELSE IF continued
    THEN [w EXCEPT !.cache = <<>>, !.out = Append(@, [opcode |-> w.type, payload |-> cache])]
    ELSE [w EXCEPT !.out = Append(@, [opcode |-> f.opcode, payload |-> f.payload])]

\* The first frame of the data that is left, if it is complete.
TakeFrame(w) ==
    LET f == wsFrameExtractBuffer(w.left) IN
    IF ~f.ok THEN w
    ELSE HandleFrame([w EXCEPT !.left = SubSeq(@, f.frameSize + 1, Len(@))], f)

\* Every complete frame of the data, until one is not.
TakeFrames(w) ==
    LET after[i \in 0..Len(w.left)] ==      \* after at most i frames
            IF i = 0 THEN w ELSE TakeFrame(after[i - 1])
    IN after[Len(w.left)]
=============================================================================
