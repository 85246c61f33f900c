---------------------------- MODULE ReceiveProofs ----------------------------
(***************************************************************************)
(* Machine-checked proofs about Receive, for buffers, streams, strings and *)
(* scripts of any size and any number of calls: the bytes reach the data   *)
(* callback in order, no unread byte is forgotten by the edge-triggered    *)
(* epoll, a FIN closes after the last byte, the handles of PromiseReceive  *)
(* get successive slices, and the heartbeat closes only what was silent.   *)
(***************************************************************************)
EXTENDS Receive, SequenceTheorems, FiniteSetTheorems, WellFoundedInduction, TLAPS

(***************************************************************************)
(* The inductive invariant.                                                *)
(***************************************************************************)

BufferType == [data : Seq(Nat), write_pos : Nat, read_pos : Nat]

TimerType == [id : Nat, left : Nat, mActive : BOOLEAN]

SocketType ==
    [mSocket : BOOLEAN, mRecvData : BOOLEAN, mCheckTime : Nat, mTimer : Nat, postClose : BOOLEAN]

ConnType    == rb \in BufferType /\ ds \in SocketType /\ deleted \in BOOLEAN
ClockType   == timers \in SUBSET TimerType /\ IsFiniteSet(timers) /\ quiet \in Nat
WhereType   == phase \in Phases /\ short \in BOOLEAN
KernelType  == sent \in Nat /\ taken \in Nat /\ taken <= sent
PromiseType ==
    /\ pending \in Seq([kind : {"len", "until", "cell"}, len : Nat])
    /\ cell \in Nat /\ procLen \in Nat
    /\ slices \in Seq([kind : {"len", "until"}, from : Nat, len : Nat])

StateType == ConnType /\ ClockType /\ WhereType /\ KernelType /\ PromiseType /\ seen \in Seq(Nat)

\* A buffer that holds the bytes from number k + 1 on.
Holds(b, k) ==
    /\ b.read_pos <= b.write_pos /\ b.write_pos <= Len(b.data)
    /\ \A i \in 1..(b.write_pos - b.read_pos) : b.data[b.read_pos + i] = k + i

\* A buffer has the first size or one that growRecvBuffer allows.
SizeOK(b) == Len(b.data) > 0 /\ (Len(b.data) <= mMaxRecvBufferSize \/ Len(b.data) = InitialSize)

\* The callback has consumed a prefix of the stream, the buffer has the next bytes.
StreamInv ==
    /\ Holds(rb, Len(seen)) /\ SizeOK(rb)
    /\ \A i \in 1..Len(seen) : seen[i] = i
    /\ Len(seen) + (rb.write_pos - rb.read_pos) = taken

Filled(b) == b.read_pos = 0 /\ b.write_pos = Len(b.data) /\ Len(b.data) + Grow > mMaxRecvBufferSize

\* A buffer without room to write is full and cannot grow, outside of the
\* callback; in the callback one that is full of unread bytes cannot grow.
RoomInv ==
    "overrun" \notin odd =>
        /\ phase \notin {"Callback", "Crashed"} /\ rb.write_pos = Len(rb.data) => Filled(rb)
        /\ rb.write_pos - rb.read_pos = Len(rb.data) => Filled(rb)

\* Where the loop thread is: the callbacks of an event are canRecv and then
\* onClose, and onClose comes only after the peer has closed.
EventInv ==
    /\ todo \in {<<>>, <<"canRecv">>, <<"canRecv", "onClose">>, <<"onClose">>}
    /\ phase \notin {"Events", "Recv", "Callback", "Crashed"} => todo = <<>>
    /\ phase \in {"Recv", "Callback"} => todo \in {<<>>, <<"onClose">>}
    /\ todo \in {<<"canRecv", "onClose">>, <<"onClose">>} => peer # "open"
    /\ "RDHUP" \in edges => "IN" \in edges /\ peer # "open"
    /\ ds.mSocket => cause = "none"
    /\ phase = "Callback" => cause \in {"none", "user"}

\* Unread bytes of an open connection have an edge or recv ahead of them, or
\* the buffer is full.
StallInv ==
    /\ phase = "Callback" /\ short /\ taken < sent => "IN" \in edges /\ todo = <<>>
    /\ phase \in {"Wait", "Events", "After", "Schedule"} /\ ds.mSocket /\ taken < sent
           /\ "overrun" \notin odd =>
          \/ "IN" \in edges
          \/ todo # <<>> /\ Head(todo) = "canRecv"
          \/ Filled(rb)

\* The onClose of an event comes after its recv.
LastInv ==
    phase = "Events" /\ todo = <<"onClose">> /\ ds.mSocket /\ peer = "fin" /\ "overrun" \notin odd =>
        taken = sent \/ Filled(rb)

\* The heartbeat: only one timer is active, it is the one of the socket, and
\* with a data callback it ends when the connection has been silent for its time.
TimerInv ==
    /\ ds.mCheckTime \in Periods \cup {0}
    /\ \A t \in timers : t.mActive =>
          /\ ~deleted /\ t.id = ds.mTimer /\ t.id # 0
          /\ ~ds.mRecvData /\ callback # "none" => quiet + t.left >= ds.mCheckTime
    /\ \A t, u \in timers : t.mActive /\ u.mActive => t = u
    /\ "deletedTimer" \notin odd

\* What the n bytes behind the first k say.
Spoken(k, n) == [i \in 1..n |-> stream[k + i]]

\* The byte at which the next slice begins.
Behind(s) == s.from + s.len + (IF s.kind = "until" THEN Len(Delim) ELSE 0)

Position == Len(seen) + (IF phase = "Callback" THEN procLen ELSE 0)

\* The slices follow each other up to where process is, and each that ends
\* with the string ends at the first one.
SliceInv ==
    /\ \A i \in 1..Len(slices) : slices[i].kind = "until" =>
          memsearch(Spoken(slices[i].from, slices[i].len + Len(Delim))) = slices[i].len
    /\ \A i \in 1..(Len(slices) - 1) : slices[i + 1].from = Behind(slices[i])
    /\ slices # <<>> => Behind(slices[Len(slices)]) = Position

\* The first receive needs more bytes than the buffer has.
Hungry ==
    IF front.kind = "until" THEN Matches(Spoken(Len(seen), offered)) = {}
    ELSE wanted = 0 \/ offered < wanted

PromiseInv ==
    /\ callback # "promise" => slices = <<>>
    /\ "overread" \notin odd =>
          /\ phase # "Crashed"
          /\ phase = "Callback" => procLen <= offered
          /\ SliceInv
          /\ phase # "Callback" /\ callback = "promise" /\ pending # <<>> /\ "late" \notin odd => Hungry

BytesInv == StateType /\ StreamInv /\ RoomInv /\ EventInv /\ StallInv /\ LastInv /\ ReadBeforeClose

(***************************************************************************)
(* The buffer.                                                             *)
(***************************************************************************)

\* A function on 1..n is a sequence of length n.
LEMMA SeqOfFun ==
    ASSUME NEW S, NEW n \in Nat, NEW f \in [1..n -> S]
    PROVE  f \in Seq(S) /\ Len(f) = n
  BY SeqDef, LenProperties

\* The fields of a buffer, and of the buffers that the operators make of it.
LEMMA BufferFields ==
    ASSUME NEW b \in BufferType
    PROVE  /\ b.data \in Seq(Nat) /\ b.write_pos \in Nat /\ b.read_pos \in Nat
           /\ Len(b.data) \in Nat /\ DOMAIN b.data = 1..Len(b.data)
           /\ \A i \in 1..Len(b.data) : b.data[i] \in Nat
           /\ \A n \in Nat :
                 /\ [b EXCEPT !.write_pos = @ + n].data = b.data
                 /\ [b EXCEPT !.write_pos = @ + n].read_pos = b.read_pos
                 /\ [b EXCEPT !.write_pos = @ + n].write_pos = b.write_pos + n
                 /\ [b EXCEPT !.write_pos = @ + n] \in BufferType
                 /\ [b EXCEPT !.read_pos = @ + n].data = b.data
                 /\ [b EXCEPT !.read_pos = @ + n].read_pos = b.read_pos + n
                 /\ [b EXCEPT !.read_pos = @ + n].write_pos = b.write_pos
                 /\ [b EXCEPT !.read_pos = @ + n] \in BufferType
<1>1. b.data \in Seq(Nat) /\ b.write_pos \in Nat /\ b.read_pos \in Nat
  BY DEF BufferType
<1>2. /\ Len(b.data) \in Nat /\ DOMAIN b.data = 1..Len(b.data)
      /\ \A i \in 1..Len(b.data) : b.data[i] \in Nat
  BY <1>1, LenProperties, ElementOfSeq
<1> QED BY <1>1, <1>2 DEF BufferType

\* The unread bytes as a sequence.
LEMMA ReadableProps ==
    ASSUME NEW b \in BufferType, b.read_pos <= b.write_pos, b.write_pos <= Len(b.data)
    PROVE  /\ Readable(b) \in Seq(Nat)
           /\ Len(Readable(b)) = b.write_pos - b.read_pos
           /\ \A i \in 1..(b.write_pos - b.read_pos) : Readable(b)[i] = b.data[b.read_pos + i]
<1> DEFINE d == b.data
           r == b.read_pos
           w == b.write_pos
<1>1. d \in Seq(Nat) /\ w \in Nat /\ r \in Nat /\ Len(d) \in Nat /\ r <= w /\ w <= Len(d)
  BY BufferFields
<1>2. \A i \in 1..Len(d) : d[i] \in Nat
  BY BufferFields
<1>3. Readable(b) = SubSeq(d, r + 1, w)
  BY DEF Readable
<1> HIDE DEF d, r, w
<1>4. r + 1 \in Int /\ w \in Int /\ \A i \in (r + 1)..w : d[i] \in Nat
  BY <1>1, <1>2
<1>5. /\ SubSeq(d, r + 1, w) \in Seq(Nat)
      /\ Len(SubSeq(d, r + 1, w)) = IF r + 1 <= w THEN w - (r + 1) + 1 ELSE 0
      /\ \A i \in 1..(w - (r + 1) + 1) : SubSeq(d, r + 1, w)[i] = d[(r + 1) + i - 1]
  BY <1>4, SubSeqProperties
<1>6. Len(SubSeq(d, r + 1, w)) = w - r
  BY <1>1, <1>5
<1>7. ASSUME NEW i \in 1..(w - r) PROVE SubSeq(d, r + 1, w)[i] = d[r + i]
  <2>1. i \in 1..(w - (r + 1) + 1) /\ (r + 1) + i - 1 = r + i
    BY <1>1
  <2> QED BY <1>5, <2>1
<1> QED BY <1>3, <1>5, <1>6, <1>7 DEF d, r, w

\* The next bytes of the stream that are copied behind the others.
LEMMA StoreProps ==
    ASSUME NEW b \in BufferType, NEW k \in Nat, NEW f \in Seq(Nat), Holds(b, k),
           \A j \in 1..Len(f) : f[j] = k + (b.write_pos - b.read_pos) + j,
           b.write_pos + Len(f) <= Len(b.data)
    PROVE  LET c == ox_buffer_addwritepos(Store(b, f), Len(f)) IN
           /\ c \in BufferType /\ Holds(c, k)
           /\ Len(c.data) = Len(b.data)
           /\ c.write_pos = b.write_pos + Len(f) /\ c.read_pos = b.read_pos
<1> DEFINE d == b.data
           w == b.write_pos
           r == b.read_pos
           n == Len(f)
           t == k + (w - r)
           g == [i \in 1..Len(d) |-> IF i > w /\ i <= w + n THEN t + (i - w) ELSE d[i]]
           c == [data |-> g, write_pos |-> w + n, read_pos |-> r]
<1>1. /\ d \in Seq(Nat) /\ w \in Nat /\ r \in Nat /\ Len(d) \in Nat
      /\ DOMAIN d = 1..Len(d) /\ \A i \in 1..Len(d) : d[i] \in Nat
  BY BufferFields
<1>2. /\ r <= w /\ w <= Len(d) /\ w + n <= Len(d)
      /\ \A i \in 1..(w - r) : d[r + i] = k + i
  BY DEF Holds
<1>3. n \in Nat /\ t \in Nat /\ r + t = k + w
  BY <1>1, <1>2, LenProperties
<1>4. \A j \in 1..n : f[j] = t + j
  OBVIOUS
<1>5. Store(b, f) = [b EXCEPT !.data = [i \in 1..Len(d) |->
                                           IF i > w /\ i <= w + n THEN f[i - w] ELSE d[i]]]
  BY <1>1 DEF Store
<1> HIDE DEF d, w, r, n, t
<1>6. [i \in 1..Len(d) |-> IF i > w /\ i <= w + n THEN f[i - w] ELSE d[i]] = g
  <2>1. ASSUME NEW i \in 1..Len(d), i > w /\ i <= w + n PROVE f[i - w] = t + (i - w)
    <3>1. i - w \in 1..n
      BY <1>1, <1>3, <2>1
    <3> QED BY <1>4, <3>1
  <2> QED BY <2>1
<1>7. g \in [1..Len(d) -> Nat]
  BY <1>1, <1>3
<1>8. /\ \A i \in 1..Len(d) : i <= w => g[i] = d[i]
      /\ \A i \in 1..Len(d) : i > w /\ i <= w + n => g[i] = t + (i - w)
  BY <1>1, <1>3
<1> HIDE DEF g
<1>9. g \in Seq(Nat) /\ Len(g) = Len(d)
  BY <1>1, <1>7, SeqOfFun
<1>10. b = [data |-> d, write_pos |-> w, read_pos |-> r]
  BY DEF BufferType, d, w, r
<1>11. ox_buffer_addwritepos(Store(b, f), n) = c
  <2>1. Store(b, f) = [data |-> g, write_pos |-> w, read_pos |-> r]
    BY <1>5, <1>6, <1>10
  <2> DEFINE x == Store(b, f)
  <2>2. /\ x.data = g /\ x.write_pos = w
        /\ [x EXCEPT !.write_pos = @ + n] = [data |-> g, write_pos |-> w + n, read_pos |-> r]
    BY <2>1
  <2> HIDE DEF x
  <2>3. x.write_pos + n <= Len(x.data)
    BY <1>2, <1>9, <2>2
  <2>4. ox_buffer_addwritepos(x, n) = [x EXCEPT !.write_pos = @ + n]
    BY <2>3 DEF ox_buffer_addwritepos, ox_buffer_getsize
  <2> QED BY <2>2, <2>4 DEF x
<1>12. c.data = g /\ c.write_pos = w + n /\ c.read_pos = r /\ c \in BufferType
  BY <1>1, <1>3, <1>9 DEF BufferType
<1>13. ASSUME NEW i \in 1..((w + n) - r) PROVE g[r + i] = k + i
  <2>1. r + i \in 1..Len(d)
    BY <1>1, <1>2, <1>3
  <2>2. CASE r + i <= w
    <3>1. i \in 1..(w - r)
      BY <1>1, <1>2, <1>3, <2>2
    <3> QED BY <1>2, <1>8, <2>1, <2>2, <3>1
  <2>3. CASE r + i > w
    <3>1. r + i <= w + n
      BY <1>1, <1>2, <1>3
    <3>2. g[r + i] = t + ((r + i) - w)
      BY <1>8, <2>1, <2>3, <3>1
    <3>4. t + ((r + i) - w) = k + i
      BY <1>1, <1>3
    <3> QED BY <3>2, <3>4
  <2> QED BY <1>1, <2>1, <2>2, <2>3, <1>3
<1>14. Holds(c, k)
  <2>1. r <= w + n /\ w + n <= Len(g)
    BY <1>1, <1>2, <1>3, <1>9
  <2> HIDE DEF c
  <2> QED BY <1>12, <1>13, <2>1 DEF Holds
<1> QED BY <1>9, <1>11, <1>12, <1>14 DEF d, w, r, n

\* The unread bytes move to the front.
LEMMA AdjustProps ==
    ASSUME NEW b \in BufferType, NEW k \in Nat, Holds(b, k)
    PROVE  LET c == ox_buffer_adjustto_head(b) IN
           /\ c \in BufferType /\ Holds(c, k)
           /\ Len(c.data) = Len(b.data)
           /\ c.read_pos = 0 /\ c.write_pos = b.write_pos - b.read_pos
<1> DEFINE len == b.write_pos - b.read_pos
           g == [i \in DOMAIN b.data |->
                        IF i <= len THEN b.data[b.read_pos + i] ELSE b.data[i]]
           c == [data |-> g, write_pos |-> len, read_pos |-> 0]
<1>1. /\ b.data \in Seq(Nat) /\ b.write_pos \in Nat /\ b.read_pos \in Nat /\ Len(b.data) \in Nat
      /\ DOMAIN b.data = 1..Len(b.data) /\ \A i \in 1..Len(b.data) : b.data[i] \in Nat
  BY BufferFields
<1>2. /\ b.read_pos <= b.write_pos /\ b.write_pos <= Len(b.data)
      /\ \A i \in 1..(b.write_pos - b.read_pos) : b.data[b.read_pos + i] = k + i
  BY DEF Holds
<1>3. CASE b.read_pos = 0
  BY <1>1, <1>3 DEF ox_buffer_adjustto_head
<1>4. CASE b.read_pos # 0
  <2>1. ox_buffer_adjustto_head(b) = c
    BY <1>4 DEF ox_buffer_adjustto_head, ox_buffer_getreadvalidcount
  <2>2. len \in Nat /\ len <= Len(b.data)
    BY <1>1, <1>2
  <2>3. ASSUME NEW i \in 1..Len(b.data) PROVE g[i] \in Nat
    <3>1. CASE i <= len
      <4>1. b.read_pos + i \in 1..Len(b.data)
        <5> DEFINE r == b.read_pos
                   w == b.write_pos
                   m == Len(b.data)
        <5>1. r \in Nat /\ w \in Nat /\ m \in Nat /\ w <= m /\ i \in 1..m /\ i <= w - r
          BY <1>1, <1>2, <3>1
        <5> HIDE DEF r, w, m
        <5>2. r + i \in 1..m
          BY <5>1
        <5> QED BY <5>2 DEF r, m
      <4> QED BY <1>1, <3>1, <4>1
    <3>2. CASE ~(i <= len)
      BY <1>1, <3>2
    <3> QED BY <3>1, <3>2
  <2>4. g \in [1..Len(b.data) -> Nat]
    BY <1>1, <2>3
  <2>5. g \in Seq(Nat) /\ Len(g) = Len(b.data)
    BY <1>1, <2>4, SeqOfFun
  <2>6. \A i \in 1..len : g[i] = k + i
    BY <1>1, <1>2, <2>2
  <2>7. c.data = g /\ c.write_pos = len /\ c.read_pos = 0
    OBVIOUS
  <2>8. c \in BufferType
    BY <2>2, <2>5 DEF BufferType
  <2> HIDE DEF g, c
  <2>9. Holds(c, k)
    <3>1. c.read_pos <= c.write_pos /\ c.write_pos <= Len(c.data)
      BY <2>2, <2>5, <2>7
    <3>2. ASSUME NEW i \in 1..(c.write_pos - c.read_pos) PROVE c.data[c.read_pos + i] = k + i
      <4>1. i \in 1..len /\ c.read_pos + i = i
        BY <2>2, <2>7
      <4> QED BY <2>6, <2>7, <4>1
    <3> QED BY <3>1, <3>2 DEF Holds
  <2> QED BY <2>1, <2>5, <2>7, <2>8, <2>9
<1> QED BY <1>3, <1>4

\* Bytes that a callback has consumed.
LEMMA AddReadProps ==
    ASSUME NEW b \in BufferType, NEW k \in Nat, NEW n \in Nat,
           Holds(b, k), n <= b.write_pos - b.read_pos
    PROVE  LET c == ox_buffer_addreadpos(b, n) IN
           /\ c \in BufferType /\ Holds(c, k + n)
           /\ c.data = b.data
           /\ c.write_pos = b.write_pos /\ c.read_pos = b.read_pos + n
<1> DEFINE d == b.data
           w == b.write_pos
           r == b.read_pos
           c == [data |-> d, write_pos |-> w, read_pos |-> r + n]
<1>1. d \in Seq(Nat) /\ w \in Nat /\ r \in Nat /\ Len(d) \in Nat
  BY BufferFields
<1>2. /\ r <= w /\ w <= Len(d) /\ n <= w - r
      /\ \A i \in 1..(w - r) : d[r + i] = k + i
  BY DEF Holds
<1>3. b = [data |-> d, write_pos |-> w, read_pos |-> r]
  BY DEF BufferType
<1> HIDE DEF d, w, r
<1>4. r + n <= Len(d) /\ r + n <= w
  BY <1>1, <1>2
<1>5. ox_buffer_addreadpos(b, n) = c
  BY <1>3, <1>4 DEF ox_buffer_addreadpos, ox_buffer_getsize
<1>6. c \in BufferType /\ c.data = d /\ c.write_pos = w /\ c.read_pos = r + n
  BY <1>1 DEF BufferType
<1>7. ASSUME NEW i \in 1..(w - (r + n)) PROVE d[(r + n) + i] = (k + n) + i
  <2>1. n + i \in 1..(w - r)
    BY <1>1, <1>2
  <2>2. d[r + (n + i)] = k + (n + i)
    BY <1>2, <2>1
  <2>3. r + (n + i) = (r + n) + i /\ k + (n + i) = (k + n) + i
    BY <1>1
  <2> QED BY <2>2, <2>3
<1>8. Holds(c, k + n)
  <2> HIDE DEF c
  <2> QED BY <1>2, <1>4, <1>6, <1>7 DEF Holds
<1> QED BY <1>5, <1>6, <1>8 DEF d, w, r

\* growRecvBuffer on a buffer that is full of unread bytes: they are copied
\* into a larger one, or there is no larger one.
LEMMA GrowProps ==
    ASSUME NEW b \in BufferType, NEW k \in Nat, Holds(b, k), SizeOK(b),
           b.write_pos - b.read_pos = Len(b.data)
    PROVE  LET c == growRecvBuffer(b) IN
           /\ c \in BufferType /\ Holds(c, k) /\ SizeOK(c)
           /\ c.write_pos - c.read_pos = b.write_pos - b.read_pos
           /\ c.write_pos - c.read_pos = Len(c.data) => Filled(c)
<1> DEFINE L == Len(b.data)
           bytes == Readable(b)
           new == ox_buffer_new(L + Grow)
<1>1. b.data \in Seq(Nat) /\ b.write_pos \in Nat /\ b.read_pos \in Nat /\ L \in Nat
  BY BufferFields
<1>2. /\ b.read_pos <= b.write_pos /\ b.write_pos <= L
      /\ \A i \in 1..(b.write_pos - b.read_pos) : b.data[b.read_pos + i] = k + i
  BY DEF Holds
<1>3. b.read_pos = 0 /\ b.write_pos = L
  BY <1>1, <1>2
<1>4. CASE ~(L + Grow <= mMaxRecvBufferSize)
  <2>1. growRecvBuffer(b) = b
    BY <1>4 DEF growRecvBuffer, ox_buffer_getsize
  <2>2. Filled(b)
    BY <1>1, <1>3, <1>4, SizesAssumption DEF Filled
  <2> QED BY <2>1, <2>2
<1>5. CASE L + Grow <= mMaxRecvBufferSize
  <2>1. growRecvBuffer(b) = ox_buffer_write(new, bytes)
    BY <1>5 DEF growRecvBuffer, ox_buffer_getsize
  <2>2. /\ bytes \in Seq(Nat) /\ Len(bytes) = L
        /\ \A i \in 1..L : bytes[i] = b.data[i] /\ b.data[i] = k + i
    <3>1. /\ Readable(b) \in Seq(Nat) /\ Len(Readable(b)) = b.write_pos - b.read_pos
          /\ \A i \in 1..(b.write_pos - b.read_pos) : Readable(b)[i] = b.data[b.read_pos + i]
      BY <1>2, ReadableProps
    <3>2. \A i \in 1..(b.write_pos - b.read_pos) : Readable(b)[i] = b.data[i] /\ b.data[i] = k + i
      BY <1>2, <1>3, <3>1
    <3> QED BY <1>1, <1>3, <3>1, <3>2
  <2> HIDE DEF bytes
  <2> DEFINE z == [i \in 1..(L + Grow) |-> Junk]
  <2>5. new = [data |-> z, write_pos |-> 0, read_pos |-> 0]
    BY DEF ox_buffer_new
  <2>6. L + Grow \in Nat /\ z \in [1..(L + Grow) -> Nat]
    BY <1>1, SizesAssumption DEF Junk
  <2> HIDE DEF z, new
  <2>7. z \in Seq(Nat) /\ Len(z) = L + Grow
    BY <2>6, SeqOfFun
  <2>8. /\ new \in BufferType /\ new.write_pos = 0 /\ new.read_pos = 0 /\ new.data = z
        /\ Len(new.data) = L + Grow
    BY <2>5, <2>7 DEF BufferType
  <2>9. Holds(new, k)
    BY <1>1, <2>8, SizesAssumption DEF Holds
  <2>10. new.write_pos + Len(bytes) <= Len(new.data)
    BY <1>1, <2>2, <2>8, SizesAssumption
  <2> DEFINE c == ox_buffer_addwritepos(Store(new, bytes), Len(bytes))
  <2>11. /\ c \in BufferType /\ Holds(c, k) /\ Len(c.data) = Len(new.data)
         /\ c.write_pos = new.write_pos + Len(bytes) /\ c.read_pos = new.read_pos
    <3> HIDE DEF L, c
    <3>2. new.write_pos - new.read_pos = 0 /\ k + 0 = k
      BY <2>8
    <3>3. \A i \in 1..Len(bytes) : bytes[i] = k + i
      BY <2>2
    <3>1. \A i \in 1..Len(bytes) : bytes[i] = k + (new.write_pos - new.read_pos) + i
      BY <3>2, <3>3
    <3> QED BY <2>2, <2>8, <2>9, <2>10, <3>1, StoreProps DEF c
  <2>12. ox_buffer_write(new, bytes) = c
    <3>1. ox_buffer_getwritevalidcount(new) >= Len(bytes)
      BY <1>1, <2>2, <2>8, SizesAssumption DEF ox_buffer_getwritevalidcount, ox_buffer_getsize
    <3> QED BY <2>2, <3>1 DEF ox_buffer_write
  <2> HIDE DEF c
  <2>13. /\ c.write_pos = L /\ c.read_pos = 0 /\ Len(c.data) = L + Grow /\ L > 0
         /\ c.write_pos - c.read_pos # Len(c.data)
    BY <1>1, <2>2, <2>8, <2>11, SizesAssumption DEF SizeOK
  <2>14. SizeOK(c)
    BY <1>1, <1>5, <2>13, SizesAssumption DEF SizeOK
  <2> QED BY <1>1, <1>3, <2>1, <2>11, <2>12, <2>13, <2>14
<1> QED BY <1>1, <1>4, <1>5

(***************************************************************************)
(* One iteration of recv().                                                *)
(***************************************************************************)

\* What ::recv puts into the buffer.
LEMMA ReadProps ==
    ASSUME StateType, StreamInv, RecvReads
    PROVE  /\ rb' \in BufferType /\ Holds(rb', Len(seen)) /\ SizeOK(rb')
           /\ Len(seen) + (rb'.write_pos - rb'.read_pos) = taken'
           /\ taken' \in Nat /\ taken' <= sent
           /\ short' \in BOOLEAN /\ (short' => taken' = sent)
           /\ rb'.write_pos - rb'.read_pos = Len(rb'.data) => Filled(rb')
<1> DEFINE room == Len(rb.data) - rb.write_pos
           n == IF sent - taken < room THEN sent - taken ELSE room
           f == [i \in 1..n |-> taken + i]
           b == ox_buffer_addwritepos(Store(rb, f), n)
<1>1. /\ rb \in BufferType /\ Holds(rb, Len(seen)) /\ SizeOK(rb)
      /\ Len(seen) + (rb.write_pos - rb.read_pos) = taken
      /\ sent \in Nat /\ taken \in Nat /\ taken <= sent /\ seen \in Seq(Nat)
  BY DEF StateType, ConnType, KernelType, StreamInv
<1>2. Len(seen) \in Nat
  BY <1>1, LenProperties
<1>3. rb.data \in Seq(Nat) /\ rb.write_pos \in Nat /\ rb.read_pos \in Nat /\ Len(rb.data) \in Nat
  BY <1>1, BufferFields
<1>4. tryRecvLen = room
  BY DEF tryRecvLen, ox_buffer_getwritevalidcount, ox_buffer_getsize
<1>5. room > 0 /\ taken < sent
  BY <1>4 DEF RecvReads
<1>6. room \in Nat
  BY <1>3, <1>5
<1>7. /\ rb' = IF ox_buffer_getreadvalidcount(b) = ox_buffer_getsize(b) THEN growRecvBuffer(b) ELSE b
      /\ taken' = taken + n /\ short' = (n < room)
  BY <1>4 DEF RecvReads
<1> HIDE DEF room
<1>8. n \in Nat /\ n <= room /\ n <= sent - taken /\ n > 0 /\ (n < room => n = sent - taken)
  BY <1>1, <1>5, <1>6
<1> HIDE DEF n
<1>9. f \in [1..n -> Nat] /\ \A j \in 1..n : f[j] = taken + j
  BY <1>1, <1>8
<1> HIDE DEF f
<1>10. f \in Seq(Nat) /\ Len(f) = n
  BY <1>8, <1>9, SeqOfFun
<1>11. \A j \in 1..Len(f) : f[j] = Len(seen) + (rb.write_pos - rb.read_pos) + j
  BY <1>1, <1>9, <1>10
<1>12. rb.write_pos + Len(f) <= Len(rb.data)
  BY <1>3, <1>8, <1>10 DEF room
<1>13. b = ox_buffer_addwritepos(Store(rb, f), Len(f))
  BY <1>10
<1> HIDE DEF b
<1>14. /\ b \in BufferType /\ Holds(b, Len(seen)) /\ Len(b.data) = Len(rb.data)
       /\ b.write_pos = rb.write_pos + Len(f) /\ b.read_pos = rb.read_pos
  BY <1>1, <1>2, <1>10, <1>11, <1>12, <1>13, StoreProps
<1>15. SizeOK(b)
  BY <1>1, <1>14 DEF SizeOK
<1>16. Len(seen) + (b.write_pos - b.read_pos) = taken + n
  <2> DEFINE w == rb.write_pos
             r == rb.read_pos
             s == Len(seen)
  <2>1. s \in Nat /\ w \in Nat /\ r \in Nat /\ s + (w - r) = taken
    BY <1>1, <1>2, <1>3
  <2>2. b.write_pos = w + n /\ b.read_pos = r
    BY <1>10, <1>14
  <2> HIDE DEF w, r, s
  <2>3. s + ((w + n) - r) = taken + n
    BY <1>1, <1>8, <2>1
  <2> QED BY <2>2, <2>3 DEF s
<1>17. taken' \in Nat /\ taken' <= sent /\ short' \in BOOLEAN /\ (short' => taken' = sent)
  <2>1. taken + n \in Nat /\ taken + n <= sent /\ (n < room => taken + n = sent)
    BY <1>1, <1>8
  <2>2. taken' = taken + n /\ short' = (n < room)
    BY <1>7
  <2>3. short' = TRUE \/ short' = FALSE
    BY <2>2
  <2>4. short' => n < room
    BY <2>2
  <2>5. short' => taken' = sent
    BY <2>1, <2>2, <2>4
  <2> QED BY <2>1, <2>2, <2>3, <2>5
<1>18. CASE b.write_pos - b.read_pos = Len(b.data)
  <2>1. rb' = growRecvBuffer(b)
    BY <1>7, <1>18 DEF ox_buffer_getreadvalidcount, ox_buffer_getsize
  <2>2. /\ growRecvBuffer(b) \in BufferType /\ Holds(growRecvBuffer(b), Len(seen))
        /\ SizeOK(growRecvBuffer(b))
        /\ growRecvBuffer(b).write_pos - growRecvBuffer(b).read_pos = b.write_pos - b.read_pos
        /\ growRecvBuffer(b).write_pos - growRecvBuffer(b).read_pos = Len(growRecvBuffer(b).data)
              => Filled(growRecvBuffer(b))
    BY <1>2, <1>14, <1>15, <1>18, GrowProps
  <2> QED BY <1>7, <1>16, <1>17, <2>1, <2>2
<1>19. CASE b.write_pos - b.read_pos # Len(b.data)
  <2>1. rb' = b
    BY <1>7, <1>19 DEF ox_buffer_getreadvalidcount, ox_buffer_getsize
  <2> QED BY <1>7, <1>14, <1>15, <1>16, <1>17, <1>19, <2>1
<1> QED BY <1>18, <1>19

\* The rest of an iteration when the callback has kept its contract.
LEMMA ConsumeProps ==
    ASSUME StateType, StreamInv, NEW p \in Nat, p <= rb.write_pos - rb.read_pos, Consume(p)
    PROVE  /\ rb' \in BufferType /\ Holds(rb', Len(seen')) /\ SizeOK(rb')
           /\ seen' \in Seq(Nat) /\ Len(seen') = Len(seen) + p
           /\ \A i \in 1..Len(seen') : seen'[i] = i
           /\ Len(seen') + (rb'.write_pos - rb'.read_pos) = taken
           /\ Len(rb'.data) = Len(rb.data)
           /\ rb'.write_pos = Len(rb'.data) =>
                 rb'.read_pos = 0 /\ rb.write_pos - rb.read_pos = Len(rb.data)
           /\ phase' = (IF short THEN "Events" ELSE "Recv") /\ odd' = odd
<1> DEFINE b == ox_buffer_addreadpos(rb, p)
           eaten == SubSeq(Readable(rb), 1, p)
<1>1. /\ rb \in BufferType /\ Holds(rb, Len(seen)) /\ SizeOK(rb)
      /\ Len(seen) + (rb.write_pos - rb.read_pos) = taken
      /\ seen \in Seq(Nat) /\ \A i \in 1..Len(seen) : seen[i] = i
  BY DEF StateType, ConnType, KernelType, StreamInv
<1>2. Len(seen) \in Nat
  BY <1>1, LenProperties
<1>3. /\ rb.data \in Seq(Nat) /\ rb.write_pos \in Nat /\ rb.read_pos \in Nat /\ Len(rb.data) \in Nat
      /\ rb.read_pos <= rb.write_pos /\ rb.write_pos <= Len(rb.data)
      /\ \A i \in 1..(rb.write_pos - rb.read_pos) : rb.data[rb.read_pos + i] = Len(seen) + i
  BY <1>1, BufferFields DEF Holds
<1>4. /\ rb' = IF ox_buffer_getwritevalidcount(b) = 0 \/ ox_buffer_getreadvalidcount(b) = 0
               THEN ox_buffer_adjustto_head(b) ELSE b
      /\ seen' = seen \o eaten
      /\ phase' = (IF short THEN "Events" ELSE "Recv") /\ odd' = odd
  <2>1. ~(p > ox_buffer_getreadvalidcount(rb))
    BY <1>3 DEF ox_buffer_getreadvalidcount
  <2> QED BY <2>1 DEF Consume
<1>5. /\ b \in BufferType /\ Holds(b, Len(seen) + p) /\ b.data = rb.data
      /\ b.write_pos = rb.write_pos /\ b.read_pos = rb.read_pos + p
  BY <1>1, <1>2, AddReadProps
<1>6. /\ eaten \in Seq(Nat) /\ Len(eaten) = p
      /\ \A i \in 1..p : eaten[i] = Len(seen) + i
  <2> DEFINE q == Readable(rb)
             m == rb.write_pos - rb.read_pos
  <2>1. q \in Seq(Nat) /\ Len(q) = m /\ \A i \in 1..m : q[i] = rb.data[rb.read_pos + i]
    BY <1>1, <1>3, ReadableProps
  <2>2. \A i \in 1..m : q[i] = Len(seen) + i
    BY <1>3, <2>1
  <2>3. m \in Nat /\ p <= m
    BY <1>3
  <2> HIDE DEF q, m
  <2>4. \A i \in 1..p : q[i] \in Nat
    BY <1>2, <2>2, <2>3
  <2>5. /\ SubSeq(q, 1, p) \in Seq(Nat)
        /\ Len(SubSeq(q, 1, p)) = IF 1 <= p THEN p - 1 + 1 ELSE 0
        /\ \A i \in 1..(p - 1 + 1) : SubSeq(q, 1, p)[i] = q[1 + i - 1]
    BY <2>4, SubSeqProperties
  <2>6. Len(SubSeq(q, 1, p)) = p
    BY <2>5
  <2>7. \A i \in 1..p : SubSeq(q, 1, p)[i] = q[i]
    BY <2>5
  <2>8. \A i \in 1..p : SubSeq(q, 1, p)[i] = Len(seen) + i
    BY <2>2, <2>3, <2>7
  <2> QED BY <2>5, <2>6, <2>8 DEF q
<1> HIDE DEF b, eaten
<1>7. /\ seen' \in Seq(Nat) /\ Len(seen') = Len(seen) + p
      /\ \A i \in 1..Len(seen') : seen'[i] = i
  <2>1. /\ seen \o eaten \in Seq(Nat) /\ Len(seen \o eaten) = Len(seen) + p
        /\ \A i \in 1..(Len(seen) + p) : (seen \o eaten)[i] =
               IF i <= Len(seen) THEN seen[i] ELSE eaten[i - Len(seen)]
    BY <1>1, <1>6, ConcatProperties
  <2>2. ASSUME NEW i \in 1..(Len(seen) + p) PROVE (seen \o eaten)[i] = i
    <3>1. CASE i <= Len(seen)
      BY <1>1, <1>2, <2>1, <3>1
    <3>2. CASE ~(i <= Len(seen))
      <4>1. i - Len(seen) \in 1..p
        BY <1>2, <3>2
      <4>2. eaten[i - Len(seen)] = Len(seen) + (i - Len(seen))
        BY <1>6, <4>1
      <4> QED BY <1>2, <2>1, <3>2, <4>2
    <3> QED BY <3>1, <3>2
  <2> QED BY <1>4, <2>1, <2>2
<1>8. /\ b.write_pos \in Nat /\ b.read_pos \in Nat /\ b.read_pos <= b.write_pos
      /\ b.write_pos <= Len(b.data) /\ Len(b.data) \in Nat
      /\ (Len(seen) + p) + (b.write_pos - b.read_pos) = taken
      /\ b.write_pos - b.read_pos <= rb.write_pos - rb.read_pos
  BY <1>1, <1>2, <1>3, <1>5
<1>9. SizeOK(b)
  BY <1>1, <1>5 DEF SizeOK
<1>10. CASE ~(b.write_pos = Len(b.data) \/ b.write_pos = b.read_pos)
  <2>1. ~(ox_buffer_getwritevalidcount(b) = 0 \/ ox_buffer_getreadvalidcount(b) = 0)
    BY <1>8, <1>10 DEF ox_buffer_getwritevalidcount, ox_buffer_getreadvalidcount, ox_buffer_getsize
  <2>2. rb' = b
    BY <1>4, <2>1
  <2> QED BY <1>4, <1>5, <1>7, <1>8, <1>9, <1>10, <2>2
<1>11. CASE b.write_pos = Len(b.data) \/ b.write_pos = b.read_pos
  <2> DEFINE c == ox_buffer_adjustto_head(b)
  <2>1. ox_buffer_getwritevalidcount(b) = 0 \/ ox_buffer_getreadvalidcount(b) = 0
    BY <1>8, <1>11 DEF ox_buffer_getwritevalidcount, ox_buffer_getreadvalidcount, ox_buffer_getsize
  <2>2. rb' = c
    BY <1>4, <2>1
  <2>3. Len(seen) + p \in Nat
    BY <1>2
  <2>4. /\ c \in BufferType /\ Holds(c, Len(seen) + p) /\ Len(c.data) = Len(b.data)
        /\ c.read_pos = 0 /\ c.write_pos = b.write_pos - b.read_pos
    BY <1>5, <2>3, AdjustProps
  <2> HIDE DEF c
  <2>5. SizeOK(c)
    BY <1>9, <2>4 DEF SizeOK
  <2>6. c.write_pos - c.read_pos = b.write_pos - b.read_pos
    BY <1>8, <2>4
  <2>7. c.write_pos = Len(c.data) => rb.write_pos - rb.read_pos = Len(rb.data)
    BY <1>3, <1>5, <1>8, <2>4
  <2> QED BY <1>4, <1>5, <1>7, <1>8, <2>2, <2>4, <2>5, <2>6, <2>7
<1> QED BY <1>10, <1>11

\* A callback that claims more than it was offered leaves recv.
LEMMA OverrunProps ==
    ASSUME NEW p, p > rb.write_pos - rb.read_pos, Consume(p)
    PROVE  phase' = "Events" /\ odd' = odd \cup {"overrun"} /\ UNCHANGED <<rb, seen>>
  BY DEF Consume, ox_buffer_getreadvalidcount

(***************************************************************************)
(* The timers.                                                             *)
(***************************************************************************)

\* There is always a number for a new timer.
LEMMA FreshTimerProps ==
    ASSUME NEW ts, IsFiniteSet(ts)
    PROVE  FreshTimer(ts) \in Nat \ {0}
<1> DEFINE n == Cardinality(ts)
           f == [i \in 1..(n + 1) |-> CHOOSE t \in ts : t.id = i]
<1>1. n \in Nat
  BY FS_CardinalityType
<1> HIDE DEF n
<1>2. IsFiniteSet(1..(n + 1)) /\ Cardinality(1..(n + 1)) = n + 1
  BY <1>1, FS_Interval
<1>3. \E i \in 1..(n + 1) : \A t \in ts : t.id # i
  <2> SUFFICES ASSUME \A i \in 1..(n + 1) : \E t \in ts : t.id = i PROVE FALSE
    OBVIOUS
  <2>1. \A i \in 1..(n + 1) : f[i] \in ts /\ f[i].id = i
    OBVIOUS
  <2>2. f \in [1..(n + 1) -> ts]
    BY <2>1
  <2> HIDE DEF f
  <2>3. Cardinality(ts) < Cardinality(1..(n + 1))
    BY <1>1, <1>2 DEF n
  <2>4. \E x, y \in 1..(n + 1) : x # y /\ f[x] = f[y]
    <3> DEFINE S == 1..(n + 1)
    <3>1. IsFiniteSet(S) /\ f \in [S -> ts] /\ Cardinality(ts) < Cardinality(S)
      BY <1>2, <2>2, <2>3
    <3> HIDE DEF S
    <3>2. \E x, y \in S : x # y /\ f[x] = f[y]
      BY <3>1, FS_PigeonHole
    <3> QED BY <3>2 DEF S
  <2> QED BY <2>1, <2>4
<1>4. FreshTimer(ts) \in 1..(n + 1)
  BY <1>3 DEF FreshTimer, n
<1> QED BY <1>1, <1>4

\* Cancelling changes no timer but the one it is for.
LEMMA CancelProps ==
    ASSUME NEW ts \in SUBSET TimerType, IsFiniteSet(ts), NEW i
    PROVE  /\ cancel(ts, i) \in SUBSET TimerType /\ IsFiniteSet(cancel(ts, i))
           /\ \A t \in cancel(ts, i) : t.mActive => t \in ts /\ t.id # i
<1> DEFINE g(t) == [t EXCEPT !.mActive = @ /\ t.id # i]
           f == [t \in ts |-> g(t)]
<1>1. ASSUME NEW t \in ts
      PROVE  g(t) \in TimerType /\ (g(t).mActive => g(t) = t /\ t.id # i)
  <2>1. t \in TimerType
    OBVIOUS
  <2>2. t = [id |-> t.id, left |-> t.left, mActive |-> t.mActive] /\ t.mActive \in BOOLEAN
        /\ t.id \in Nat /\ t.left \in Nat
    BY <2>1 DEF TimerType
  <2>3. (t.mActive /\ t.id # i) \in BOOLEAN
    OBVIOUS
  <2>4. g(t) = [id |-> t.id, left |-> t.left, mActive |-> (t.mActive /\ t.id # i)]
    BY <2>2
  <2>5. g(t) \in TimerType /\ g(t).mActive = (t.mActive /\ t.id # i)
    BY <2>2, <2>3, <2>4 DEF TimerType
  <2>6. CASE t.mActive /\ t.id # i
    <3>1. t.mActive = (t.mActive /\ t.id # i)
      BY <2>2, <2>6
    <3> QED BY <2>2, <2>4, <2>5, <2>6, <3>1
  <2>7. CASE ~(t.mActive /\ t.id # i)
    BY <2>5, <2>7
  <2> QED BY <2>6, <2>7
<1>2. cancel(ts, i) = {g(t) : t \in ts}
  BY DEF cancel
<1> HIDE DEF g
<1>3. f \in Surjection(ts, cancel(ts, i))
  BY <1>2 DEF Surjection
<1>4. IsFiniteSet(cancel(ts, i))
  BY <1>3, FS_Surjection
<1> QED BY <1>1, <1>2, <1>4

\* Time passes for all timers alike.
LEMMA ElapseProps ==
    ASSUME NEW ts \in SUBSET TimerType, IsFiniteSet(ts)
    PROVE  /\ Elapse(ts) \in SUBSET TimerType /\ IsFiniteSet(Elapse(ts))
           /\ \A t \in Elapse(ts) : \E u \in ts :
                 /\ t.id = u.id /\ t.mActive = u.mActive
                 /\ t.left = IF u.left > 0 THEN u.left - 1 ELSE 0
<1> DEFINE g(t) == [t EXCEPT !.left = IF @ > 0 THEN @ - 1 ELSE 0]
           f == [t \in ts |-> g(t)]
<1>1. ASSUME NEW t \in ts
      PROVE  /\ g(t) \in TimerType /\ g(t).id = t.id /\ g(t).mActive = t.mActive
             /\ g(t).left = IF t.left > 0 THEN t.left - 1 ELSE 0
  <2>1. t \in TimerType
    OBVIOUS
  <2>2. t.left \in Nat /\ (IF t.left > 0 THEN t.left - 1 ELSE 0) \in Nat
    BY <2>1 DEF TimerType
  <2> QED BY <2>1, <2>2 DEF TimerType
<1>2. Elapse(ts) = {g(t) : t \in ts}
  BY DEF Elapse
<1> HIDE DEF g
<1>3. f \in Surjection(ts, Elapse(ts))
  BY <1>2 DEF Surjection
<1>4. IsFiniteSet(Elapse(ts))
  BY <1>3, FS_Surjection
<1> QED BY <1>1, <1>2, <1>4

\* Starting and popping a timer.
LEMMA HeapProps ==
    ASSUME NEW ts \in SUBSET TimerType, IsFiniteSet(ts)
    PROVE  /\ \A i, n \in Nat : addTimer(ts, i, n) \in SUBSET TimerType /\ IsFiniteSet(addTimer(ts, i, n))
           /\ \A t : pop(ts, t) \in SUBSET TimerType /\ IsFiniteSet(pop(ts, t))
<1>1. ASSUME NEW i \in Nat, NEW n \in Nat
      PROVE  addTimer(ts, i, n) \in SUBSET TimerType /\ IsFiniteSet(addTimer(ts, i, n))
  <2>1. Timer(i, n) \in TimerType
    BY DEF Timer, TimerType
  <2>2. IsFiniteSet(ts \cup {Timer(i, n)})
    BY FS_AddElement
  <2> QED BY <2>1, <2>2 DEF addTimer
<1>2. ASSUME NEW t PROVE pop(ts, t) \in SUBSET TimerType /\ IsFiniteSet(pop(ts, t))
  BY FS_RemoveElement DEF pop
<1> QED BY <1>1, <1>2

(***************************************************************************)
(* PromiseReceive.                                                         *)
(***************************************************************************)

\* A set of numbers that is not empty has a least element.
LEMMA LeastIsThere ==
    ASSUME NEW S, S \subseteq Nat, S # {}
    PROVE  \E x \in S : \A y \in S : x <= y
<1> DEFINE R == OpToRel(<, Nat)
<1>1. IsWellFoundedOn(R, Nat)
  BY NatLessThanWellFounded
<1>2. \A x, y \in Nat : y < x => <<y, x>> \in R
  BY DEF OpToRel
<1> HIDE DEF R
<1>3. PICK x \in S : \A y \in S : ~(<<y, x>> \in R)
  BY <1>1, WFMin
<1>4. ASSUME NEW y \in S PROVE x <= y
  <2>1. x \in Nat /\ y \in Nat
    OBVIOUS
  <2>2. ~(y < x)
    BY <1>2, <1>3, <2>1
  <2> QED BY <2>1, <2>2
<1> QED BY <1>4

\* memsearch finds the first place where the string is.
LEMMA MemsearchProps ==
    ASSUME NEW text, Matches(text) # {}, Len(text) \in Nat
    PROVE  /\ memsearch(text) \in Nat /\ memsearch(text) + Len(Delim) <= Len(text)
           /\ memsearch(text) \in Matches(text)
           /\ \A q \in Matches(text) : memsearch(text) <= q
<1>1. Matches(text) \subseteq 0..(Len(text) - Len(Delim))
  BY DEF Matches
<1>2. Matches(text) \subseteq Nat
  BY <1>1, DelimAssumption
<1>3. \E x \in Matches(text) : \A y \in Matches(text) : x <= y
  BY <1>2, LeastIsThere
<1>4. memsearch(text) \in Matches(text) /\ \A q \in Matches(text) : memsearch(text) <= q
  BY <1>3 DEF memsearch
<1>5. memsearch(text) \in 0..(Len(text) - Len(Delim))
  BY <1>1, <1>4
<1>6. memsearch(text) \in Nat /\ memsearch(text) + Len(Delim) <= Len(text)
  BY <1>5, DelimAssumption
<1> QED BY <1>4, <1>6

\* A function on 1..n has length n, whatever its values are.
LEMMA FunLen ==
    ASSUME NEW n \in Nat, NEW f, f = [i \in 1..n |-> f[i]]
    PROVE  Len(f) = n
<1> DEFINE S == {f[i] : i \in 1..n}
<1>1. f \in [1..n -> S]
  OBVIOUS
<1> HIDE DEF S
<1> QED BY <1>1, SeqOfFun

ReceiveType == [kind : {"len", "until", "cell"}, len : Nat]
SliceType   == [kind : {"len", "until"}, from : Nat, len : Nat]

\* What a handle leaves is well-formed.
LEMMA HandleType ==
    ASSUME StateType, pending # <<>>, NEW kind \in {"len", "until"}, NEW n \in Nat, NEW keep,
           Handle(kind, n, keep)
    PROVE  /\ pending' \in Seq(ReceiveType) /\ cell' \in Nat /\ slices' \in Seq(SliceType)
<1>1. /\ pending \in Seq(ReceiveType) /\ cell \in Nat /\ procLen \in Nat /\ slices \in Seq(SliceType)
      /\ seen \in Seq(Nat)
  BY DEF StateType, PromiseType, ReceiveType, SliceType
<1>2. Len(seen) \in Nat
  BY <1>1, LenProperties
<1>3. Tail(pending) \in Seq(ReceiveType)
  BY <1>1, HeadTailProperties
<1>4. PICK more \in Asks : pending' = (IF keep THEN pending ELSE Tail(pending)) \o more
  BY DEF Handle
<1>5. pending' \in Seq(ReceiveType)
  <2>1. more \in Seq(ReceiveType)
    <3>1. more = <<>> \/ \E r \in Asked : more = <<r>>
      BY DEF Asks
    <3>2. \A r \in Asked : r \in ReceiveType
      BY ScriptsAssumption DEF ReceiveType
    <3>3. CASE more = <<>>
      BY <3>3, EmptySeq
    <3>4. ASSUME NEW r \in Asked, more = <<r>> PROVE more \in Seq(ReceiveType)
      <4>1. more \in [1..1 -> ReceiveType]
        BY <3>2, <3>4
      <4> QED BY <4>1, SeqOfFun
    <3> QED BY <3>1, <3>3, <3>4
  <2>2. (IF keep THEN pending ELSE Tail(pending)) \in Seq(ReceiveType)
    BY <1>1, <1>3
  <2> QED BY <1>4, <2>1, <2>2, ConcatProperties
<1>6. cell' \in Nat
  <2>1. cell' \in 0..1 \/ cell' = cell
    BY DEF Handle
  <2> QED BY <1>1, <2>1
<1>7. slices' \in Seq(SliceType)
  <2> DEFINE s == [kind |-> kind, from |-> Len(seen) + procLen, len |-> n]
  <2>1. s \in SliceType
    BY <1>1, <1>2 DEF SliceType
  <2>2. slices' = slices \/ slices' = Append(slices, s)
    BY DEF Handle
  <2> HIDE DEF s
  <2>3. Append(slices, s) \in Seq(SliceType)
    BY <1>1, <2>1, AppendProperties
  <2> QED BY <1>1, <2>2, <2>3
<1> QED BY <1>5, <1>6, <1>7

\* What process has been offered, and has left.
LEMMA OfferedProps ==
    ASSUME StateType, StreamInv
    PROVE  /\ offered = rb.write_pos - rb.read_pos /\ offered \in Nat
           /\ left = offered - procLen /\ left \in Int
           /\ left >= 0 => left \in Nat /\ procLen <= offered /\ Len(Text) = left
<1>1. rb.write_pos \in Nat /\ rb.read_pos \in Nat /\ rb.read_pos <= rb.write_pos /\ procLen \in Nat
  BY BufferFields DEF StateType, ConnType, PromiseType, StreamInv, Holds
<1>2. offered = rb.write_pos - rb.read_pos /\ offered \in Nat
  BY <1>1 DEF offered, ox_buffer_getreadvalidcount
<1>3. left = offered - procLen /\ left \in Int
  BY <1>1, <1>2 DEF left
<1>4. ASSUME left >= 0 PROVE left \in Nat /\ procLen <= offered /\ Len(Text) = left
  <2>1. left \in Nat /\ procLen <= offered
    BY <1>1, <1>2, <1>3, <1>4
  <2>2. Text = [i \in 1..left |-> Text[i]]
    BY DEF Text
  <2> QED BY <2>1, <2>2, FunLen
<1> QED BY <1>2, <1>3, <1>4

\* A receive that is waiting asks for a number of bytes.
LEMMA WantedType ==
    ASSUME StateType, pending # <<>>
    PROVE  front \in ReceiveType /\ wanted \in Nat
<1>1. pending \in Seq(ReceiveType) /\ cell \in Nat
  BY DEF StateType, PromiseType, ReceiveType
<1>2. front \in ReceiveType
  BY <1>1, HeadTailProperties DEF front
<1> QED BY <1>1, <1>2 DEF wanted, ReceiveType

\* The rounds of process keep the types.
LEMMA ProcessType ==
    ASSUME StateType, StreamInv, ProcessStep
    PROVE  /\ PromiseType' /\ UNCHANGED <<conn, clock, todo, short, kernel, fixed, seen, cause>>
           /\ phase' \in {phase, "Crashed"} /\ phase = "Callback"
           /\ odd \subseteq odd' /\ odd' \subseteq odd \cup {"overread"}
           /\ phase' = "Crashed" => UNCHANGED promise
           /\ "overread" \notin odd' => procLen' <= offered /\ odd' = odd
<1>1. PICK keep \in BOOLEAN : ReceiveLen(keep) \/ ReceiveUntil(keep) \/ ReceiveUntilOverreads(keep)
  BY DEF ProcessStep
<1>2. procLen \in Nat /\ PromiseType
  BY DEF StateType, PromiseType
<1>3. CASE ReceiveLen(keep)
  <2>1. pending # <<>> /\ left >= 0 /\ left >= wanted /\ Handle("len", wanted, keep /\ wanted > 0)
        /\ procLen' = procLen + wanted
    BY <1>3 DEF ReceiveLen, InProcess
  <2>2. wanted \in Nat
    BY <2>1, WantedType
  <2>3. pending' \in Seq(ReceiveType) /\ cell' \in Nat /\ slices' \in Seq(SliceType)
    BY <2>1, <2>2, HandleType
  <2>4. procLen' \in Nat /\ procLen' <= offered
    BY <1>2, <2>1, <2>2, OfferedProps
  <2>5. PromiseType'
    BY <2>3, <2>4 DEF PromiseType, ReceiveType, SliceType
  <2> QED BY <1>3, <2>4, <2>5 DEF ReceiveLen, InProcess, where
<1>4. CASE ReceiveUntil(keep)
  <2>1. /\ pending # <<>> /\ left >= 0 /\ Matches(Text) # {} /\ Handle("until", memsearch(Text), keep)
        /\ procLen' = procLen + memsearch(Text) + Len(Delim)
    BY <1>4 DEF ReceiveUntil, InProcess
  <2>2. left \in Nat /\ Len(Text) = left /\ left = offered - procLen /\ offered \in Nat
    BY <2>1, OfferedProps
  <2>3. memsearch(Text) \in Nat /\ memsearch(Text) + Len(Delim) <= Len(Text)
    BY <2>1, <2>2, MemsearchProps
  <2>4. pending' \in Seq(ReceiveType) /\ cell' \in Nat /\ slices' \in Seq(SliceType)
    BY <2>1, <2>3, HandleType
  <2>5. procLen' \in Nat /\ procLen' <= offered
    <3> DEFINE m == memsearch(Text)
               l == Len(Delim)
    <3>1. m \in Nat /\ l \in Nat /\ m + l <= left /\ procLen' = procLen + m + l
      BY <2>1, <2>2, <2>3, DelimAssumption
    <3> HIDE DEF m, l
    <3> QED BY <1>2, <2>2, <3>1
  <2>6. PromiseType'
    BY <2>4, <2>5 DEF PromiseType, ReceiveType, SliceType
  <2> QED BY <1>4, <2>5, <2>6 DEF ReceiveUntil, InProcess, where
<1>5. CASE ReceiveUntilOverreads(keep)
  <2>1. /\ pending # <<>> /\ left >= 0 /\ phase = "Callback" /\ odd' = odd \cup {"overread"}
        /\ UNCHANGED <<conn, clock, todo, short, kernel, fixed, seen, cause>>
    BY <1>5 DEF ReceiveUntilOverreads, InProcess
  <2>2. CASE phase' = "Crashed" /\ UNCHANGED promise
    BY <1>2, <2>1, <2>2 DEF promise, PromiseType
  <2>3. CASE phase' = phase /\ Handle("until", left, keep) /\ procLen' = offered + 1
    <3>1. left \in Nat /\ offered \in Nat
      BY <2>1, OfferedProps
    <3>2. pending' \in Seq(ReceiveType) /\ cell' \in Nat /\ slices' \in Seq(SliceType)
      BY <2>1, <2>3, <3>1, HandleType
    <3>3. PromiseType'
      BY <2>3, <3>1, <3>2 DEF PromiseType, ReceiveType, SliceType
    <3> QED BY <2>1, <2>3, <3>3
  <2> QED BY <1>5, <2>2, <2>3 DEF ReceiveUntilOverreads
<1> QED BY <1>1, <1>3, <1>4, <1>5

(***************************************************************************)
(* Types.                                                                  *)
(***************************************************************************)

\* The fields of a socket after it was closed.
LEMMA CloseProps ==
    ASSUME NEW d \in SocketType
    PROVE  /\ Close(d) \in SocketType /\ Close(d).mSocket = FALSE /\ Close(d).postClose = TRUE
           /\ Close(d).mRecvData = d.mRecvData /\ Close(d).mCheckTime = d.mCheckTime
           /\ Close(d).mTimer = d.mTimer
  BY DEF Close, SocketType

\* CloseFor closes an open socket and notes who did, and does nothing else.
LEMMA CloseForProps ==
    ASSUME ds \in SocketType, NEW who, CloseFor(who)
    PROVE  /\ ds' \in SocketType /\ ds'.mSocket = FALSE
           /\ ds'.mRecvData = ds.mRecvData /\ ds'.mCheckTime = ds.mCheckTime /\ ds'.mTimer = ds.mTimer
           /\ ds.mSocket => cause' = who
           /\ ~ds.mSocket => ds' = ds /\ cause' = cause
<1>1. CASE ds.mSocket
  <2>1. ds' = Close(ds) /\ cause' = who
    BY <1>1 DEF CloseFor
  <2> QED BY <1>1, <2>1, CloseProps
<1>2. CASE ~ds.mSocket
  <2>1. ds' = ds /\ cause' = cause
    BY <1>2 DEF CloseFor
  <2>2. ds.mSocket = FALSE
    BY <1>2 DEF SocketType
  <2> QED BY <1>2, <2>1, <2>2
<1> QED BY <1>1, <1>2

\* setHeartBeat.
LEMMA SetHeartBeatProps ==
    ASSUME ds \in SocketType, timers \in SUBSET TimerType, IsFiniteSet(timers),
           NEW period \in Nat, SetHeartBeat(period)
    PROVE  /\ ds' \in SocketType /\ timers' \in SUBSET TimerType /\ IsFiniteSet(timers')
           /\ ds'.mSocket = ds.mSocket /\ ds'.mRecvData = ds.mRecvData /\ ds'.mCheckTime = period
           /\ \A t \in timers' : t.mActive =>
                 \/ t \in timers /\ (ds.mTimer # 0 => t.id # ds.mTimer)
                 \/ t.id = ds'.mTimer /\ ds'.mTimer # 0 /\ t.left = period
                       /\ t = Timer(ds'.mTimer, period)
<1> DEFINE old == IF ds.mTimer # 0 THEN cancel(timers, ds.mTimer) ELSE timers
           d   == [ds EXCEPT !.mCheckTime = period, !.mTimer = 0]
<1>1. /\ old \in SUBSET TimerType /\ IsFiniteSet(old)
      /\ \A t \in old : t.mActive => t \in timers /\ (ds.mTimer # 0 => t.id # ds.mTimer)
  BY CancelProps
<1>2. d \in SocketType /\ d.mSocket = ds.mSocket /\ d.mRecvData = ds.mRecvData /\ d.mCheckTime = period
  BY DEF SocketType
<1>3. CASE period # 0
  <2> DEFINE i == FreshTimer(old)
             e == [d EXCEPT !.mTimer = i]
  <2>1. ds' = e /\ timers' = addTimer(old, i, period)
    BY <1>3 DEF SetHeartBeat
  <2> HIDE DEF old, d
  <2>2. i \in Nat \ {0}
    BY <1>1, FreshTimerProps
  <2> HIDE DEF i
  <2>3. /\ e \in SocketType /\ e.mSocket = d.mSocket /\ e.mRecvData = d.mRecvData
        /\ e.mCheckTime = d.mCheckTime /\ e.mTimer = i
    BY <1>2, <2>2 DEF SocketType
  <2> HIDE DEF e
  <2>4. timers' \in SUBSET TimerType /\ IsFiniteSet(timers')
    BY <1>1, <2>1, <2>2, HeapProps
  <2>5. ASSUME NEW t \in timers', t.mActive
        PROVE  \/ t \in timers /\ (ds.mTimer # 0 => t.id # ds.mTimer)
               \/ t.id = i /\ t.left = period /\ t = Timer(i, period)
    <3>1. t \in old \/ t = Timer(i, period)
      BY <2>1 DEF addTimer
    <3>2. Timer(i, period).id = i /\ Timer(i, period).left = period
      BY DEF Timer
    <3> QED BY <1>1, <2>5, <3>1, <3>2
  <2> QED BY <1>2, <2>1, <2>2, <2>3, <2>4, <2>5
<1>4. CASE period = 0
  <2>1. ds' = d /\ timers' = old
    BY <1>4 DEF SetHeartBeat
  <2> HIDE DEF old, d
  <2> QED BY <1>1, <1>2, <2>1
<1> QED BY <1>3, <1>4

\* PingCheck: what becomes of the socket and of its timer.
LEMMA PingCheckProps ==
    ASSUME ds \in SocketType, timers \in SUBSET TimerType, IsFiniteSet(timers),
           NEW t \in timers, PingCheck(t)
    PROVE  /\ ds' \in SocketType /\ timers' \in SUBSET TimerType /\ IsFiniteSet(timers')
           /\ odd \subseteq odd' /\ odd' \subseteq odd \cup {"notRearmed"}
           /\ ds'.mSocket => ds.mSocket /\ cause' = cause
           /\ cause' # cause => ds.mSocket /\ ~ds.mRecvData /\ cause' = "heartbeat"
           /\ t.id = ds.mTimer => timers' = pop(timers, t)
<1> DEFINE rest   == pop(timers, t)
           starts == ~Alive(rest, t.id, ds.mTimer) /\ ds.mCheckTime # 0
<1>1. rest \in SUBSET TimerType /\ IsFiniteSet(rest)
  BY HeapProps
<1>2. FreshTimer(rest) \in Nat \ {0}
  BY <1>1, FreshTimerProps
<1>3. t.id = ds.mTimer => ~starts
  BY DEF Alive
<1>4. ds.mCheckTime \in Nat
  BY DEF SocketType
<1>5. CASE ds.mRecvData
  <2>1. /\ ds' = [ds EXCEPT !.mRecvData = FALSE, !.mTimer = IF starts THEN FreshTimer(rest) ELSE 0]
        /\ timers' = IF starts THEN addTimer(rest, FreshTimer(rest), ds.mCheckTime) ELSE rest
        /\ odd' = IF starts THEN odd ELSE odd \cup {"notRearmed"}
        /\ cause' = cause
    BY <1>5 DEF PingCheck
  <2> HIDE DEF rest, starts
  <2> DEFINE j == IF starts THEN FreshTimer(rest) ELSE 0
  <2>2. j \in Nat /\ ds' = [ds EXCEPT !.mRecvData = FALSE, !.mTimer = j]
    BY <1>2, <2>1
  <2> HIDE DEF j
  <2>3. ds' \in SocketType /\ ds'.mSocket = ds.mSocket
    BY <2>2 DEF SocketType
  <2>4. timers' \in SUBSET TimerType /\ IsFiniteSet(timers')
    <3>1. CASE starts
      BY <1>1, <1>2, <1>4, <2>1, <3>1, HeapProps
    <3>2. CASE ~starts
      BY <1>1, <2>1, <3>2
    <3> QED BY <3>1, <3>2
  <2>5. t.id = ds.mTimer => timers' = rest
    BY <1>3, <2>1
  <2>6. odd \subseteq odd' /\ odd' \subseteq odd \cup {"notRearmed"}
    BY <2>1
  <2> QED BY <2>1, <2>3, <2>4, <2>5, <2>6 DEF rest
<1>6. CASE ~ds.mRecvData
  <2> DEFINE e == IF ds.mSocket THEN Close(ds) ELSE ds
  <2>1. /\ timers' = rest /\ odd' = odd /\ ds' = [e EXCEPT !.mTimer = 0]
        /\ cause' = IF ds.mSocket THEN "heartbeat" ELSE cause
    BY <1>6 DEF PingCheck
  <2>2. e \in SocketType /\ e.mSocket = FALSE
    <3>1. CASE ds.mSocket
      BY <3>1, CloseProps
    <3>2. CASE ~ds.mSocket
      BY <3>2 DEF SocketType
    <3> QED BY <3>1, <3>2
  <2> HIDE DEF e, rest
  <2>3. ds' \in SocketType /\ ds'.mSocket = FALSE
    BY <2>1, <2>2 DEF SocketType
  <2> QED BY <1>1, <1>6, <2>1, <2>3 DEF rest
<1> QED BY <1>5, <1>6

\* The calls of Consume: proclen is a number, and nothing else changes.
ConsumeStep(p) ==
    /\ phase = "Callback" /\ Consume(p)
    /\ UNCHANGED <<ds, deleted, clock, todo, short, promise, kernel, fixed, calls, cause>>

\* The callback returns, in one of the three ways.
LEMMA ReturnsConsume ==
    ASSUME StateType,
           NoCallback \/ (\E n \in 0..ox_buffer_getreadvalidcount(rb) : UserCallback(n)) \/ ProcessReturns
    PROVE  \E p \in Nat : ConsumeStep(p)
<1>1. procLen \in Nat
  BY DEF StateType, PromiseType
<1>2. CASE NoCallback
  BY <1>2 DEF NoCallback, ConsumeStep
<1>3. CASE \E n \in 0..ox_buffer_getreadvalidcount(rb) : UserCallback(n)
  BY <1>3 DEF UserCallback, ConsumeStep
<1>4. CASE ProcessReturns
  BY <1>1, <1>4 DEF ProcessReturns, ConsumeStep
<1> QED BY <1>2, <1>3, <1>4

\* The buffer and what the callback has seen are well-formed after it returns.
LEMMA ConsumeType ==
    ASSUME StateType, StreamInv, NEW p \in Nat, ConsumeStep(p)
    PROVE  rb' \in BufferType /\ seen' \in Seq(Nat) /\ phase' \in {"Events", "Recv"}
<1>1. Consume(p) /\ rb \in BufferType /\ seen \in Seq(Nat)
  BY DEF ConsumeStep, StateType, ConnType
<1>2. CASE p <= rb.write_pos - rb.read_pos
  BY <1>1, <1>2, ConsumeProps
<1>3. CASE p > rb.write_pos - rb.read_pos
  BY <1>1, <1>3, OverrunProps
<1>4. rb.write_pos \in Nat /\ rb.read_pos \in Nat
  BY <1>1, BufferFields
<1> QED BY <1>2, <1>3, <1>4

\* Every step keeps the types.
LEMMA TypeStep == StateType /\ StreamInv /\ [Next]_vars => StateType'
<1> SUFFICES ASSUME StateType, StreamInv, [Next]_vars PROVE StateType'
  OBVIOUS
<1> USE DEF conn, clock, where, promise, kernel, fixed
<1>1. /\ rb \in BufferType /\ ds \in SocketType /\ deleted \in BOOLEAN
      /\ timers \in SUBSET TimerType /\ IsFiniteSet(timers) /\ quiet \in Nat
      /\ phase \in Phases /\ short \in BOOLEAN /\ seen \in Seq(Nat)
      /\ sent \in Nat /\ taken \in Nat /\ taken <= sent
      /\ pending \in Seq(ReceiveType) /\ cell \in Nat /\ procLen \in Nat /\ slices \in Seq(SliceType)
  BY DEF StateType, ConnType, ClockType, WhereType, KernelType, PromiseType, ReceiveType, SliceType
<1> USE DEF StateType, ConnType, ClockType, WhereType, KernelType, PromiseType, ReceiveType, SliceType
<1>2. CASE EpollWait
  BY <1>1, <1>2 DEF EpollWait, Phases
<1>3. CASE Dispatch
  <2>1. CASE phase' = "Recv" /\ UNCHANGED <<ds, cause>>
    BY <1>1, <1>3, <2>1 DEF Dispatch, Phases
  <2>2. CASE phase' = "Events" /\ CloseFor("peer")
    <3>1. ds' \in SocketType
      BY <1>1, <2>2, CloseForProps
    <3> QED BY <1>1, <1>3, <2>2, <3>1 DEF Dispatch, Phases
  <2> QED BY <1>3, <2>1, <2>2 DEF Dispatch
<1>4. CASE EventsDone
  BY <1>1, <1>4 DEF EventsDone, Phases
<1>5. CASE RecvBreaks
  <2>1. ds' \in SocketType
    <3>1. CloseFor("peer") \/ ds' = ds
      BY <1>5 DEF RecvBreaks
    <3> QED BY <1>1, <3>1, CloseForProps
  <2> QED BY <1>1, <1>5, <2>1 DEF RecvBreaks, Phases
<1>6. CASE RecvReads
  <2>1. rb' \in BufferType /\ taken' \in Nat /\ taken' <= sent /\ short' \in BOOLEAN
    BY <1>6, ReadProps
  <2>2. /\ ds' = [ds EXCEPT !.mRecvData = @ \/ callback # "none"] /\ quiet' \in {0, quiet}
        /\ procLen' = 0 /\ phase' = "Callback"
        /\ UNCHANGED <<deleted, timers, pending, cell, slices, sent, seen>>
    BY <1>6 DEF RecvReads
  <2>3. (ds.mRecvData \/ callback # "none") \in BOOLEAN
    BY <1>1 DEF SocketType
  <2>4. ds' \in SocketType
    BY <1>1, <2>2, <2>3 DEF SocketType
  <2> QED BY <1>1, <2>1, <2>2, <2>4 DEF Phases
<1>7. CASE NoCallback \/ (\E n \in 0..ox_buffer_getreadvalidcount(rb) : UserCallback(n)) \/ ProcessReturns
  <2>1. PICK p \in Nat : ConsumeStep(p)
    BY <1>7, ReturnsConsume
  <2>2. rb' \in BufferType /\ seen' \in Seq(Nat) /\ phase' \in {"Events", "Recv"}
    BY <2>1, ConsumeType
  <2> QED BY <1>1, <2>1, <2>2 DEF ConsumeStep, Phases
<1>8. CASE ProcessStep
  <2>1. PromiseType' /\ UNCHANGED <<conn, clock, short, kernel, seen>> /\ phase' \in {phase, "Crashed"}
    BY <1>8, ProcessType
  <2> QED BY <1>1, <2>1 DEF Phases
<1>9. CASE RunClose
  <2>1. ds' = [ds EXCEPT !.postClose = FALSE] /\ deleted' = TRUE /\ timers' = cancel(timers, ds.mTimer)
        /\ UNCHANGED <<rb, quiet, where, promise, kernel, seen>>
    BY <1>9 DEF RunClose
  <2>2. ds' \in SocketType
    BY <1>1, <2>1 DEF SocketType
  <2>3. timers' \in SUBSET TimerType /\ IsFiniteSet(timers')
    BY <1>1, <2>1, CancelProps
  <2> QED BY <1>1, <2>1, <2>2, <2>3
<1>10. CASE AfterDone
  BY <1>1, <1>10 DEF AfterDone, Phases
<1>11. ASSUME NEW t \in timers, RunTimer(t) PROVE StateType'
  <2>1. UNCHANGED <<rb, deleted, quiet, where, promise, kernel, seen>>
    BY <1>11 DEF RunTimer
  <2>2. (timers' = pop(timers, t) /\ ds' = ds) \/ PingCheck(t)
    BY <1>11 DEF RunTimer
  <2>3. ds' \in SocketType /\ timers' \in SUBSET TimerType /\ IsFiniteSet(timers')
    BY <1>1, <2>2, PingCheckProps, HeapProps
  <2> QED BY <1>1, <2>1, <2>3
<1>12. CASE ScheduleDone
  BY <1>1, <1>12 DEF ScheduleDone, Phases
<1>13. CASE PeerSends
  <2>1. PICK n \in (sent + 1)..MaxBytes : sent' = n
    BY <1>13 DEF PeerSends
  <2>2. sent' \in Nat /\ taken <= sent'
    BY <1>1, <2>1, SizesAssumption
  <2> QED BY <1>1, <1>13, <2>2 DEF PeerSends
<1>14. ASSUME NEW how \in {"fin", "reset"}, PeerCloses(how) PROVE StateType'
  BY <1>1, <1>14 DEF PeerCloses
<1>15. CASE Tick
  <2>1. /\ timers' = Elapse(timers) /\ quiet' = IF quiet < MaxPeriod THEN quiet + 1 ELSE quiet
        /\ UNCHANGED <<conn, where, promise, kernel, seen>>
    BY <1>15 DEF Tick
  <2>2. quiet' \in Nat
    BY <1>1, <2>1
  <2>3. timers' \in SUBSET TimerType /\ IsFiniteSet(timers')
    BY <1>1, <2>1, ElapseProps
  <2> QED BY <1>1, <2>1, <2>2, <2>3
<1>16. ASSUME NEW p \in Periods, CallSetHeartBeat(p) PROVE StateType'
  <2>1. /\ SetHeartBeat(p) /\ quiet' = 0 /\ p \in Nat
        /\ UNCHANGED <<rb, deleted, where, promise, kernel, seen>>
    BY <1>16, PeriodsAssumption DEF CallSetHeartBeat
  <2>2. ds' \in SocketType /\ timers' \in SUBSET TimerType /\ IsFiniteSet(timers')
    BY <1>1, <2>1, SetHeartBeatProps
  <2> QED BY <1>1, <2>1, <2>2
<1>17. CASE CallDisconnect
  <2>1. CloseFor("user") /\ UNCHANGED <<rb, deleted, clock, where, promise, kernel, seen>>
    BY <1>17 DEF CallDisconnect
  <2>2. ds' \in SocketType
    BY <1>1, <2>1, CloseForProps
  <2> QED BY <1>1, <2>1, <2>2
<1>18. CASE CallReceive
  <2>1. PICK r \in Asked : pending' = Append(pending, r)
                           /\ UNCHANGED <<conn, clock, where, cell, procLen, slices, kernel, seen>>
    BY <1>18 DEF CallReceive
  <2>2. r \in ReceiveType
    BY ScriptsAssumption DEF ReceiveType
  <2>3. pending' \in Seq(ReceiveType)
    BY <1>1, <2>1, <2>2, AppendProperties
  <2> QED BY <1>1, <2>1, <2>3
<1>19. CASE UNCHANGED vars
  BY <1>1, <1>19 DEF vars
<1> QED BY <1>2, <1>3, <1>4, <1>5, <1>6, <1>7, <1>8, <1>9, <1>10, <1>11, <1>12, <1>13, <1>14, <1>15,
           <1>16, <1>17, <1>18, <1>19 DEF Next, LoopStep, Environment

(***************************************************************************)
(* The stream, the edges and the close.                                    *)
(***************************************************************************)

\* Steps that leave the bytes where they are: handles, timers, calls.
Aside ==
    /\ UNCHANGED <<rb, seen, sent, taken, peer, edges, todo, short>>
    /\ phase' = phase \/ (phase = "Callback" /\ phase' = "Crashed")
    /\ odd \subseteq odd'
    /\ ds'.mSocket => ds.mSocket /\ cause' = cause
    /\ cause' # cause => cause' = "user" \/ (cause' = "heartbeat" /\ phase = "Schedule")

\* A step of the receiving side, or one beside it.
RecvStep ==
    \/ EpollWait \/ Dispatch \/ EventsDone \/ RecvBreaks \/ RecvReads
    \/ (\E p \in Nat : ConsumeStep(p))
    \/ AfterDone \/ ScheduleDone
    \/ PeerSends \/ (\E how \in {"fin", "reset"} : PeerCloses(how))
    \/ Aside

\* These are all the steps there are.
LEMMA StepsOfRecv ==
    ASSUME StateType, StreamInv, [Next]_vars
    PROVE  RecvStep
<1> USE DEF conn, clock, where, promise, kernel, fixed
<1>1. ds \in SocketType /\ timers \in SUBSET TimerType /\ IsFiniteSet(timers)
  BY DEF StateType, ConnType, ClockType
<1>2. CASE ProcessStep
  <2>1. /\ UNCHANGED <<conn, clock, todo, short, kernel, fixed, seen, cause>>
        /\ phase' \in {phase, "Crashed"} /\ phase = "Callback" /\ odd \subseteq odd'
    BY <1>2, ProcessType
  <2> QED BY <2>1 DEF Aside, RecvStep
<1>3. CASE RunClose
  <2>1. ds' = [ds EXCEPT !.postClose = FALSE]
        /\ UNCHANGED <<rb, quiet, where, promise, kernel, seen, cause, odd>>
    BY <1>3 DEF RunClose
  <2>2. ds'.mSocket = ds.mSocket
    BY <1>1, <2>1 DEF SocketType
  <2> QED BY <2>1, <2>2 DEF Aside, RecvStep
<1>4. ASSUME NEW t \in timers, RunTimer(t) PROVE RecvStep
  <2>1. UNCHANGED <<rb, deleted, quiet, where, promise, kernel, seen>> /\ phase = "Schedule"
    BY <1>4 DEF RunTimer
  <2>2. CASE UNCHANGED <<ds, cause>> /\ odd \subseteq odd'
    BY <2>1, <2>2 DEF Aside, RecvStep
  <2>3. CASE PingCheck(t)
    <3>1. /\ odd \subseteq odd' /\ (ds'.mSocket => ds.mSocket /\ cause' = cause)
          /\ cause' # cause => cause' = "heartbeat"
      BY <1>1, <2>3, PingCheckProps
    <3> QED BY <2>1, <3>1 DEF Aside, RecvStep
  <2> QED BY <1>4, <2>2, <2>3 DEF RunTimer
<1>5. CASE Tick
  BY <1>5 DEF Tick, Aside, RecvStep
<1>6. ASSUME NEW p \in Periods, CallSetHeartBeat(p) PROVE RecvStep
  <2>1. SetHeartBeat(p) /\ p \in Nat /\ UNCHANGED <<rb, deleted, where, promise, kernel, seen, cause, odd>>
    BY <1>6, PeriodsAssumption DEF CallSetHeartBeat
  <2>2. ds'.mSocket = ds.mSocket
    BY <1>1, <2>1, SetHeartBeatProps
  <2> QED BY <2>1, <2>2 DEF Aside, RecvStep
<1>7. CASE CallDisconnect
  <2>1. CloseFor("user") /\ ds.mSocket /\ UNCHANGED <<rb, deleted, clock, where, promise, kernel, seen, odd>>
    BY <1>7 DEF CallDisconnect
  <2>2. ds'.mSocket = FALSE /\ cause' = "user"
    BY <1>1, <2>1, CloseForProps
  <2> QED BY <2>1, <2>2 DEF Aside, RecvStep
<1>8. CASE CallReceive
  BY <1>8 DEF CallReceive, Aside, RecvStep
<1>9. CASE UNCHANGED vars
  BY <1>9 DEF vars, Aside, RecvStep
<1>10. CASE NoCallback \/ (\E n \in 0..ox_buffer_getreadvalidcount(rb) : UserCallback(n)) \/ ProcessReturns
  BY <1>10, ReturnsConsume DEF RecvStep
<1>11. CASE \/ EpollWait \/ Dispatch \/ EventsDone \/ RecvBreaks \/ RecvReads \/ AfterDone \/ ScheduleDone
            \/ PeerSends \/ (\E how \in {"fin", "reset"} : PeerCloses(how))
  BY <1>11 DEF RecvStep
<1> QED BY <1>2, <1>3, <1>4, <1>5, <1>6, <1>7, <1>8, <1>9, <1>10, <1>11 DEF Next, LoopStep, Environment

\* Reading and consuming are the only steps that touch the stream.
LEMMA StreamStep ==
    ASSUME StateType, StreamInv, RecvStep
    PROVE  StreamInv'
<1> USE DEF conn, clock, where, promise, kernel, fixed
<1>1. CASE UNCHANGED <<rb, seen, taken>>
  BY <1>1 DEF StreamInv
<1>2. CASE RecvReads
  <2>1. seen' = seen
    BY <1>2 DEF RecvReads
  <2>2. /\ Holds(rb', Len(seen)) /\ SizeOK(rb')
        /\ Len(seen) + (rb'.write_pos - rb'.read_pos) = taken'
    BY <1>2, ReadProps
  <2>3. \A i \in 1..Len(seen) : seen[i] = i
    BY DEF StreamInv
  <2>4. /\ Holds(rb', Len(seen')) /\ SizeOK(rb')
        /\ Len(seen') + (rb'.write_pos - rb'.read_pos) = taken'
        /\ \A i \in 1..Len(seen') : seen'[i] = i
    BY <2>1, <2>2, <2>3
  <2> QED BY <2>4 DEF StreamInv, Holds, SizeOK
<1>3. ASSUME NEW p \in Nat, ConsumeStep(p) PROVE StreamInv'
  <2>1. Consume(p) /\ taken' = taken
    BY <1>3 DEF ConsumeStep
  <2>2. CASE p <= rb.write_pos - rb.read_pos
    <3>1. /\ Holds(rb', Len(seen')) /\ SizeOK(rb')
          /\ Len(seen') + (rb'.write_pos - rb'.read_pos) = taken'
          /\ \A i \in 1..Len(seen') : seen'[i] = i
      BY <2>1, <2>2, ConsumeProps
    <3> QED BY <3>1 DEF StreamInv, Holds, SizeOK
  <2>3. CASE p > rb.write_pos - rb.read_pos
    <3>1. UNCHANGED <<rb, seen>>
      BY <2>1, <2>3, OverrunProps
    <3> QED BY <1>1, <2>1, <3>1
  <2>4. rb.write_pos \in Nat /\ rb.read_pos \in Nat
    BY BufferFields DEF StateType, ConnType
  <2> QED BY <2>2, <2>3, <2>4
<1>4. CASE \/ EpollWait \/ Dispatch \/ EventsDone \/ RecvBreaks \/ AfterDone \/ ScheduleDone
           \/ PeerSends \/ (\E how \in {"fin", "reset"} : PeerCloses(how)) \/ Aside
  <2>1. UNCHANGED <<rb, seen, taken>>
    BY <1>4 DEF EpollWait, Dispatch, EventsDone, RecvBreaks, AfterDone, ScheduleDone, PeerSends,
                PeerCloses, Aside
  <2> QED BY <1>1, <2>1
<1> QED BY <1>2, <1>3, <1>4 DEF RecvStep

\* A buffer that has no room after a round of recv is full for good.
LEMMA RoomStep ==
    ASSUME StateType, StreamInv, RoomInv, RecvStep
    PROVE  RoomInv'
<1> USE DEF conn, clock, where, promise, kernel, fixed
<1>1. CASE /\ rb' = rb /\ odd \subseteq odd'
           /\ phase' \notin {"Callback", "Crashed"} => phase \notin {"Callback", "Crashed"}
  BY <1>1 DEF RoomInv, Filled
<1>2. CASE RecvReads
  <2>1. rb'.write_pos - rb'.read_pos = Len(rb'.data) => Filled(rb')
    BY <1>2, ReadProps
  <2>2. phase' = "Callback"
    BY <1>2 DEF RecvReads
  <2> QED BY <2>1, <2>2 DEF RoomInv, Filled
<1>3. ASSUME NEW p \in Nat, ConsumeStep(p) PROVE RoomInv'
  <2>1. Consume(p)
    BY <1>3 DEF ConsumeStep
  <2>2. CASE p <= rb.write_pos - rb.read_pos
    <3>1. /\ rb' \in BufferType /\ Holds(rb', Len(seen')) /\ Len(rb'.data) = Len(rb.data)
          /\ rb'.write_pos = Len(rb'.data) =>
                 rb'.read_pos = 0 /\ rb.write_pos - rb.read_pos = Len(rb.data)
          /\ odd' = odd
      BY <2>1, <2>2, ConsumeProps
    <3>2. ASSUME "overrun" \notin odd', rb'.write_pos = Len(rb'.data) PROVE Filled(rb')
      <4>1. Filled(rb)
        BY <3>1, <3>2 DEF RoomInv
      <4> QED BY <3>1, <3>2, <4>1 DEF Filled
    <3>3. rb'.write_pos - rb'.read_pos = Len(rb'.data) => rb'.write_pos = Len(rb'.data)
      <4>1. /\ rb'.write_pos \in Nat /\ rb'.read_pos \in Nat /\ Len(rb'.data) \in Nat
            /\ rb'.write_pos <= Len(rb'.data)
        BY <3>1, BufferFields DEF Holds
      <4> QED BY <4>1
    <3> QED BY <3>2, <3>3 DEF RoomInv, Filled
  <2>3. CASE p > rb.write_pos - rb.read_pos
    <3>1. "overrun" \in odd'
      BY <2>1, <2>3, OverrunProps
    <3> QED BY <3>1 DEF RoomInv
  <2>4. rb.write_pos \in Nat /\ rb.read_pos \in Nat
    BY BufferFields DEF StateType, ConnType
  <2> QED BY <2>2, <2>3, <2>4
<1>4. CASE \/ EpollWait \/ Dispatch \/ EventsDone \/ RecvBreaks \/ AfterDone \/ ScheduleDone
           \/ PeerSends \/ (\E how \in {"fin", "reset"} : PeerCloses(how))
  BY <1>1, <1>4 DEF EpollWait, Dispatch, EventsDone, RecvBreaks, AfterDone, ScheduleDone, PeerSends, PeerCloses
<1>5. CASE Aside
  BY <1>1, <1>5 DEF Aside
<1> QED BY <1>2, <1>3, <1>4, <1>5 DEF RecvStep

\* The callbacks of an event, one after the other.
LEMMA TodoFacts ==
    /\ Head(<<"canRecv">>) = "canRecv" /\ Tail(<<"canRecv">>) = <<>>
    /\ Head(<<"canRecv", "onClose">>) = "canRecv" /\ Tail(<<"canRecv", "onClose">>) = <<"onClose">>
    /\ Head(<<"onClose">>) = "onClose" /\ Tail(<<"onClose">>) = <<>>
    /\ <<"canRecv">> # <<>> /\ <<"onClose">> # <<>> /\ <<"canRecv", "onClose">> # <<>>
    /\ <<"canRecv">> # <<"onClose">> /\ <<"canRecv", "onClose">> # <<"onClose">>
    /\ <<"canRecv">> # <<"canRecv", "onClose">>
<1>1. <<"canRecv">>[1] = "canRecv" /\ <<"onClose">>[1] = "onClose" /\ <<"canRecv", "onClose">>[1] = "canRecv"
  OBVIOUS
<1>2. Len(<<"canRecv">>) = 1 /\ Len(<<"onClose">>) = 1 /\ Len(<<"canRecv", "onClose">>) = 2
  OBVIOUS
<1> QED BY <1>1, <1>2

\* recv leaves its loop: only with an empty socket, a full buffer, or a close.
LEMMA BreakProps ==
    ASSUME StateType, StreamInv, RoomInv, RecvBreaks
    PROVE  /\ phase = "Recv" /\ phase' = "Events"
           /\ UNCHANGED <<rb, todo, sent, taken, edges, peer, seen, odd>>
           /\ UNCHANGED cause \/ (cause' = "peer" /\ ~ds'.mSocket)
           /\ ds'.mSocket => ds.mSocket /\ cause' = cause
           /\ ds'.mSocket /\ "overrun" \notin odd => Filled(rb) \/ (taken = sent /\ peer = "open")
           /\ cause' # cause /\ peer = "fin" => taken = sent
<1> USE DEF conn, clock, where, promise, kernel, fixed
<1>1. /\ phase = "Recv" /\ phase' = "Events"
      /\ UNCHANGED <<rb, todo, sent, taken, edges, peer, seen, odd>>
      /\ ~ds.mSocket \/ tryRecvLen = 0 \/ taken = sent \/ peer = "reset"
  BY DEF RecvBreaks
<1>2. ds \in SocketType /\ rb.write_pos \in Nat /\ Len(rb.data) \in Nat /\ rb.write_pos <= Len(rb.data)
  BY BufferFields DEF StateType, ConnType, StreamInv, Holds
<1>3. tryRecvLen = Len(rb.data) - rb.write_pos
  BY DEF tryRecvLen, ox_buffer_getwritevalidcount, ox_buffer_getsize
<1>4. tryRecvLen = 0 \/ tryRecvLen > 0
  BY <1>2, <1>3
<1>5. tryRecvLen = 0 /\ "overrun" \notin odd => Filled(rb)
  BY <1>1, <1>2, <1>3 DEF RoomInv
<1>6. CASE ds.mSocket /\ tryRecvLen > 0 /\ peer # "open"
  <2>1. CloseFor("peer")
    BY <1>6 DEF RecvBreaks
  <2>2. ds'.mSocket = FALSE /\ cause' = "peer"
    BY <1>2, <1>6, <2>1, CloseForProps
  <2>3. tryRecvLen # 0
    BY <1>6
  <2> QED BY <1>1, <1>6, <2>2, <2>3
<1>7. CASE ~(ds.mSocket /\ tryRecvLen > 0 /\ peer # "open")
  <2>1. UNCHANGED <<ds, cause>>
    BY <1>7 DEF RecvBreaks
  <2> QED BY <1>1, <1>4, <1>5, <1>7, <2>1
<1> QED BY <1>6, <1>7

\* The order of the callbacks of an event.
LEMMA EventStep ==
    ASSUME StateType, StreamInv, RoomInv, EventInv, RecvStep
    PROVE  EventInv'
<1> USE DEF conn, clock, where, promise, kernel, fixed
<1>1. ds \in SocketType
  BY DEF StateType, ConnType
<1>2. CASE EpollWait
  <2>1. /\ phase' = "Events" /\ edges' = {} /\ UNCHANGED <<ds, peer, cause>>
        /\ todo' = IF ~ds.mSocket THEN <<>>
                   ELSE IF "RDHUP" \in edges THEN <<"canRecv", "onClose">>
                   ELSE IF "IN" \in edges THEN <<"canRecv">> ELSE <<>>
    BY <1>2 DEF EpollWait
  <2>2. todo' \in {<<>>, <<"canRecv">>} \/ (todo' = <<"canRecv", "onClose">> /\ "RDHUP" \in edges)
    BY <2>1
  <2> QED BY <2>1, <2>2, TodoFacts DEF EventInv
<1>3. CASE Dispatch
  <2>1. /\ phase = "Events" /\ todo # <<>> /\ todo' = Tail(todo)
        /\ UNCHANGED <<edges, peer>>
    BY <1>3 DEF Dispatch
  <2>2. CASE Head(todo) = "canRecv"
    <3>1. phase' = "Recv" /\ UNCHANGED <<ds, cause>>
      BY <1>3, <2>2 DEF Dispatch
    <3> QED BY <2>1, <2>2, <3>1, TodoFacts DEF EventInv
  <2>3. CASE Head(todo) # "canRecv"
    <3>1. phase' = "Events" /\ CloseFor("peer")
      BY <1>3, <2>3 DEF Dispatch
    <3>2. ds'.mSocket = FALSE
      BY <1>1, <3>1, CloseForProps
    <3> QED BY <2>1, <2>3, <3>1, <3>2, TodoFacts DEF EventInv
  <2> QED BY <2>2, <2>3
<1>4. CASE EventsDone
  BY <1>4 DEF EventsDone, EventInv
<1>5. CASE RecvBreaks
  <2>1. /\ phase' = "Events" /\ UNCHANGED <<todo, edges, peer>>
        /\ ds'.mSocket => ds.mSocket /\ cause' = cause
    BY <1>5, BreakProps
  <2> QED BY <2>1 DEF EventInv
<1>6. CASE RecvReads
  <2>1. /\ phase = "Recv" /\ phase' = "Callback" /\ ds.mSocket /\ UNCHANGED <<todo, edges, peer, cause>>
    BY <1>6 DEF RecvReads
  <2> QED BY <2>1 DEF EventInv
<1>7. ASSUME NEW p \in Nat, ConsumeStep(p) PROVE EventInv'
  <2>1. phase = "Callback" /\ UNCHANGED <<ds, todo, edges, peer, cause>>
    BY <1>7 DEF ConsumeStep
  <2>2. phase' \in {"Events", "Recv"}
    BY <1>7, ConsumeType
  <2> QED BY <2>1, <2>2 DEF EventInv
<1>8. CASE AfterDone
  BY <1>8 DEF AfterDone, EventInv
<1>9. CASE ScheduleDone
  BY <1>9 DEF ScheduleDone, EventInv
<1>10. CASE PeerSends
  <2>1. edges' = edges \cup {"IN"} /\ peer = "open" /\ UNCHANGED <<ds, phase, todo, peer, cause>>
    BY <1>10 DEF PeerSends
  <2> QED BY <2>1 DEF EventInv
<1>11. ASSUME NEW how \in {"fin", "reset"}, PeerCloses(how) PROVE EventInv'
  <2>1. edges' = edges \cup {"IN", "RDHUP"} /\ peer' # "open" /\ UNCHANGED <<ds, phase, todo, cause>>
    BY <1>11 DEF PeerCloses
  <2> QED BY <2>1 DEF EventInv
<1>12. CASE Aside
  BY <1>12 DEF Aside, EventInv
<1> QED BY <1>2, <1>3, <1>4, <1>5, <1>6, <1>7, <1>8, <1>9, <1>10, <1>11, <1>12 DEF RecvStep

\* Unread bytes are not forgotten, and are read before the close.
LEMMA StallStep ==
    ASSUME StateType, StreamInv, RoomInv, EventInv, StallInv, LastInv, ReadBeforeClose, RecvStep
    PROVE  StallInv' /\ LastInv' /\ ReadBeforeClose'
<1> USE DEF conn, clock, where, promise, kernel, fixed
<1>1. ds \in SocketType /\ taken \in Nat /\ sent \in Nat /\ taken <= sent
  BY DEF StateType, ConnType, KernelType
<1>0. ASSUME Filled(rb) PROVE ox_buffer_getwritevalidcount(rb) = 0
  <2>1. rb.write_pos \in Nat /\ rb.write_pos = Len(rb.data)
    BY <1>0, BufferFields DEF StateType, ConnType, Filled
  <2> QED BY <2>1 DEF ox_buffer_getwritevalidcount, ox_buffer_getsize
<1>2. CASE EpollWait
  <2>1. /\ phase = "Wait" /\ phase' = "Events" /\ edges' = {}
        /\ UNCHANGED <<rb, ds, sent, taken, peer, cause, odd>>
        /\ todo' = IF ~ds.mSocket THEN <<>>
                   ELSE IF "RDHUP" \in edges THEN <<"canRecv", "onClose">>
                   ELSE IF "IN" \in edges THEN <<"canRecv">> ELSE <<>>
    BY <1>2 DEF EpollWait
  <2>2. todo' # <<"onClose">>
    BY <2>1, TodoFacts
  <2>3. ds.mSocket /\ "IN" \in edges => todo' # <<>> /\ Head(todo') = "canRecv"
    BY <2>1, TodoFacts
  <2>4. todo = <<>>
    BY <2>1 DEF EventInv
  <2>5. StallInv'
    BY <2>1, <2>3, <2>4 DEF StallInv, Filled
  <2>6. LastInv'
    BY <2>2 DEF LastInv
  <2>7. ReadBeforeClose'
    BY <2>1 DEF ReadBeforeClose, ox_buffer_getwritevalidcount, ox_buffer_getsize
  <2> QED BY <2>5, <2>6, <2>7
<1>3. CASE Dispatch
  <2>1. /\ phase = "Events" /\ todo # <<>> /\ todo' = Tail(todo)
        /\ UNCHANGED <<rb, sent, taken, edges, peer, odd>>
    BY <1>3 DEF Dispatch
  <2>2. CASE Head(todo) = "canRecv"
    <3>1. phase' = "Recv" /\ UNCHANGED <<ds, cause>>
      BY <1>3, <2>2 DEF Dispatch
    <3>2. ReadBeforeClose'
      BY <2>1, <3>1 DEF ReadBeforeClose, ox_buffer_getwritevalidcount, ox_buffer_getsize
    <3> QED BY <3>1, <3>2 DEF StallInv, LastInv
  <2>3. CASE Head(todo) # "canRecv"
    <3>1. phase' = "Events" /\ CloseFor("peer")
      BY <1>3, <2>3 DEF Dispatch
    <3>2. ds'.mSocket = FALSE /\ (~ds.mSocket => cause' = cause)
      BY <1>1, <3>1, CloseForProps
    <3>3. todo = <<"onClose">>
      BY <2>1, <2>3, TodoFacts DEF EventInv
    <3>4. ASSUME peer = "fin", "overrun" \notin odd, ds.mSocket
          PROVE  taken = sent \/ ox_buffer_getwritevalidcount(rb) = 0
      BY <1>0, <2>1, <3>3, <3>4 DEF LastInv
    <3>5. ReadBeforeClose'
      <4>1. CASE ds.mSocket
        BY <2>1, <3>4, <4>1 DEF ReadBeforeClose, ox_buffer_getwritevalidcount, ox_buffer_getsize
      <4>2. CASE ~ds.mSocket
        BY <2>1, <3>2, <4>2 DEF ReadBeforeClose, ox_buffer_getwritevalidcount, ox_buffer_getsize
      <4> QED BY <4>1, <4>2
    <3> QED BY <3>1, <3>2, <3>5 DEF StallInv, LastInv
  <2> QED BY <2>2, <2>3
<1>4. CASE EventsDone
  <2>1. /\ phase = "Events" /\ phase' = "After" /\ UNCHANGED <<rb, ds, todo, sent, taken, edges, peer, cause, odd>>
    BY <1>4 DEF EventsDone
  <2> QED BY <2>1 DEF StallInv, LastInv, ReadBeforeClose, Filled, ox_buffer_getwritevalidcount, ox_buffer_getsize
<1>5. CASE RecvBreaks
  <2>1. /\ phase = "Recv" /\ phase' = "Events"
        /\ UNCHANGED <<rb, todo, sent, taken, edges, peer, seen, odd>>
        /\ ds'.mSocket => ds.mSocket /\ cause' = cause
        /\ ds'.mSocket /\ "overrun" \notin odd => Filled(rb) \/ (taken = sent /\ peer = "open")
        /\ cause' # cause /\ peer = "fin" => taken = sent
    BY <1>5, BreakProps
  <2>2. StallInv'
    BY <1>1, <2>1 DEF StallInv, Filled
  <2>3. LastInv'
    BY <2>1 DEF LastInv, Filled
  <2>4. ReadBeforeClose'
    BY <2>1 DEF ReadBeforeClose, ox_buffer_getwritevalidcount, ox_buffer_getsize
  <2> QED BY <2>2, <2>3, <2>4
<1>6. CASE RecvReads
  <2>1. phase' = "Callback" /\ ds.mSocket /\ cause' = cause /\ sent' = sent
    BY <1>6 DEF RecvReads
  <2>2. short' => taken' = sent
    BY <1>6, ReadProps
  <2>3. cause' # "peer"
    BY <2>1 DEF EventInv
  <2>4. StallInv'
    BY <1>1, <2>1, <2>2 DEF StallInv
  <2> QED BY <2>1, <2>3, <2>4 DEF LastInv, ReadBeforeClose
<1>7. ASSUME NEW p \in Nat, ConsumeStep(p) PROVE StallInv' /\ LastInv' /\ ReadBeforeClose'
  <2>1. phase = "Callback" /\ Consume(p) /\ UNCHANGED <<ds, todo, short, sent, taken, edges, peer, cause>>
    BY <1>7 DEF ConsumeStep
  <2>2. cause' # "peer"
    BY <2>1 DEF EventInv
  <2>3. CASE p <= rb.write_pos - rb.read_pos
    <3>1. phase' = (IF short THEN "Events" ELSE "Recv") /\ odd' = odd
      BY <2>1, <2>3, ConsumeProps
    <3>2. CASE short
      <4>1. phase' = "Events" /\ (taken < sent => "IN" \in edges /\ todo = <<>>)
        BY <2>1, <3>1, <3>2 DEF StallInv
      <4>2. StallInv'
        BY <2>1, <4>1 DEF StallInv
      <4>3. LastInv'
        BY <1>1, <2>1, <4>1, TodoFacts DEF LastInv
      <4> QED BY <2>2, <4>2, <4>3 DEF ReadBeforeClose
    <3>3. CASE ~short
      BY <2>2, <3>1, <3>3 DEF StallInv, LastInv, ReadBeforeClose
    <3> QED BY <3>2, <3>3
  <2>4. CASE p > rb.write_pos - rb.read_pos
    <3>1. "overrun" \in odd' /\ phase' = "Events"
      BY <2>1, <2>4, OverrunProps
    <3> QED BY <3>1 DEF StallInv, LastInv, ReadBeforeClose
  <2>5. rb.write_pos \in Nat /\ rb.read_pos \in Nat
    BY BufferFields DEF StateType, ConnType
  <2> QED BY <2>3, <2>4, <2>5
<1>8. CASE AfterDone \/ ScheduleDone
  <2>1. /\ phase \in {"After", "Schedule"} /\ phase' \in {"Schedule", "Wait"}
        /\ UNCHANGED <<rb, ds, todo, sent, taken, edges, peer, cause, odd>>
    BY <1>8 DEF AfterDone, ScheduleDone
  <2> QED BY <2>1 DEF StallInv, LastInv, ReadBeforeClose, Filled, ox_buffer_getwritevalidcount, ox_buffer_getsize
<1>9. CASE PeerSends
  <2>1. /\ ds.mSocket /\ peer = "open" /\ edges' = edges \cup {"IN"}
        /\ UNCHANGED <<rb, ds, phase, todo, short, taken, peer, cause, odd>>
    BY <1>9 DEF PeerSends
  <2>2. phase = "Callback" => todo = <<>>
    BY <2>1 DEF EventInv
  <2> QED BY <2>1, <2>2 DEF StallInv, LastInv, ReadBeforeClose
<1>10. ASSUME NEW how \in {"fin", "reset"}, PeerCloses(how) PROVE StallInv' /\ LastInv' /\ ReadBeforeClose'
  <2>1. /\ ds.mSocket /\ peer = "open" /\ edges' = edges \cup {"IN", "RDHUP"}
        /\ UNCHANGED <<rb, ds, phase, todo, short, sent, taken, cause, odd>>
    BY <1>10 DEF PeerCloses
  <2>2. cause' # "peer" /\ todo' # <<"onClose">>
    BY <2>1 DEF EventInv
  <2> QED BY <2>1, <2>2 DEF StallInv, LastInv, ReadBeforeClose
<1>11. CASE Aside
  <2>1. /\ UNCHANGED <<rb, sent, taken, peer, edges, todo, short>>
        /\ phase' = phase \/ (phase = "Callback" /\ phase' = "Crashed")
        /\ odd \subseteq odd' /\ (ds'.mSocket => ds.mSocket /\ cause' = cause)
        /\ cause' # cause => cause' # "peer"
    BY <1>11 DEF Aside
  <2>2. StallInv'
    BY <2>1 DEF StallInv, Filled
  <2>3. LastInv'
    BY <2>1 DEF LastInv, Filled
  <2>4. ReadBeforeClose'
    BY <2>1 DEF ReadBeforeClose, ox_buffer_getwritevalidcount, ox_buffer_getsize
  <2> QED BY <2>2, <2>3, <2>4
<1> QED BY <1>2, <1>3, <1>4, <1>5, <1>6, <1>7, <1>8, <1>9, <1>10, <1>11 DEF RecvStep

\* A new connection.
LEMMA InitBytes == Init => BytesInv
<1> SUFFICES ASSUME Init PROVE BytesInv
  OBVIOUS
<1> DEFINE z == [i \in 1..InitialSize |-> Junk]
<1>1. /\ rb = [data |-> z, write_pos |-> 0, read_pos |-> 0]
      /\ ds = [mSocket |-> TRUE, mRecvData |-> FALSE, mCheckTime |-> 0, mTimer |-> 0,
               postClose |-> FALSE]
      /\ deleted = FALSE /\ timers = {} /\ quiet = 0
      /\ phase = "Wait" /\ todo = <<>> /\ short = FALSE
      /\ cell = 0 /\ procLen = 0 /\ slices = <<>>
      /\ sent = 0 /\ taken = 0 /\ edges = {} /\ peer = "open"
      /\ seen = <<>> /\ cause = "none" /\ odd = {}
  BY DEF Init, ox_buffer_new
<1>2. z \in [1..InitialSize -> Nat] /\ InitialSize \in Nat \ {0}
  BY SizesAssumption DEF Junk
<1> HIDE DEF z
<1>3. z \in Seq(Nat) /\ Len(z) = InitialSize
  BY <1>2, SeqOfFun
<1>4. rb \in BufferType /\ rb.data = z /\ rb.write_pos = 0 /\ rb.read_pos = 0
  BY <1>1, <1>3 DEF BufferType
<1>5. Len(<<>>) = 0 /\ <<>> \in Seq(Nat) /\ <<>> \in Seq(SliceType) /\ <<>> \in Seq(ReceiveType)
  OBVIOUS
<1>6. pending \in Seq(ReceiveType)
  <2>1. pending \in Scripts \/ pending = <<>>
    BY DEF Init
  <2> QED BY <1>5, <2>1, ScriptsAssumption DEF ReceiveType
<1>7. StateType
  <2>1. ds \in SocketType
    BY <1>1 DEF SocketType
  <2>2. IsFiniteSet({})
    BY FS_EmptySet
  <2>3. ConnType
    BY <1>1, <1>4, <2>1 DEF ConnType
  <2>4. ClockType
    BY <1>1, <2>2 DEF ClockType
  <2>5. WhereType
    <3>1. phase = "Wait" /\ short = FALSE
      BY <1>1
    <3> QED BY <3>1 DEF WhereType, Phases
  <2>7. KernelType
    <3>1. sent = 0 /\ taken = 0
      BY <1>1
    <3> QED BY <3>1 DEF KernelType
  <2>6. PromiseType
    BY <1>1, <1>5, <1>6 DEF PromiseType, ReceiveType, SliceType
  <2> QED BY <1>1, <1>5, <2>3, <2>4, <2>5, <2>6, <2>7 DEF StateType
<1>8. Len(rb.data) = InitialSize /\ InitialSize > 0
  BY <1>2, <1>3, <1>4
<1>9. StreamInv
  <2>1. Holds(rb, 0)
    BY <1>2, <1>4, <1>8 DEF Holds
  <2>2. SizeOK(rb)
    BY <1>8 DEF SizeOK
  <2>3. Len(seen) = 0
    BY <1>1, <1>5
  <2> QED BY <1>1, <1>4, <2>1, <2>2, <2>3 DEF StreamInv
<1>10. RoomInv
  BY <1>2, <1>4, <1>8 DEF RoomInv
<1>11. EventInv /\ StallInv /\ LastInv /\ ReadBeforeClose
  BY <1>1, TodoFacts DEF EventInv, StallInv, LastInv, ReadBeforeClose
<1> QED BY <1>7, <1>9, <1>10, <1>11 DEF BytesInv

\* The inductive invariant of the receiving side: where each byte of the
\* stream is, and what will make recv go on.
THEOREM BytesInvariant == Spec => []BytesInv
<1>1. BytesInv /\ [Next]_vars => BytesInv'
  <2> SUFFICES ASSUME BytesInv, [Next]_vars PROVE BytesInv'
    OBVIOUS
  <2>1. StateType /\ StreamInv /\ RoomInv /\ EventInv /\ StallInv /\ LastInv /\ ReadBeforeClose
    BY DEF BytesInv
  <2>2. RecvStep
    BY <2>1, StepsOfRecv
  <2>3. StateType'
    BY <2>1, TypeStep
  <2> QED BY <2>1, <2>2, <2>3, StreamStep, RoomStep, EventStep, StallStep DEF BytesInv
<1> QED BY <1>1, InitBytes, PTL DEF Spec

\* For any sizes of the buffer and any reads: no byte is lost, doubled or
\* reordered between the kernel and the data callback, however the buffer
\* grows, and moves its bytes, and whatever the callbacks consume or break.
THEOREM BytesArriveInOrder == Spec => []BytesInOrder
<1>1. BytesInv => BytesInOrder
  <2> SUFFICES ASSUME BytesInv PROVE BytesInOrder
    OBVIOUS
  <2> DEFINE q == Readable(rb)
             m == Len(seen)
             n == rb.write_pos - rb.read_pos
             s == seen \o q
  <2>1. /\ rb \in BufferType /\ Holds(rb, m) /\ SizeOK(rb) /\ m + n = taken /\ taken \in Nat
        /\ seen \in Seq(Nat) /\ \A i \in 1..m : seen[i] = i
    BY DEF BytesInv, StateType, ConnType, KernelType, StreamInv
  <2>2. /\ rb.write_pos \in Nat /\ rb.read_pos \in Nat
        /\ rb.read_pos <= rb.write_pos /\ rb.write_pos <= Len(rb.data)
        /\ \A i \in 1..n : rb.data[rb.read_pos + i] = m + i
    BY <2>1, BufferFields DEF Holds
  <2>3. m \in Nat /\ n \in Nat
    BY <2>1, <2>2, LenProperties
  <2>4. q \in Seq(Nat) /\ Len(q) = n /\ \A i \in 1..n : q[i] = rb.data[rb.read_pos + i]
    BY <2>1, <2>2, ReadableProps
  <2>5. \A i \in 1..n : q[i] = m + i
    BY <2>2, <2>4
  <2> HIDE DEF q, n
  <2>6. /\ s \in Seq(Nat) /\ Len(s) = m + n
        /\ \A i \in 1..(m + n) : s[i] = IF i <= m THEN seen[i] ELSE q[i - m]
    BY <2>1, <2>4, ConcatProperties
  <2> HIDE DEF m, s
  <2>7. ASSUME NEW i \in 1..taken PROVE s[i] = i
    <3>1. CASE i <= m
      <4>1. i \in 1..m /\ i \in 1..(m + n)
        BY <2>1, <2>3, <3>1
      <4> QED BY <2>1, <2>6, <3>1, <4>1
    <3>2. CASE ~(i <= m)
      <4>1. i - m \in 1..n /\ i \in 1..(m + n) /\ m + (i - m) = i
        BY <2>1, <2>3, <3>2
      <4>2. s[i] = q[i - m]
        BY <2>6, <3>2, <4>1
      <4> QED BY <2>5, <4>1, <4>2
    <3> QED BY <3>1, <3>2
  <2>8. DOMAIN s = 1..taken /\ s = [i \in DOMAIN s |-> s[i]]
    BY <2>1, <2>6, LenProperties
  <2>9. s = [i \in 1..taken |-> i]
    BY <2>7, <2>8
  <2>10. seen \o Readable(rb) = [i \in 1..taken |-> i]
    BY <2>9 DEF s, q
  <2> QED BY <2>1, <2>2, <2>10 DEF BytesInOrder, SizeOK, ox_buffer_getsize
<1> QED BY <1>1, BytesInvariant, PTL

\* When the loop goes back to epoll_wait with bytes left in the kernel, an edge
\* is due or the buffer is full at its largest size.
THEOREM UnreadBytesAreNoticed == Spec => []NoRecvStall
<1>1. BytesInv => NoRecvStall
  <2> SUFFICES ASSUME BytesInv, phase = "Wait", ds.mSocket, taken < sent, "overrun" \notin odd,
                      "IN" \notin edges
               PROVE  /\ ox_buffer_getreadvalidcount(rb) = ox_buffer_getsize(rb)
                      /\ ox_buffer_getsize(rb) + Grow > mMaxRecvBufferSize
    BY DEF NoRecvStall
  <2>1. todo = <<>>
    BY DEF BytesInv, EventInv
  <2>2. Filled(rb)
    BY <2>1 DEF BytesInv, StallInv
  <2>3. rb.write_pos \in Nat /\ rb.read_pos = 0 /\ rb.write_pos = Len(rb.data)
    BY <2>2, BufferFields DEF BytesInv, StateType, ConnType, Filled
  <2> QED BY <2>2, <2>3 DEF Filled, ox_buffer_getreadvalidcount, ox_buffer_getsize
<1> QED BY <1>1, BytesInvariant, PTL

\* A FIN does not overtake the bytes before it.
THEOREM FinClosesLast == Spec => []ReadBeforeClose
<1>1. BytesInv => ReadBeforeClose
  BY DEF BytesInv
<1> QED BY <1>1, BytesInvariant, PTL

(***************************************************************************)
(* The heartbeat.                                                          *)
(***************************************************************************)

\* MaxPeriod is the longest period.
LEMMA MaxPeriodProps == MaxPeriod \in Nat /\ \A p \in Periods : p <= MaxPeriod
<1>1. CASE Periods = {}
  BY <1>1 DEF MaxPeriod
<1>2. CASE Periods # {}
  <2>1. \E p \in Periods : \A q \in Periods : q <= p
    BY <1>2, PeriodsAssumption
  <2>2. MaxPeriod = CHOOSE p \in Periods : \A q \in Periods : q <= p
    BY <1>2 DEF MaxPeriod
  <2>3. MaxPeriod \in Periods /\ \A q \in Periods : q <= MaxPeriod
    BY <2>1, <2>2
  <2> QED BY <2>3, PeriodsAssumption
<1> QED BY <1>1, <1>2

\* Steps that do not concern the heartbeat.
OffClock ==
    /\ UNCHANGED <<timers, quiet, deleted>>
    /\ ds'.mTimer = ds.mTimer /\ ds'.mRecvData = ds.mRecvData /\ ds'.mCheckTime = ds.mCheckTime
    /\ "deletedTimer" \in odd' => "deletedTimer" \in odd
    /\ cause' = "heartbeat" => cause = "heartbeat"

\* A step of the heartbeat, or one beside it.
ClockStep ==
    \/ OffClock \/ RecvReads \/ RunClose \/ Tick
    \/ (\E t \in timers : RunTimer(t)) \/ (\E p \in Periods : CallSetHeartBeat(p))

\* These are all the steps there are.
LEMMA StepsOfClock ==
    ASSUME StateType, StreamInv, [Next]_vars
    PROVE  ClockStep
<1> USE DEF conn, clock, where, promise, kernel, fixed
<1>1. ds \in SocketType
  BY DEF StateType, ConnType
<1>2. CASE \/ EpollWait \/ EventsDone \/ AfterDone \/ ScheduleDone \/ PeerSends
           \/ (\E how \in {"fin", "reset"} : PeerCloses(how)) \/ UNCHANGED vars
  <2>1. UNCHANGED <<timers, quiet, deleted, ds, odd, cause>>
    BY <1>2 DEF EpollWait, EventsDone, AfterDone, ScheduleDone, PeerSends, PeerCloses, vars
  <2> QED BY <2>1 DEF OffClock, ClockStep
<1>3. CASE Dispatch \/ RecvBreaks \/ CallDisconnect
  <2>1. UNCHANGED <<timers, quiet, deleted, odd>>
    BY <1>3 DEF Dispatch, RecvBreaks, CallDisconnect
  <2>2. (\E who \in {"peer", "user"} : CloseFor(who)) \/ UNCHANGED <<ds, cause>>
    BY <1>3 DEF Dispatch, RecvBreaks, CallDisconnect
  <2>3. CASE UNCHANGED <<ds, cause>>
    BY <2>1, <2>3 DEF OffClock, ClockStep
  <2>4. ASSUME NEW who \in {"peer", "user"}, CloseFor(who) PROVE ClockStep
    <3>1. /\ ds'.mRecvData = ds.mRecvData /\ ds'.mCheckTime = ds.mCheckTime /\ ds'.mTimer = ds.mTimer
          /\ cause' = who \/ cause' = cause
      BY <1>1, <2>4, CloseForProps
    <3> QED BY <2>1, <3>1 DEF OffClock, ClockStep
  <2> QED BY <2>2, <2>3, <2>4
<1>4. CASE NoCallback \/ (\E n \in 0..ox_buffer_getreadvalidcount(rb) : UserCallback(n)) \/ ProcessReturns
  <2>1. PICK p \in Nat : ConsumeStep(p)
    BY <1>4, ReturnsConsume
  <2>2. UNCHANGED <<timers, quiet, deleted, ds, cause>>
    BY <2>1 DEF ConsumeStep
  <2>3. odd' = odd \/ odd' = odd \cup {"overrun"}
    BY <2>1 DEF ConsumeStep, Consume
  <2> QED BY <2>2, <2>3 DEF OffClock, ClockStep
<1>5. CASE ProcessStep
  <2>1. UNCHANGED <<conn, clock, cause>> /\ odd' \subseteq odd \cup {"overread"}
    BY <1>5, ProcessType
  <2> QED BY <2>1 DEF OffClock, ClockStep
<1>6. CASE CallReceive
  <2>1. UNCHANGED <<timers, quiet, deleted, ds, cause>> /\ odd' \in {odd, odd \cup {"late"}}
    BY <1>6 DEF CallReceive
  <2> QED BY <2>1 DEF OffClock, ClockStep
<1> QED BY <1>2, <1>3, <1>4, <1>5, <1>6 DEF Next, LoopStep, Environment, ClockStep

\* A timer that schedule() calls is the heartbeat of a socket that is there.
LEMMA CalledTimer ==
    ASSUME StateType, TimerInv, NEW t \in timers, RunTimer(t)
    PROVE  /\ t.left = 0 /\ UNCHANGED <<deleted, quiet>>
           /\ \/ ~t.mActive /\ timers' = pop(timers, t) /\ UNCHANGED <<ds, cause, odd>>
              \/ t.mActive /\ ~deleted /\ t.id = ds.mTimer /\ PingCheck(t)
<1>1. t.left = 0 /\ UNCHANGED <<deleted, quiet>>
  BY DEF RunTimer, Due
<1>2. CASE t.mActive
  <2>1. ~deleted /\ t.id = ds.mTimer
    BY <1>2 DEF TimerInv
  <2> QED BY <1>1, <1>2, <2>1 DEF RunTimer
<1>3. CASE ~t.mActive
  BY <1>1, <1>3 DEF RunTimer
<1> QED BY <1>2, <1>3

\* Nobody replaces the data callback.
LEMMA CallbackStays ==
    ASSUME StateType, StreamInv, [Next]_vars
    PROVE  callback' = callback
<1>1. CASE ProcessStep
  BY <1>1, ProcessType DEF fixed
<1>2. ASSUME NEW t \in timers, RunTimer(t) PROVE callback' = callback
  BY <1>2 DEF RunTimer, fixed
<1>3. CASE UNCHANGED vars
  BY <1>3 DEF vars, fixed
<1>4. CASE Environment
  BY <1>4 DEF Environment, PeerSends, PeerCloses, Tick, CallSetHeartBeat, CallDisconnect, CallReceive, fixed
<1>5. CASE \/ EpollWait \/ Dispatch \/ EventsDone \/ RecvBreaks \/ RecvReads \/ NoCallback
           \/ (\E n \in 0..ox_buffer_getreadvalidcount(rb) : UserCallback(n))
           \/ ProcessReturns \/ RunClose \/ AfterDone \/ ScheduleDone
  BY <1>5 DEF EpollWait, Dispatch, EventsDone, RecvBreaks, RecvReads, NoCallback, UserCallback,
              ProcessReturns, RunClose, AfterDone, ScheduleDone, fixed
<1> QED BY <1>1, <1>2, <1>3, <1>4, <1>5 DEF Next, LoopStep

\* One active timer at most, whatever is set, cancelled, popped or deleted.
LEMMA TimerStep ==
    ASSUME StateType, TimerInv, ClockStep, callback' = callback
    PROVE  TimerInv'
<1> USE DEF conn, clock, where, promise, kernel, fixed
<1>1. /\ ds \in SocketType /\ timers \in SUBSET TimerType /\ IsFiniteSet(timers) /\ quiet \in Nat
      /\ ds.mCheckTime \in Nat
  BY DEF StateType, ConnType, ClockType, SocketType
<1>2. CASE OffClock
  BY <1>2 DEF OffClock, TimerInv
<1>3. CASE RecvReads
  <2>1. /\ UNCHANGED <<timers, deleted, odd>>
        /\ ds' = [ds EXCEPT !.mRecvData = @ \/ callback # "none"]
    BY <1>3 DEF RecvReads
  <2>2. /\ ds'.mTimer = ds.mTimer /\ ds'.mCheckTime = ds.mCheckTime
        /\ ds'.mRecvData = (ds.mRecvData \/ callback # "none")
    BY <1>1, <2>1 DEF SocketType
  <2>3. ~(~ds'.mRecvData /\ callback' # "none")
    BY <2>2
  <2> QED BY <2>1, <2>2, <2>3 DEF TimerInv
<1>4. CASE RunClose
  <2>1. /\ timers' = cancel(timers, ds.mTimer) /\ UNCHANGED <<quiet, odd>>
        /\ ds' = [ds EXCEPT !.postClose = FALSE]
    BY <1>4 DEF RunClose
  <2>2. ds'.mCheckTime = ds.mCheckTime
    BY <1>1, <2>1 DEF SocketType
  <2>3. \A t \in timers' : t.mActive => t \in timers /\ t.id # ds.mTimer
    BY <1>1, <2>1, CancelProps
  <2>4. \A t \in timers' : ~t.mActive
    BY <2>3 DEF TimerInv
  <2> QED BY <2>1, <2>2, <2>4 DEF TimerInv
<1>5. CASE Tick
  <2>1. /\ timers' = Elapse(timers) /\ UNCHANGED <<ds, deleted, odd>>
        /\ quiet' = IF quiet < MaxPeriod THEN quiet + 1 ELSE quiet
    BY <1>5 DEF Tick
  <2>2. /\ Elapse(timers) \in SUBSET TimerType
        /\ \A t \in Elapse(timers) : \E u \in timers :
                 /\ t.id = u.id /\ t.mActive = u.mActive
                 /\ t.left = IF u.left > 0 THEN u.left - 1 ELSE 0
    BY <1>1, ElapseProps
  <2>3. ds.mCheckTime <= MaxPeriod /\ MaxPeriod \in Nat
    BY MaxPeriodProps DEF TimerInv
  <2>4. ASSUME NEW t \in timers', t.mActive
        PROVE  /\ ~deleted /\ t.id = ds.mTimer /\ t.id # 0
               /\ ~ds.mRecvData /\ callback # "none" => quiet' + t.left >= ds.mCheckTime
    <3>1. PICK u \in timers : /\ t.id = u.id /\ t.mActive = u.mActive
                              /\ t.left = IF u.left > 0 THEN u.left - 1 ELSE 0
      BY <2>1, <2>2
    <3>2. u.mActive
      BY <2>4, <3>1
    <3>3. /\ ~deleted /\ t.id = ds.mTimer /\ t.id # 0
          /\ ~ds.mRecvData /\ callback # "none" => quiet + u.left >= ds.mCheckTime
      BY <3>1, <3>2 DEF TimerInv
    <3>4. u.left \in Nat
      BY <1>1 DEF TimerType
    <3>5. quiet + u.left >= ds.mCheckTime => quiet' + t.left >= ds.mCheckTime
      <4> DEFINE a == u.left
                 c == ds.mCheckTime
                 b == t.left
      <4>1. a \in Nat /\ c \in Nat /\ b = (IF a > 0 THEN a - 1 ELSE 0) /\ c <= MaxPeriod
        BY <1>1, <2>3, <3>1, <3>4
      <4> HIDE DEF a, b, c
      <4>2. b \in Nat /\ b + 1 >= a
        BY <4>1
      <4>3. CASE quiet < MaxPeriod
        <5>1. quiet' = quiet + 1
          BY <2>1, <4>3
        <5>2. quiet + a >= c => (quiet + 1) + b >= c
          BY <1>1, <4>1, <4>2
        <5> QED BY <5>1, <5>2 DEF a, b, c
      <4>4. CASE ~(quiet < MaxPeriod)
        <5>1. quiet' = quiet
          BY <2>1, <4>4
        <5>2. quiet + b >= c
          BY <1>1, <2>3, <4>1, <4>2, <4>4
        <5> QED BY <5>1, <5>2 DEF a, b, c
      <4> QED BY <4>3, <4>4
    <3> QED BY <3>3, <3>5
  <2>5. ASSUME NEW t \in timers', NEW v \in timers', t.mActive, v.mActive PROVE t = v
    <3>1. PICK u \in timers : /\ t.id = u.id /\ t.mActive = u.mActive
                              /\ t.left = IF u.left > 0 THEN u.left - 1 ELSE 0
      BY <2>1, <2>2
    <3>2. PICK w \in timers : /\ v.id = w.id /\ v.mActive = w.mActive
                              /\ v.left = IF w.left > 0 THEN w.left - 1 ELSE 0
      BY <2>1, <2>2
    <3>3. u.mActive /\ w.mActive
      BY <2>5, <3>1, <3>2
    <3>4. u = w
      BY <3>3 DEF TimerInv
    <3>5. t.id = v.id /\ t.mActive = v.mActive /\ t.left = v.left
      BY <3>1, <3>2, <3>4
    <3>6. t \in TimerType /\ v \in TimerType
      BY <2>1, <2>2
    <3> QED BY <3>5, <3>6 DEF TimerType
  <2> QED BY <2>1, <2>4, <2>5 DEF TimerInv
<1>6. ASSUME NEW t \in timers, RunTimer(t) PROVE TimerInv'
  <2>1. UNCHANGED <<deleted, quiet>>
    BY <1>6, CalledTimer
  <2>2. CASE ~t.mActive /\ timers' = pop(timers, t) /\ UNCHANGED <<ds, cause, odd>>
    BY <2>1, <2>2 DEF TimerInv, pop
  <2>3. CASE t.mActive /\ t.id = ds.mTimer /\ PingCheck(t)
    <3>1. timers' = pop(timers, t) /\ odd' \subseteq odd \cup {"notRearmed"}
      BY <1>1, <2>3, PingCheckProps
    <3>2. \A u \in timers' : ~u.mActive
      BY <2>3, <3>1 DEF TimerInv, pop
    <3>3. ds'.mCheckTime = ds.mCheckTime
      <4>1. CASE ds.mRecvData
        BY <1>1, <2>3, <4>1 DEF PingCheck, SocketType
      <4>2. CASE ~ds.mRecvData
        <5>1. ds' = [IF ds.mSocket THEN Close(ds) ELSE ds EXCEPT !.mTimer = 0]
          BY <2>3, <4>2 DEF PingCheck
        <5>2. /\ Close(ds) \in SocketType /\ Close(ds).mCheckTime = ds.mCheckTime
          BY <1>1, CloseProps
        <5> QED BY <1>1, <5>1, <5>2 DEF SocketType
      <4> QED BY <4>1, <4>2
    <3> QED BY <3>1, <3>2, <3>3 DEF TimerInv
  <2> QED BY <1>6, <2>2, <2>3, CalledTimer
<1>7. ASSUME NEW p \in Periods, CallSetHeartBeat(p) PROVE TimerInv'
  <2>1. SetHeartBeat(p) /\ quiet' = 0 /\ p \in Nat /\ ~deleted /\ UNCHANGED <<deleted, odd>>
    BY <1>7, PeriodsAssumption DEF CallSetHeartBeat
  <2>2. /\ ds'.mCheckTime = p
        /\ \A t \in timers' : t.mActive =>
                 \/ t \in timers /\ (ds.mTimer # 0 => t.id # ds.mTimer)
                 \/ t.id = ds'.mTimer /\ ds'.mTimer # 0 /\ t.left = p
                       /\ t = Timer(ds'.mTimer, p)
    BY <1>1, <2>1, SetHeartBeatProps
  <2>3. ASSUME NEW t \in timers', t.mActive
        PROVE  t.id = ds'.mTimer /\ t.id # 0 /\ t.left = p /\ t = Timer(ds'.mTimer, p)
    <3>1. ~(t \in timers /\ (ds.mTimer # 0 => t.id # ds.mTimer))
      BY <2>3 DEF TimerInv
    <3> QED BY <2>2, <2>3, <3>1
  <2>4. ASSUME NEW t \in timers', t.mActive PROVE quiet' + t.left >= ds'.mCheckTime
    <3>1. t.left = p
      BY <2>3, <2>4
    <3>2. 0 + p >= p
      BY <2>1
    <3> QED BY <2>1, <2>2, <3>1, <3>2
  <2> QED BY <2>1, <2>2, <2>3, <2>4 DEF TimerInv
<1> QED BY <1>2, <1>3, <1>4, <1>5, <1>6, <1>7 DEF ClockStep

\* With a data callback the heartbeat closes a connection only when nothing was
\* read from it for the whole of its time; with or without one no timer calls a
\* DataSocket that is deleted (PingCheck, the destructor's cancel).
THEOREM HeartbeatClosesTheSilent == Spec => HeartbeatIsFair
<1>1. Init => TimerInv
  <2> SUFFICES ASSUME Init PROVE TimerInv
    OBVIOUS
  <2>1. timers = {} /\ odd = {} /\ ds.mCheckTime = 0
    BY DEF Init
  <2> QED BY <2>1 DEF TimerInv
<1>2. BytesInv /\ TimerInv /\ [Next]_vars => TimerInv'
  BY StepsOfClock, CallbackStays, TimerStep DEF BytesInv
<1>3. BytesInv /\ TimerInv /\ TimerInv' /\ [Next]_vars =>
          [/\ cause' = "heartbeat" /\ cause # "heartbeat" /\ callback # "none" =>
                  quiet >= ds.mCheckTime
           /\ "deletedTimer" \notin odd']_vars
  <2> SUFFICES ASSUME BytesInv, TimerInv, TimerInv', [Next]_vars, cause' = "heartbeat",
                      cause # "heartbeat", callback # "none"
               PROVE  quiet >= ds.mCheckTime
    BY DEF TimerInv
  <2>1. StateType /\ ClockStep
    BY StepsOfClock DEF BytesInv
  <2>2. PICK t \in timers : RunTimer(t)
    <3>1. ~OffClock
      BY DEF OffClock
    <3>2. ~RecvReads /\ ~RunClose /\ ~Tick /\ ~(\E p \in Periods : CallSetHeartBeat(p))
      BY DEF RecvReads, RunClose, Tick, CallSetHeartBeat
    <3> QED BY <2>1, <3>1, <3>2 DEF ClockStep
  <2>3. t.left = 0 /\ t.mActive /\ PingCheck(t)
    BY <2>1, <2>2, CalledTimer
  <2>4. ~ds.mRecvData
    BY <2>1, <2>3, PingCheckProps DEF StateType, ConnType, ClockType
  <2>5. quiet + t.left >= ds.mCheckTime /\ quiet \in Nat /\ ds.mCheckTime \in Nat
    BY <2>1, <2>3, <2>4 DEF TimerInv, StateType, ConnType, ClockType, SocketType
  <2> QED BY <2>3, <2>5
<1> QED BY <1>1, <1>2, <1>3, BytesInvariant, PTL DEF Spec, HeartbeatIsFair

(***************************************************************************)
(* The slices of PromiseReceive.                                           *)
(***************************************************************************)

\* What the buffer has left for process is what the stream says there.
LEMMA TextIsSpoken ==
    ASSUME StateType, StreamInv, left >= 0
    PROVE  Text = Spoken(Len(seen) + procLen, left)
<1> DEFINE q == Readable(rb)
           k == Len(seen)
           n == offered
<1>1. rb \in BufferType /\ Holds(rb, k) /\ seen \in Seq(Nat) /\ procLen \in Nat
  BY DEF StateType, ConnType, PromiseType, StreamInv
<1>2. n = rb.write_pos - rb.read_pos /\ n \in Nat /\ left = n - procLen /\ left \in Nat
  BY OfferedProps
<1>3. k \in Nat
  BY <1>1, LenProperties
<1>4. /\ rb.read_pos <= rb.write_pos /\ rb.write_pos <= Len(rb.data)
      /\ \A i \in 1..n : rb.data[rb.read_pos + i] = k + i
  BY <1>1, <1>2 DEF Holds
<1>5. \A i \in 1..n : q[i] = rb.data[rb.read_pos + i]
  BY <1>1, <1>2, <1>4, ReadableProps
<1>6. \A i \in 1..n : q[i] = k + i
  BY <1>4, <1>5
<1>7. Text = [i \in 1..left |-> stream[q[procLen + i]]]
  BY DEF Text
<1> HIDE DEF q, k, n
<1>8. ASSUME NEW i \in 1..left PROVE q[procLen + i] = (k + procLen) + i
  <2>1. procLen + i \in 1..n
    BY <1>1, <1>2
  <2>2. q[procLen + i] = k + (procLen + i)
    BY <1>6, <2>1
  <2>3. k + (procLen + i) = (k + procLen) + i
    BY <1>1, <1>3
  <2> QED BY <2>2, <2>3
<1>9. [i \in 1..left |-> stream[q[procLen + i]]] = [i \in 1..left |-> stream[(k + procLen) + i]]
  BY <1>8
<1> QED BY <1>7, <1>9 DEF Spoken, k

\* Two texts that agree have the same parts.
LEMMA SamePart ==
    ASSUME NEW f, NEW g, NEW a \in Int, NEW b \in Int, \A i \in a..b : f[i] = g[i]
    PROVE  SubSeq(f, a, b) = SubSeq(g, a, b)
<1> DEFINE S == {f[i] : i \in a..b}
           x == SubSeq(f, a, b)
           y == SubSeq(g, a, b)
<1>1. (\A i \in a..b : f[i] \in S) /\ (\A i \in a..b : g[i] \in S)
  OBVIOUS
<1> HIDE DEF S
<1>2. /\ x \in Seq(S) /\ Len(x) = (IF a <= b THEN b - a + 1 ELSE 0)
      /\ \A i \in 1..(b - a + 1) : x[i] = f[a + i - 1]
  BY <1>1, SubSeqProperties
<1>3. /\ y \in Seq(S) /\ Len(y) = (IF a <= b THEN b - a + 1 ELSE 0)
      /\ \A i \in 1..(b - a + 1) : y[i] = g[a + i - 1]
  BY <1>1, SubSeqProperties
<1> HIDE DEF x, y
<1>4. Len(x) = Len(y) /\ Len(x) \in Nat
  BY <1>2, <1>3
<1>5. ASSUME NEW i \in 1..Len(x) PROVE x[i] = y[i]
  <2>1. i \in 1..(b - a + 1) /\ a + i - 1 \in a..b
    BY <1>2
  <2> QED BY <1>2, <1>3, <2>1
<1>6. x = y
  BY <1>2, <1>3, <1>4, <1>5, SeqEqual
<1> QED BY <1>6 DEF x, y

\* A text that ends with the first match of a longer one has the same first match.
LEMMA PrefixSearch ==
    ASSUME NEW k \in Nat, NEW n \in Nat, Matches(Spoken(k, n)) # {}
    PROVE  LET m == memsearch(Spoken(k, n)) IN
           memsearch(Spoken(k, m + Len(Delim))) = m
<1> DEFINE f == Spoken(k, n)
           m == memsearch(f)
           d == Len(Delim)
           g == Spoken(k, m + d)
<1>1. d \in Nat
  BY DelimAssumption
<1>2. f = [i \in 1..n |-> f[i]] /\ \A i \in 1..n : f[i] = stream[k + i]
  BY DEF Spoken
<1> HIDE DEF f
<1>3. Len(f) = n
  BY <1>2, FunLen
<1>4. /\ m \in Nat /\ m + d <= n /\ m \in Matches(f) /\ \A q \in Matches(f) : m <= q
  BY <1>3, MemsearchProps DEF f
<1> HIDE DEF m
<1>5. g = [i \in 1..(m + d) |-> g[i]] /\ \A i \in 1..(m + d) : g[i] = stream[k + i]
  BY DEF Spoken
<1> HIDE DEF g
<1>6. m + d \in Nat
  BY <1>1, <1>4
<1>7. Len(g) = m + d
  BY <1>5, <1>6, FunLen
<1>8. ASSUME NEW q \in 0..m PROVE SubSeq(g, q + 1, q + d) = SubSeq(f, q + 1, q + d)
  <2>1. \A i \in (q + 1)..(q + d) : i \in 1..n /\ i \in 1..(m + d)
    BY <1>1, <1>4
  <2>2. \A i \in (q + 1)..(q + d) : g[i] = f[i]
    BY <1>2, <1>5, <2>1
  <2>3. q + 1 \in Int /\ q + d \in Int
    BY <1>1, <1>4
  <2> QED BY <2>2, <2>3, SamePart
<1>9. (Len(g) - d) = m /\ m \in 0..m /\ m \in 0..(n - d) /\ \A q \in 0..m : q \in 0..(n - d)
  BY <1>1, <1>4, <1>7
<1>10. Matches(g) = {q \in 0..m : SubSeq(g, q + 1, q + d) = Delim}
  BY <1>9 DEF Matches
<1>11. Matches(f) = {q \in 0..(n - d) : SubSeq(f, q + 1, q + d) = Delim}
  BY <1>3 DEF Matches
<1> HIDE DEF d
<1>12. m \in Matches(g)
  BY <1>4, <1>8, <1>9, <1>10, <1>11
<1>13. ASSUME NEW q \in Matches(g) PROVE q = m
  <2>1. q \in 0..m /\ q \in Matches(f)
    BY <1>8, <1>9, <1>10, <1>11
  <2>2. m <= q
    BY <1>4, <2>1
  <2> QED BY <1>4, <2>1, <2>2
<1>14. Matches(g) = {m}
  BY <1>12, <1>13
<1>15. memsearch(g) = m
  <2>1. memsearch(g) = CHOOSE p \in {m} : \A q \in {m} : p <= q
    BY <1>14 DEF memsearch
  <2>2. \E p \in {m} : \A q \in {m} : p <= q
    BY <1>4
  <2>3. memsearch(g) \in {m}
    BY <2>1, <2>2
  <2> QED BY <2>3
<1> QED BY <1>15 DEF g, d, m, f

\* A slice that begins where process is continues the chain.
LEMMA SliceAdded ==
    ASSUME slices \in Seq(SliceType), SliceInv, NEW s \in SliceType, slices' = Append(slices, s),
           s.from = Position, Behind(s) = Position', stream' = stream,
           s.kind = "until" => memsearch(Spoken(s.from, s.len + Len(Delim))) = s.len
    PROVE  SliceInv'
<1> DEFINE n == Len(slices)
           t == Append(slices, s)
<1>1. /\ n \in Nat /\ t \in Seq(SliceType) /\ Len(t) = n + 1 /\ t[n + 1] = s
      /\ \A i \in 1..n : t[i] = slices[i]
  BY LenProperties, AppendProperties
<1>2. /\ \A i \in 1..n : slices[i].kind = "until" =>
            memsearch(Spoken(slices[i].from, slices[i].len + Len(Delim))) = slices[i].len
      /\ \A i \in 1..(n - 1) : slices[i + 1].from = Behind(slices[i])
      /\ slices # <<>> => Behind(slices[n]) = Position
  BY DEF SliceInv
<1>3. n > 0 => slices # <<>>
  OBVIOUS
<1> HIDE DEF n, t
<1>4. ASSUME NEW i \in 1..(n + 1), t[i].kind = "until"
      PROVE  memsearch(Spoken(t[i].from, t[i].len + Len(Delim))) = t[i].len
  <2>1. CASE i \in 1..n
    BY <1>1, <1>2, <1>4, <2>1
  <2>2. CASE i = n + 1
    BY <1>1, <1>4, <2>2
  <2> QED BY <1>1, <2>1, <2>2
<1>5. ASSUME NEW i \in 1..n PROVE t[i + 1].from = Behind(t[i])
  <2>1. CASE i \in 1..(n - 1)
    <3>1. i + 1 \in 1..n
      BY <1>1, <2>1
    <3> QED BY <1>1, <1>2, <2>1, <3>1
  <2>2. CASE i = n
    <3>1. slices # <<>>
      BY <1>1, <1>3
    <3> QED BY <1>1, <1>2, <2>2, <3>1
  <2> QED BY <1>1, <2>1, <2>2
<1>6. slices' = t /\ Len(t) = n + 1 /\ (n + 1) - 1 = n
  BY <1>1 DEF t
<1>7. SliceInv' = (/\ \A i \in 1..Len(t) : t[i].kind = "until" =>
                         memsearch(Spoken(t[i].from, t[i].len + Len(Delim))) = t[i].len
                   /\ \A i \in 1..(Len(t) - 1) : t[i + 1].from = Behind(t[i])
                   /\ t # <<>> => Behind(t[Len(t)]) = Position')
  BY <1>6 DEF SliceInv, Spoken, Behind
<1> QED BY <1>1, <1>4, <1>5, <1>6, <1>7

\* The steps that leave the receives and the bytes alone.
OffPromise ==
    /\ UNCHANGED <<pending, cell, procLen, slices, rb, seen, callback, stream>>
    /\ odd \subseteq odd'
    /\ (phase' = "Callback") <=> (phase = "Callback")
    /\ phase' = "Crashed" => phase = "Crashed"

PromiseStep ==
    \/ OffPromise \/ RecvReads \/ NoCallback
    \/ \E n \in 0..ox_buffer_getreadvalidcount(rb) : UserCallback(n)
    \/ ProcessStep \/ ProcessReturns \/ CallReceive

\* Which steps are which.
LEMMA StepsOfPromise ==
    ASSUME [Next]_vars
    PROVE  PromiseStep
<1> USE DEF vars, conn, clock, where, promise, kernel, fixed
<1>1. CASE UNCHANGED vars
  BY <1>1 DEF OffPromise, PromiseStep
<1>2. CASE EpollWait \/ Dispatch \/ EventsDone \/ AfterDone \/ ScheduleDone
  <2>1. OffPromise
    BY <1>2 DEF EpollWait, Dispatch, EventsDone, AfterDone, ScheduleDone, OffPromise
  <2> QED BY <2>1 DEF PromiseStep
<1>3. CASE RecvBreaks \/ RunClose
  <2>1. OffPromise
    BY <1>3 DEF RecvBreaks, RunClose, OffPromise
  <2> QED BY <2>1 DEF PromiseStep
<1>4. CASE \E t \in timers : RunTimer(t)
  <2>1. PICK t \in timers : RunTimer(t)
    BY <1>4
  <2>2. odd \subseteq odd'
    BY <2>1 DEF RunTimer, PingCheck
  <2>3. OffPromise
    BY <2>1, <2>2 DEF RunTimer, OffPromise
  <2> QED BY <2>3 DEF PromiseStep
<1>5. CASE PeerSends \/ (\E how \in {"fin", "reset"} : PeerCloses(how)) \/ Tick
  <2>1. OffPromise
    BY <1>5 DEF PeerSends, PeerCloses, Tick, OffPromise
  <2> QED BY <2>1 DEF PromiseStep
<1>6. CASE (\E p \in Periods : CallSetHeartBeat(p)) \/ CallDisconnect
  <2>1. OffPromise
    BY <1>6 DEF CallSetHeartBeat, CallDisconnect, OffPromise
  <2> QED BY <2>1 DEF PromiseStep
<1>7. CASE \/ RecvReads \/ NoCallback
           \/ \E n \in 0..ox_buffer_getreadvalidcount(rb) : UserCallback(n)
           \/ ProcessStep \/ ProcessReturns \/ CallReceive
  BY <1>7 DEF PromiseStep
<1> QED BY <1>1, <1>2, <1>3, <1>4, <1>5, <1>6, <1>7 DEF Next, LoopStep, Environment

\* The slices stay a chain when nothing is given and process is where it was.
LEMMA SlicesKept ==
    ASSUME SliceInv, UNCHANGED <<slices, stream>>, slices # <<>> => Position' = Position
    PROVE  SliceInv'
  BY DEF SliceInv, Spoken, Behind

\* A step that leaves the receives and the bytes alone keeps the invariant.
LEMMA OffPromiseStep ==
    ASSUME PromiseInv, OffPromise
    PROVE  PromiseInv'
<1>1. UNCHANGED <<pending, cell, procLen, slices, rb, seen, callback, stream>> /\ odd \subseteq odd'
      /\ ((phase' = "Callback") <=> (phase = "Callback")) /\ (phase' = "Crashed" => phase = "Crashed")
  BY DEF OffPromise
<1>2. callback' # "promise" => slices' = <<>>
  BY <1>1 DEF PromiseInv
<1> SUFFICES ASSUME "overread" \notin odd'
             PROVE  /\ phase' # "Crashed"
                    /\ phase' = "Callback" => procLen' <= offered'
                    /\ SliceInv'
                    /\ (phase # "Callback" /\ callback = "promise" /\ pending # <<>> /\ "late" \notin odd)' =>
                          Hungry'
  BY <1>2 DEF PromiseInv
<1>3. /\ phase # "Crashed" /\ (phase = "Callback" => procLen <= offered) /\ SliceInv
      /\ (phase # "Callback" /\ callback = "promise" /\ pending # <<>> /\ "late" \notin odd => Hungry)
  BY <1>1 DEF PromiseInv
<1>4. offered' = offered
  BY <1>1 DEF offered
<1>5. Position' = Position
  BY <1>1 DEF Position
<1>6. SliceInv'
  BY <1>1, <1>3, <1>5, SlicesKept
<1>7. Hungry' = Hungry
  BY <1>1, <1>4 DEF Hungry, front, wanted, Spoken
<1> QED BY <1>1, <1>3, <1>4, <1>6, <1>7

\* A slice that a handle is given begins where process is.
LEMMA HandleSlice ==
    ASSUME StateType, phase = "Callback", SliceInv, NEW kind \in {"len", "until"}, NEW n \in Nat,
           NEW keep, Handle(kind, n, keep), kind = "len" => procLen' = procLen + n,
           kind = "until" => /\ procLen' = procLen + n + Len(Delim)
                             /\ memsearch(Spoken(Len(seen) + procLen, n + Len(Delim))) = n,
           phase' = "Callback", UNCHANGED <<seen, stream>>
    PROVE  SliceInv'
<1> DEFINE s == [kind |-> kind, from |-> Len(seen) + procLen, len |-> n]
<1>1. slices \in Seq(SliceType) /\ procLen \in Nat /\ Len(seen) \in Nat
  BY LenProperties DEF StateType, PromiseType, SliceType
<1>2. Position = Len(seen) + procLen /\ Position' = Len(seen) + procLen'
  BY DEF Position
<1>3. CASE kind = "len" /\ n = 0
  <2>1. slices' = slices
    BY <1>3 DEF Handle
  <2>2. procLen' = procLen + 0
    BY <1>3
  <2>3. Position' = Position
    BY <1>1, <1>2, <2>2
  <2> QED BY <2>1, <2>3, SlicesKept
<1>4. CASE ~(kind = "len" /\ n = 0)
  <2>1. slices' = Append(slices, s)
    BY <1>4 DEF Handle
  <2>2. s \in SliceType /\ s.kind = kind /\ s.from = Len(seen) + procLen /\ s.len = n
    BY <1>1 DEF SliceType
  <2> HIDE DEF s
  <2>3. Behind(s) = (Len(seen) + procLen) + n + (IF kind = "until" THEN Len(Delim) ELSE 0)
    BY <2>2 DEF Behind
  <2>4. Behind(s) = Position'
    <3>1. CASE kind = "len"
      <4>1. Behind(s) = (Len(seen) + procLen) + n + 0
        BY <2>3, <3>1
      <4>2. Position' = Len(seen) + (procLen + n)
        BY <1>2, <3>1
      <4> HIDE DEF Position
      <4> QED BY <1>1, <4>1, <4>2
    <3>2. CASE kind = "until"
      <4>1. Behind(s) = (Len(seen) + procLen) + n + Len(Delim)
        BY <2>3, <3>2
      <4>2. Position' = Len(seen) + (procLen + n + Len(Delim))
        BY <1>2, <3>2
      <4> QED BY <1>1, <4>1, <4>2, DelimAssumption
    <3> QED BY <3>1, <3>2
  <2>5. s.kind = "until" => memsearch(Spoken(s.from, s.len + Len(Delim))) = s.len
    BY <2>2
  <2>6. s.from = Position
    BY <1>2, <2>2
  <2> QED BY <1>1, <2>1, <2>2, <2>4, <2>5, <2>6, SliceAdded
<1> QED BY <1>3, <1>4

\* The rounds of process.
LEMMA ProcessSlices ==
    ASSUME StateType, StreamInv, PromiseInv, ProcessStep
    PROVE  PromiseInv'
<1>1. /\ UNCHANGED <<conn, seen, callback, stream>> /\ phase' \in {phase, "Crashed"} /\ phase = "Callback"
      /\ odd \subseteq odd' /\ ("overread" \notin odd' => procLen' <= offered)
  BY ProcessType DEF fixed
<1>2. PICK keep \in BOOLEAN : ReceiveLen(keep) \/ ReceiveUntil(keep) \/ ReceiveUntilOverreads(keep)
  BY DEF ProcessStep
<1>3. callback = "promise"
  BY <1>2 DEF ReceiveLen, ReceiveUntil, ReceiveUntilOverreads, InProcess
<1>4. offered' = offered
  BY <1>1 DEF conn, offered
<1>5. CASE ReceiveUntilOverreads(keep)
  <2>1. "overread" \in odd'
    BY <1>5 DEF ReceiveUntilOverreads
  <2> QED BY <1>1, <1>3, <2>1 DEF PromiseInv
<1>6. ASSUME ReceiveLen(keep) \/ ReceiveUntil(keep), "overread" \notin odd', SliceInv
      PROVE  SliceInv'
  <2>1. phase' = "Callback" /\ pending # <<>> /\ left >= 0
    BY <1>1, <1>6 DEF ReceiveLen, ReceiveUntil, InProcess, where
  <2>2. CASE ReceiveLen(keep)
    <3>1. Handle("len", wanted, keep /\ wanted > 0) /\ procLen' = procLen + wanted
      BY <2>2 DEF ReceiveLen
    <3>2. wanted \in Nat
      BY <2>1, WantedType
    <3> HIDE DEF wanted, Handle
    <3> QED BY <1>1, <1>6, <2>1, <3>1, <3>2, HandleSlice
  <2>3. CASE ReceiveUntil(keep)
    <3> DEFINE m == memsearch(Text)
               k == Len(seen) + procLen
    <3>1. Matches(Text) # {} /\ Handle("until", m, keep) /\ procLen' = procLen + m + Len(Delim)
      BY <2>3 DEF ReceiveUntil
    <3>2. k \in Nat /\ left \in Nat
      BY <2>1, OfferedProps, LenProperties DEF StateType, PromiseType
    <3>3. Text = Spoken(k, left)
      BY <2>1, TextIsSpoken
    <3>4. Len(Text) = left
      BY <2>1, OfferedProps
    <3>5. m \in Nat
      BY <3>1, <3>2, <3>4, MemsearchProps
    <3>6. memsearch(Spoken(k, m + Len(Delim))) = m
      <4>1. Matches(Spoken(k, left)) # {}
        BY <3>1, <3>3
      <4>2. memsearch(Spoken(k, memsearch(Spoken(k, left)) + Len(Delim))) = memsearch(Spoken(k, left))
        BY <3>2, <4>1, PrefixSearch
      <4> QED BY <3>3, <4>2
    <3> HIDE DEF m
    <3> QED BY <1>1, <1>6, <2>1, <3>1, <3>5, <3>6, HandleSlice
  <2> QED BY <1>6, <2>2, <2>3
<1>7. CASE ReceiveLen(keep) \/ ReceiveUntil(keep)
  <2>1. phase' = phase
    BY <1>7 DEF ReceiveLen, ReceiveUntil, where
  <2>2. "overread" \notin odd' => SliceInv
    BY <1>1 DEF PromiseInv
  <2> QED BY <1>1, <1>3, <1>4, <1>6, <1>7, <2>1, <2>2 DEF PromiseInv
<1> QED BY <1>2, <1>5, <1>7

\* recv offers the bytes anew: process begins where the last one ended.
LEMMA ReadSlices ==
    ASSUME PromiseInv, StateType, StreamInv, RecvReads
    PROVE  PromiseInv'
<1>1. /\ UNCHANGED <<slices, stream, callback, seen, odd>> /\ phase = "Recv" /\ phase' = "Callback"
      /\ procLen' = 0
  BY DEF RecvReads, fixed
<1>2. Len(seen) \in Nat
  BY LenProperties DEF StateType
<1>3. Position' = Position
  BY <1>1, <1>2 DEF Position
<1>4. SliceInv => SliceInv'
  BY <1>1, <1>3, SlicesKept
<1>5. procLen' <= offered'
  <2>1. rb' \in BufferType /\ rb'.read_pos <= rb'.write_pos
    BY ReadProps DEF Holds
  <2>2. rb'.read_pos \in Nat /\ rb'.write_pos \in Nat
    BY <2>1, BufferFields
  <2>3. offered' = rb'.write_pos - rb'.read_pos
    BY DEF offered, ox_buffer_getreadvalidcount
  <2> QED BY <1>1, <2>1, <2>2, <2>3
<1> QED BY <1>1, <1>4, <1>5 DEF PromiseInv

\* A callback without receives has no slices.
LEMMA OtherSlices ==
    ASSUME PromiseInv, StateType, StreamInv,
           NoCallback \/ \E n \in 0..ox_buffer_getreadvalidcount(rb) : UserCallback(n)
    PROVE  PromiseInv'
<1>1. /\ callback # "promise" /\ UNCHANGED <<slices, callback>>
  BY DEF NoCallback, UserCallback, promise, fixed
<1>2. slices' = <<>>
  BY <1>1 DEF PromiseInv
<1>3. phase' # "Crashed" /\ phase' # "Callback"
  <2>1. PICK p \in Nat : ConsumeStep(p)
    BY ReturnsConsume
  <2> QED BY <2>1, ConsumeType
<1>4. SliceInv'
  <2>1. Len(slices') = 0
    BY <1>2
  <2> QED BY <1>2, <2>1 DEF SliceInv
<1> QED BY <1>1, <1>2, <1>3, <1>4 DEF PromiseInv

\* process returns: the bytes it gave to handles are consumed, and the first
\* receive needs more than the rest.
LEMMA ReturnSlices ==
    ASSUME PromiseInv, StateType, StreamInv, ProcessReturns
    PROVE  PromiseInv'
<1>1. /\ phase = "Callback" /\ callback = "promise" /\ Consume(procLen)
      /\ UNCHANGED <<pending, cell, procLen, slices, callback, stream>>
  BY DEF ProcessReturns, promise, fixed
<1>2. procLen \in Nat /\ Len(seen) \in Nat
  BY LenProperties DEF StateType, PromiseType
<1>3. /\ offered = rb.write_pos - rb.read_pos /\ offered \in Nat
      /\ left = offered - procLen /\ left \in Int
  BY OfferedProps
<1>4. odd \subseteq odd'
  BY <1>1 DEF Consume
<1> SUFFICES ASSUME "overread" \notin odd'
             PROVE  /\ phase' \notin {"Crashed", "Callback"} /\ SliceInv'
                    /\ pending # <<>> => Hungry'
  BY <1>1 DEF PromiseInv
<1>5. procLen <= offered /\ SliceInv
  BY <1>1, <1>4 DEF PromiseInv
<1>6. /\ rb' \in BufferType /\ Holds(rb', Len(seen')) /\ Len(seen') = Len(seen) + procLen
      /\ Len(seen') + (rb'.write_pos - rb'.read_pos) = taken
      /\ phase' = IF short THEN "Events" ELSE "Recv"
  BY <1>1, <1>2, <1>3, <1>5, ConsumeProps
<1>7. Position' = Position
  BY <1>1, <1>2, <1>6 DEF Position
<1>8. left >= 0
  BY <1>2, <1>3, <1>5
<1>9. offered' = left
  <2>1. rb'.write_pos \in Nat /\ rb'.read_pos \in Nat
    BY <1>6, BufferFields
  <2>2. offered' = rb'.write_pos - rb'.read_pos
    BY DEF offered, ox_buffer_getreadvalidcount
  <2>3. Len(seen) + offered = taken
    BY <1>3 DEF StreamInv
  <2> DEFINE o == offered'
             k == Len(seen)
  <2>4. o \in Int /\ (k + procLen) + o = taken /\ k + offered = taken
    BY <1>6, <2>1, <2>2, <2>3
  <2> HIDE DEF o, k
  <2>5. k \in Nat
    BY <1>2 DEF k
  <2>6. o = offered - procLen
    BY <1>2, <1>3, <2>4, <2>5
  <2> QED BY <1>3, <2>6 DEF o
<1>10. Text = Spoken(Len(seen) + procLen, left)
  BY <1>8, TextIsSpoken
<1>11. Spoken(Len(seen), offered)' = Text
  BY <1>1, <1>6, <1>9, <1>10 DEF Spoken
<1>12. ASSUME pending # <<>> PROVE Hungry'
  <2>1. InProcess
    BY <1>1, <1>8, <1>12 DEF InProcess
  <2>2. IF front.kind = "until" THEN Matches(Text) = {} ELSE left < wanted
    BY <2>1 DEF ProcessReturns
  <2>3. front' = front /\ wanted' = wanted
    BY <1>1 DEF front, wanted
  <2> HIDE DEF front, wanted
  <2>4. CASE front.kind = "until"
    BY <1>11, <2>2, <2>3, <2>4 DEF Hungry
  <2>5. CASE front.kind # "until"
    BY <1>9, <2>2, <2>3, <2>5 DEF Hungry
  <2> QED BY <2>4, <2>5
<1>13. SliceInv'
  BY <1>1, <1>5, <1>7, SlicesKept
<1> QED BY <1>6, <1>12, <1>13

\* A receive that is asked for later waits behind the others, or is late.
LEMMA LateSlices ==
    ASSUME PromiseInv, StateType, CallReceive
    PROVE  PromiseInv'
<1>1. PICK r \in Asked :
      /\ UNCHANGED <<cell, procLen, slices, rb, seen, callback, stream, phase>> /\ phase = "After"
      /\ pending' = Append(pending, r)
      /\ odd' = IF pending = <<>> THEN odd \cup {"late"} ELSE odd
  BY DEF CallReceive, conn, where, fixed, OnLoop
<1>2. pending \in Seq(ReceiveType) /\ r \in ReceiveType
  BY ScriptsAssumption DEF StateType, PromiseType, ReceiveType
<1>3. offered' = offered /\ Position' = Position
  BY <1>1 DEF offered, Position
<1>4. SliceInv => SliceInv'
  BY <1>1, <1>3, SlicesKept
<1>5. ASSUME pending # <<>>, Hungry PROVE Hungry'
  <2>1. Head(pending') = Head(pending)
    <3>1. pending[1] = Head(pending) /\ Len(pending) \in Nat /\ Len(pending) > 0
      BY <1>2, <1>5, LenProperties, HeadTailProperties
    <3>2. Append(pending, r)[1] = pending[1] /\ Append(pending, r) # <<>>
      BY <1>2, <3>1, AppendProperties
    <3> QED BY <1>1, <1>2, <3>1, <3>2, AppendProperties
  <2>2. front' = front /\ wanted' = wanted
    BY <1>1, <2>1 DEF front, wanted
  <2> HIDE DEF front, wanted
  <2> QED BY <1>1, <1>3, <1>5, <2>2 DEF Hungry, Spoken
<1>6. odd \subseteq odd' /\ (pending = <<>> => "late" \in odd')
  BY <1>1
<1>7. "overread" \notin odd' => "overread" \notin odd
  BY <1>6
<1>8. "late" \notin odd' => "late" \notin odd /\ pending # <<>>
  BY <1>6
<1> QED BY <1>1, <1>3, <1>4, <1>5, <1>7, <1>8 DEF PromiseInv

\* Handles are given successive slices of the stream, each up to the first
\* string it waits for or of the length asked for, and when the loop waits the
\* first receive needs more bytes than there are; but for receiveUntil on fewer
\* bytes than its string has, and a receive() after its bytes.
THEOREM HandlesGetSlices == Spec => []PromiseSlices
<1>1. Init => PromiseInv
  <2> SUFFICES ASSUME Init PROVE PromiseInv
    OBVIOUS
  <2>1. slices = <<>> /\ phase = "Wait" /\ seen = <<>> /\ rb = ox_buffer_new(InitialSize) /\ odd = {}
        /\ cell = 0
    BY DEF Init
  <2>2. SliceInv
    <3>1. Len(slices) = 0
      BY <2>1
    <3> QED BY <2>1, <3>1 DEF SliceInv
  <2>3. offered = 0
    BY <2>1 DEF offered, ox_buffer_new, ox_buffer_getreadvalidcount
  <2>4. ASSUME callback = "promise", pending # <<>> PROVE Hungry
    <3>1. StateType
      BY InitBytes DEF BytesInv
    <3>2. wanted \in Nat
      BY <2>4, <3>1, WantedType
    <3>3. wanted = 0 \/ offered < wanted
      BY <2>3, <3>2
    <3>4. Matches(Spoken(Len(seen), offered)) = {}
      <4> DEFINE f == Spoken(Len(seen), 0)
      <4>1. f = [i \in 1..0 |-> f[i]]
        BY DEF Spoken
      <4> HIDE DEF f
      <4>2. Len(f) = 0
        BY <4>1, FunLen
      <4>3. Matches(f) \subseteq 0..(0 - Len(Delim))
        BY <4>2 DEF Matches
      <4>4. 0..(0 - Len(Delim)) = {}
        BY DelimAssumption
      <4> QED BY <2>3, <4>3, <4>4 DEF f
    <3> QED BY <3>3, <3>4 DEF Hungry
  <2> QED BY <2>1, <2>2, <2>4 DEF PromiseInv
<1>2. BytesInv /\ PromiseInv /\ [Next]_vars => PromiseInv'
  BY StepsOfPromise, OffPromiseStep, ReadSlices, OtherSlices, ProcessSlices, ReturnSlices, LateSlices
     DEF BytesInv, PromiseStep
<1>3. BytesInv /\ PromiseInv => PromiseSlices
  <2> SUFFICES ASSUME BytesInv, PromiseInv, "overread" \notin odd PROVE PromiseSlices
    BY DEF PromiseSlices
  <2>1. StateType /\ StreamInv
    BY DEF BytesInv
  <2> DEFINE text == [k \in 1..Len(Readable(rb)) |-> stream[Readable(rb)[k]]]
  <2>2. ASSUME phase = "Wait", callback = "promise", pending # <<>>, "late" \notin odd
        PROVE  IF front.kind = "until" THEN Matches(text) = {} ELSE wanted = 0 \/ Len(text) < wanted
    <3>1. Hungry
      BY <2>2 DEF PromiseInv
    <3>2. text = Spoken(Len(seen), offered) /\ Len(text) = offered
      <4>1. rb \in BufferType /\ Holds(rb, Len(seen)) /\ offered = rb.write_pos - rb.read_pos
            /\ offered \in Nat
        BY <2>1, OfferedProps DEF StateType, ConnType, StreamInv
      <4>2. Len(Readable(rb)) = offered /\ \A i \in 1..offered : Readable(rb)[i] = Len(seen) + i
        BY <4>1, ReadableProps DEF Holds
      <4>3. text = Spoken(Len(seen), offered)
        BY <4>2 DEF Spoken
      <4>4. text = [i \in 1..offered |-> text[i]]
        BY <4>2
      <4> HIDE DEF text
      <4> QED BY <4>1, <4>3, <4>4, FunLen
    <3> HIDE DEF text, front, wanted
    <3> QED BY <3>1, <3>2 DEF Hungry
  <2>3. /\ \A i \in 1..Len(slices) : slices[i].kind = "until" =>
              memsearch(Spoken(slices[i].from, slices[i].len + Len(Delim))) = slices[i].len
        /\ \A i \in 1..(Len(slices) - 1) : slices[i + 1].from = Behind(slices[i])
    BY DEF PromiseInv, SliceInv
  <2>4. Len(slices) \in Nat
    BY <2>1, LenProperties DEF StateType, PromiseType
  <2>5. \A i \in 1..Len(slices) : i < Len(slices) => slices[i + 1].from = Behind(slices[i])
    BY <2>3, <2>4
  <2> QED BY <2>2, <2>3, <2>5 DEF PromiseSlices, Behind, Spoken
<1> QED BY <1>1, <1>2, <1>3, BytesInvariant, PTL DEF Spec
=============================================================================
