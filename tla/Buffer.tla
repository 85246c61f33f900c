------------------------------- MODULE Buffer -------------------------------
(***************************************************************************)
(* The receive buffer of utils/buffer.c as operators on a record.  data is *)
(* the allocated memory, so its length is data_len; positions count from 0 *)
(* as in the source.  Fresh memory holds Junk.                             *)
(***************************************************************************)
EXTENDS Integers, Sequences

Junk == 0

ox_buffer_new(n) == [data |-> [i \in 1..n |-> Junk], write_pos |-> 0, read_pos |-> 0]

ox_buffer_getsize(b) == Len(b.data)
ox_buffer_getreadvalidcount(b) == b.write_pos - b.read_pos
ox_buffer_getwritevalidcount(b) == ox_buffer_getsize(b) - b.write_pos

\* What the data callback sees from ox_buffer_getreadptr on.
Readable(b) == SubSeq(b.data, b.read_pos + 1, b.write_pos)

\* Positions past the end are refused silently.
ox_buffer_addwritepos(b, n) ==
    IF b.write_pos + n <= ox_buffer_getsize(b) THEN [b EXCEPT !.write_pos = @ + n] ELSE b

ox_buffer_addreadpos(b, n) ==
    IF b.read_pos + n <= ox_buffer_getsize(b) THEN [b EXCEPT !.read_pos = @ + n] ELSE b

\* Copying bytes to ox_buffer_getwriteptr, by recv or by memcpy.
Store(b, bytes) ==
    [b EXCEPT !.data = [i \in DOMAIN @ |->
        IF i > b.write_pos /\ i <= b.write_pos + Len(bytes) THEN bytes[i - b.write_pos] ELSE @[i]]]

\* The read position is reset but the bytes stay where they are.
ox_buffer_adjustto_head_NoMove(b) ==
    [b EXCEPT !.read_pos = 0, !.write_pos = ox_buffer_getreadvalidcount(b)]

\* memmove of what is still unread to the front of the memory.
ox_buffer_adjustto_head(b) ==
    IF b.read_pos = 0 THEN b
    ELSE LET len == ox_buffer_getreadvalidcount(b) IN
         [data |-> [i \in DOMAIN b.data |->
                        IF i <= len THEN b.data[b.read_pos + i] ELSE b.data[i]],
          write_pos |-> len, read_pos |-> 0]

\* Room behind the data first, then room in front of it, else nothing is written.
ox_buffer_write(b, bytes) ==
    LET Put(c) == ox_buffer_addwritepos(Store(c, bytes), Len(bytes)) IN
    IF ox_buffer_getwritevalidcount(b) >= Len(bytes) THEN Put(b)
    ELSE IF ox_buffer_getsize(b) - ox_buffer_getreadvalidcount(b) >= Len(bytes)
         THEN Put(ox_buffer_adjustto_head(b))
         ELSE b
=============================================================================
