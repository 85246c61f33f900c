----------------------------- MODULE MCReceive ------------------------------
(* Constants of module Receive for model checking.                         *)
EXTENDS Receive

MCDelim == <<"c", "l">>

\* The string after a false start, and twice.
MCStreams == {<<"x", "c", "c", "l", "x">>, <<"c", "l", "c", "l", "x">>}

Until == [kind |-> "until", len |-> 0]
Length(n) == [kind |-> "len", len |-> n]
SharedLength == [kind |-> "cell", len |-> 0]

\* A line and a body whose length its handle sets; a fixed length and a line.
MCScripts == {<<Until, SharedLength>>, <<Length(1), Until>>}

\* A byte more, or another line.
MCAsked == {Length(1), Until}

\* What a behaviour may combine.  Of bytes and callbacks the heartbeat sees no
\* more than that something was read: two bytes and a plain callback are
\* enough.  PromiseReceive serves three receives, one of them kept by its
\* handle or asked for later.  Only choices of the user and of the peer are
\* cut, never a step that is fair.
Combined ==
    /\ timers # {} => callback # "promise" /\ sent <= 2
    /\ callback = "promise" => calls <= 1 /\ Len(pending) + Len(slices) <= 3
=============================================================================
