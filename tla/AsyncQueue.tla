----------------------------- MODULE AsyncQueue -----------------------------
(***************************************************************************)
(* What EventLoop promises the users of pushAsyncProc: the procs that are  *)
(* handed over from other threads wait in one queue, each is run exactly   *)
(* once, in the order in which it was accepted, and a proc that waits is   *)
(* eventually run as long as the loop is driven.                           *)
(* A proc is named by the number of the call that pushed it.               *)
(***************************************************************************)
EXTENDS Naturals, Sequences

VARIABLES
    pushed,     \* number of procs accepted so far
    pending,    \* accepted and not yet run, oldest first
    executed,   \* the procs run so far, in the order they ran
    driven      \* some thread still calls loop()

avars == <<pushed, pending, executed, driven>>

AInit ==
    /\ pushed = 0
    /\ pending = <<>>
    /\ executed = <<>>
    /\ driven = TRUE

\* pushAsyncProc accepts one proc.
APush ==
    /\ pushed' = pushed + 1
    /\ pending' = Append(pending, pushed + 1)
    /\ UNCHANGED <<executed, driven>>

\* The loop thread runs the oldest waiting proc.
ARun ==
    /\ pending # <<>>
    /\ executed' = Append(executed, Head(pending))
    /\ pending' = Tail(pending)
    /\ UNCHANGED <<pushed, driven>>

\* The owner of the loop stops driving it.
AStop ==
    /\ driven
    /\ driven' = FALSE
    /\ UNCHANGED <<pushed, pending, executed>>

ANext == APush \/ ARun \/ AStop

\* Weak fairness of a step that needs the loop to be driven: nothing is
\* promised to procs that wait when the loop is stopped.
ASpec ==
    /\ AInit
    /\ [][ANext]_avars
    /\ WF_avars(driven /\ ARun)
=============================================================================
