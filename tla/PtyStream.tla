------------------------------ MODULE PtyStream ------------------------------
(***************************************************************************)
(* What `PtySession::read_output` promises its caller, with the kernel     *)
(* buffer, the reader thread and the output channel taken away: one FIFO   *)
(* stream of the units the target wrote, followed by an end-of-stream that *)
(* is reported only after every unit, and that nothing ever follows.       *)
(*                                                                         *)
(* A unit is what one `read` of the PTY master returns.                    *)
(***************************************************************************)
EXTENDS Naturals, Sequences

VARIABLES
    produced,  \* every unit the target has written, in order
    received,  \* every unit `read_output` has returned, in order
    closed,    \* no process holds the slave side open any more
    ended      \* `read_output` has reported Output::Eof

vars == <<produced, received, closed, ended>>

Init ==
    /\ produced = <<>>
    /\ received = <<>>
    /\ closed = FALSE
    /\ ended = FALSE

\* The target writes a unit: the next natural number names it.
Produce ==
    /\ ~closed
    /\ produced' = Append(produced, Len(produced) + 1)
    /\ UNCHANGED <<received, closed, ended>>

\* Output::Data: the caller gets the oldest unit it has not seen.
Receive ==
    /\ ~ended
    /\ Len(received) < Len(produced)
    /\ received' = Append(received, produced[Len(received) + 1])
    /\ UNCHANGED <<produced, closed, ended>>

\* The last process holding the slave closes it or dies.
Close ==
    /\ closed' = TRUE
    /\ UNCHANGED <<produced, received, ended>>

\* Output::Eof: only once the slave is closed and everything was delivered.
End ==
    /\ closed
    /\ received = produced
    /\ ended' = TRUE
    /\ UNCHANGED <<produced, received, closed>>

Next == Produce \/ Receive \/ Close \/ End

Spec == Init /\ [][Next]_vars
=============================================================================
