------------------------------- MODULE ByteFifo -------------------------------
(***************************************************************************)
(* What a uartBufControl_t (drivers/AZAP/lib/uart_buf_control.c) promises  *)
(* to the TTY poll callbacks and to the ZNP parser: a bounded first-in     *)
(* first-out store of bytes.  A block is stored whole or not at all, and   *)
(* what is taken out is the oldest bytes, each once.  There are no head    *)
(* and tail positions here: UartBuf.tla has them and implements this.      *)
(***************************************************************************)
EXTENDS Naturals, Sequences

CONSTANTS Capacity,   \* the argument of new_uartBufControl_t
          Byte        \* the values of a byte

VARIABLES fifo,       \* the stored bytes, oldest first
          out         \* every byte taken out so far, in order

vars == <<fifo, out>>

Init == fifo = <<>> /\ out = <<>>

\* put: a block of bytes that fits is appended.
Store ==
    /\ fifo' \in Seq(Byte)
    /\ Len(fifo) < Len(fifo') /\ Len(fifo') <= Capacity
    /\ SubSeq(fifo', 1, Len(fifo)) = fifo
    /\ UNCHANGED out

\* get: the n oldest bytes leave.
Remove(n) ==
    /\ n <= Len(fifo)
    /\ out' = out \o SubSeq(fifo, 1, n)
    /\ fifo' = SubSeq(fifo, n + 1, Len(fifo))

Next == Store \/ \E n \in 1..Capacity : Remove(n)

Spec == Init /\ [][Next]_vars

=============================================================================
