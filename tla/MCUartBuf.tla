------------------------------ MODULE MCUartBuf ------------------------------
(* UartBuf for TLC: bytes 0, 1 and 3 with 3 as start of frame, and two     *)
(* frames, one without data and one whose data looks like a start of frame. *)
EXTENDS UartBuf

const_Byte == {0, 1, 3}
const_Frames == { <<3, 0, 1, 0, 1>>, <<3, 1, 0, 0, 3, 1>> }

=============================================================================
