-------------------------------- MODULE UartBuf --------------------------------
(***************************************************************************)
(* The receive side of the UART of a ZigBee port (drivers/AZAP/lib):       *)
(* uart_buf_control.c's circular buffer and the parser getNextZNPMsg, fed  *)
(* by portContextRequestPollCb (port_context.c) and drained by             *)
(* processRxMsg on every tick of the main loop.  One thread runs both, so  *)
(* a call of getNextZNPMsg is not interrupted by a read: rxBusy says that  *)
(* its while loop is running.                                              *)
(*                                                                         *)
(* A ZNP frame is SOF, LEN, CMD0, CMD1, LEN bytes of data and the FCS.     *)
(* The FCS has no effect on what the parser does (a wrong one is only      *)
(* traced, the message is delivered all the same), so it is one more byte. *)
(*                                                                         *)
(* The dongle and the serial line are external: the line may corrupt the   *)
(* stream by a bounded number of lost or spurious bytes.                   *)
(***************************************************************************)
EXTENDS Integers, Sequences, FiniteSets

CONSTANTS Size,        \* the argument of new_uartBufControl_t (512 in startZnp)
          Byte,        \* the values of a byte, numbers
          SOF,         \* MT_UART_SOF
          Frames,      \* the frames the dongle sends, sequences of bytes
          ReadMax,     \* the most bytes one read returns (255)
          MaxFrames,   \* bound: the number of frames sent
          MaxNoise     \* bound: the number of bytes lost or invented by the
                       \* line and of reads that fail

\* A whole payload and its FCS fit in the buffer (256 bytes in 512).
ASSUME SizeAssumption ==
    /\ Size \in Nat \ {0}
    /\ Byte \subseteq Nat
    /\ SOF \in Byte /\ 0 \in Byte /\ SOF # 0
    /\ \A b \in Byte : b + 1 <= Size
    /\ ReadMax \in Nat \ {0}
    /\ MaxFrames \in Nat /\ MaxNoise \in Nat

\* The dongle sends well-formed frames.
ASSUME FramesAssumption ==
    /\ Frames \subseteq Seq(Byte)
    /\ \A f \in Frames : Len(f) >= 5 /\ f[1] = SOF /\ Len(f) = f[2] + 5

VARIABLES
    bufHead, bufTail, pBuffer,                           \* the circular buffer
    statePending, lenPending, cmd0Pending, cmd1Pending,  \* the parser
    expired,      \* now - startDate >= 5000
    rxBusy,       \* inside the while loop of getNextZNPMsg
    wire,         \* external: the bytes the TTY has not returned yet
    noise,        \* external: the faults of the line so far
    sent,         \* history: the bytes sent by the dongle
    sentEnds,     \* history: the positions in sent where a frame ends
    taken,        \* history: every byte that left the buffer
    delivered,    \* history: the bytes of the frames returned by getNextZNPMsg
    deliveredEnds,\* history: the positions in delivered where a frame ends
    clean         \* history: nothing lost, invented, refused or abandoned yet

ring == <<bufHead, bufTail, pBuffer>>
parser == <<statePending, lenPending, cmd0Pending, cmd1Pending>>
dongle == <<sent, sentEnds>>
result == <<delivered, deliveredEnds>>
vars == <<ring, parser, expired, rxBusy, wire, noise, dongle, taken, result, clean>>

-----------------------------------------------------------------------------
(* The circular buffer *)

\* One byte more than asked for, so that a full buffer is not an empty one.
bufSize == Size + 1
Index == 0..(bufSize - 1)

getBufferedSize ==
    IF bufTail - bufHead < 0 THEN bufTail - bufHead + bufSize ELSE bufTail - bufHead

\* The room test of put with the spare byte counted in.
FitsWithoutSpare(n) == bufSize - getBufferedSize >= n

\* put stores all or none.
Fits(n) == bufSize - getBufferedSize - 1 >= n

\* A block that ends at the end of the buffer leaves the tail there.
putNoWrap(block) ==
    LET len == Len(block)
        l   == bufSize - bufTail
    IN IF bufHead > bufTail \/ l >= len
       THEN /\ pBuffer' = [i \in Index |-> IF i \in bufTail..(bufTail + len - 1)
                                           THEN block[i - bufTail + 1] ELSE pBuffer[i]]
            /\ bufTail' = bufTail + len
            /\ UNCHANGED bufHead
       ELSE /\ pBuffer' = [i \in Index |-> IF i >= bufTail THEN block[i - bufTail + 1]
                                           ELSE IF i < len - l THEN block[l + i + 1]
                                           ELSE pBuffer[i]]
            /\ bufTail' = len - l
            /\ UNCHANGED bufHead

put(block) ==
    LET len == Len(block)
        l   == bufSize - bufTail
    IN IF bufHead > bufTail \/ l >= len
       THEN /\ pBuffer' = [i \in Index |-> IF i \in bufTail..(bufTail + len - 1)
                                           THEN block[i - bufTail + 1] ELSE pBuffer[i]]
            /\ bufTail' = IF bufTail + len = bufSize THEN 0 ELSE bufTail + len
            /\ UNCHANGED bufHead
       ELSE /\ pBuffer' = [i \in Index |-> IF i >= bufTail THEN block[i - bufTail + 1]
                                           ELSE IF i < len - l THEN block[l + i + 1]
                                           ELSE pBuffer[i]]
            /\ bufTail' = len - l
            /\ UNCHANGED bufHead

\* Where get leaves the head.
headAfter(n) ==
    IF bufTail > bufHead \/ bufSize - bufHead >= n
    THEN IF bufHead + n = bufSize THEN 0 ELSE bufHead + n
    ELSE n - (bufSize - bufHead)

\* The bytes get copies out, in one or two memcpy.
copyOut(n) ==
    LET l == bufSize - bufHead
    IN [i \in 1..n |-> IF bufTail > bufHead \/ l >= n \/ i <= l
                       THEN pBuffer[bufHead + i - 1] ELSE pBuffer[i - l - 1]]

\* get takes n bytes, of which there are enough.
get(n) ==
    /\ bufHead' = headAfter(n)
    /\ taken' = taken \o copyOut(n)
    /\ UNCHANGED <<bufTail, pBuffer>>

\* What is stored, oldest first.
Content == [i \in 1..getBufferedSize |-> pBuffer[(bufHead + i - 1) % bufSize]]

-----------------------------------------------------------------------------
(* The dongle and the line, external *)

DongleSends(f) ==
    /\ Cardinality(sentEnds) < MaxFrames
    /\ sent' = sent \o f
    /\ sentEnds' = sentEnds \cup {Len(sent')}
    /\ wire' = wire \o f
    /\ UNCHANGED <<ring, parser, expired, rxBusy, noise, taken, result, clean>>

\* The line loses the next byte.
LineLoses ==
    /\ noise < MaxNoise /\ wire # <<>>
    /\ wire' = Tail(wire)
    /\ noise' = noise + 1
    /\ clean' = FALSE
    /\ UNCHANGED <<ring, parser, expired, rxBusy, dongle, taken, result>>

\* A byte the dongle did not send: the bell answers of the boot loader are
\* such bytes (jumpZnp), and so is what a glitch makes.
LineInvents(b) ==
    /\ noise < MaxNoise
    /\ wire' = <<b>> \o wire
    /\ noise' = noise + 1
    /\ clean' = FALSE
    /\ UNCHANGED <<ring, parser, expired, rxBusy, dongle, taken, result>>

\* Five seconds pass after the start of the frame being parsed.
FiveSecondsPass ==
    /\ statePending # "ST_WAITING_SOP"
    /\ ~expired
    /\ expired' = TRUE
    /\ UNCHANGED <<ring, parser, rxBusy, wire, noise, dongle, taken, result, clean>>

-----------------------------------------------------------------------------
(* portContextRequestPollCb, POLLIN: the bytes read are put in rx; when    *)
(* they do not fit they are lost, with a trace.                            *)

ReadTty(n) ==
    /\ ~rxBusy
    /\ n \in 1..ReadMax /\ n <= Len(wire)
    /\ wire' = SubSeq(wire, n + 1, Len(wire))
    /\ IF Fits(n)
       THEN put(SubSeq(wire, 1, n)) /\ UNCHANGED clean
       ELSE clean' = FALSE /\ UNCHANGED ring
    /\ UNCHANGED <<parser, expired, rxBusy, noise, dongle, taken, result>>

\* A read that fails: -1 is 255 in the 8 bits of len, and 255 bytes of the
\* cleared array are put.
ReadFails ==
    /\ ~rxBusy
    /\ noise < MaxNoise /\ noise' = noise + 1
    /\ IF Fits(ReadMax) THEN put([i \in 1..ReadMax |-> 0]) ELSE UNCHANGED ring
    /\ clean' = FALSE
    /\ UNCHANGED <<parser, expired, rxBusy, wire, dongle, taken, result>>

-----------------------------------------------------------------------------
(* getNextZNPMsg *)

\* A frame that never ends is waited for without limit.
EnterWithoutTimeout ==
    /\ ~rxBusy /\ rxBusy' = TRUE
    /\ UNCHANGED <<parser, clean>>
    /\ UNCHANGED <<ring, expired, wire, noise, dongle, taken, result>>

\* A frame begun more than five seconds ago is given up.
Enter ==
    /\ ~rxBusy /\ rxBusy' = TRUE
    /\ IF statePending # "ST_WAITING_SOP" /\ expired
       THEN statePending' = "ST_WAITING_SOP" /\ clean' = FALSE
       ELSE UNCHANGED <<statePending, clean>>
    /\ UNCHANGED <<lenPending, cmd0Pending, cmd1Pending>>
    /\ UNCHANGED <<ring, expired, wire, noise, dongle, taken, result>>

\* Nothing is left to read: the while loop ends and no message is returned.
LeaveEmpty ==
    /\ rxBusy /\ getBufferedSize = 0
    /\ rxBusy' = FALSE
    /\ UNCHANGED <<ring, parser, expired, wire, noise, dongle, taken, result, clean>>

\* One turn of the loop that reads one byte in state s.
Turn(s) ==
    /\ rxBusy /\ getBufferedSize > 0
    /\ statePending = s
    /\ get(1)
    /\ UNCHANGED <<rxBusy, wire, noise, dongle, result, clean>>

WaitingSop ==
    /\ Turn("ST_WAITING_SOP")
    /\ IF copyOut(1)[1] = SOF
       THEN statePending' = "ST_WAITING_LEN" /\ expired' = FALSE
       ELSE UNCHANGED <<statePending, expired>>
    /\ UNCHANGED <<lenPending, cmd0Pending, cmd1Pending>>

WaitingLen ==
    /\ Turn("ST_WAITING_LEN")
    /\ lenPending' = copyOut(1)[1]
    /\ statePending' = "ST_WAITING_CMD0"
    /\ UNCHANGED <<cmd0Pending, cmd1Pending, expired>>

WaitingCmd0 ==
    /\ Turn("ST_WAITING_CMD0")
    /\ cmd0Pending' = copyOut(1)[1]
    /\ statePending' = "ST_WAITING_CMD1"
    /\ UNCHANGED <<lenPending, cmd1Pending, expired>>

WaitingCmd1 ==
    /\ Turn("ST_WAITING_CMD1")
    /\ cmd1Pending' = copyOut(1)[1]
    /\ statePending' = "ST_WAITING_DATA_AND_FCS"
    /\ UNCHANGED <<lenPending, cmd0Pending, expired>>

\* The frame read so far, without the data.
Header == <<SOF, lenPending, cmd0Pending, cmd1Pending>>

\* The data is taken as soon as it is there, the FCS not waited for: get
\* fails on the FCS, and the message is returned without it.
DataWithoutFcs ==
    /\ rxBusy /\ getBufferedSize > 0
    /\ statePending = "ST_WAITING_DATA_AND_FCS"
    /\ rxBusy' = FALSE
    /\ IF getBufferedSize >= lenPending
       THEN /\ get(lenPending)
            /\ delivered' = delivered \o Header \o copyOut(lenPending)
            /\ deliveredEnds' = deliveredEnds \cup {Len(delivered')}
            /\ statePending' = "ST_WAITING_SOP"
       ELSE UNCHANGED <<ring, taken, result, statePending>>
    /\ UNCHANGED <<lenPending, cmd0Pending, cmd1Pending, expired, wire, noise, dongle, clean>>

\* One byte more than the data and the FCS is waited for.
DataWaitsForMore ==
    /\ rxBusy /\ getBufferedSize > 0
    /\ statePending = "ST_WAITING_DATA_AND_FCS"
    /\ rxBusy' = FALSE
    /\ IF getBufferedSize >= lenPending + 2
       THEN /\ get(lenPending + 1)
            /\ delivered' = delivered \o Header \o copyOut(lenPending + 1)
            /\ deliveredEnds' = deliveredEnds \cup {Len(delivered')}
            /\ statePending' = "ST_WAITING_SOP"
       ELSE UNCHANGED <<ring, taken, result, statePending>>
    /\ UNCHANGED <<lenPending, cmd0Pending, cmd1Pending, expired, wire, noise, dongle, clean>>

\* Data and FCS are taken together or left for the next call; the loop stops
\* in both cases.  The gets of the data and of the FCS are one.
WaitingDataAndFcs ==
    /\ rxBusy /\ getBufferedSize > 0
    /\ statePending = "ST_WAITING_DATA_AND_FCS"
    /\ rxBusy' = FALSE
    /\ IF getBufferedSize >= lenPending + 1
       THEN /\ get(lenPending + 1)
            /\ delivered' = delivered \o Header \o copyOut(lenPending + 1)
            /\ deliveredEnds' = deliveredEnds \cup {Len(delivered')}
            /\ statePending' = "ST_WAITING_SOP"
       ELSE UNCHANGED <<ring, taken, result, statePending>>
    /\ UNCHANGED <<lenPending, cmd0Pending, cmd1Pending, expired, wire, noise, dongle, clean>>

-----------------------------------------------------------------------------

Init ==
    /\ bufHead = 0 /\ bufTail = 0
    /\ pBuffer = [i \in Index |-> CHOOSE b \in Byte : b # SOF]
    /\ statePending = "ST_WAITING_SOP"
    /\ lenPending = 0 /\ cmd0Pending = 0 /\ cmd1Pending = 0
    /\ expired = FALSE /\ rxBusy = FALSE
    /\ wire = <<>> /\ noise = 0
    /\ sent = <<>> /\ sentEnds = {} /\ taken = <<>>
    /\ delivered = <<>> /\ deliveredEnds = {}
    /\ clean = TRUE

getNextZNPMsg ==
    \/ Enter \/ LeaveEmpty
    \/ WaitingSop \/ WaitingLen \/ WaitingCmd0 \/ WaitingCmd1 \/ WaitingDataAndFcs

ReadSome == \E n \in 1..ReadMax : ReadTty(n)

Next ==
    \/ \E f \in Frames : DongleSends(f)
    \/ LineLoses
    \/ \E b \in Byte : LineInvents(b)
    \/ FiveSecondsPass
    \/ ReadSome \/ ReadFails
    \/ getNextZNPMsg

\* The main loop polls the TTY between any two calls of azapClockMs, for
\* ever, hence strong fairness of the read.  The dongle and the line owe
\* nothing.
Fairness == SF_vars(ReadSome) /\ WF_vars(getNextZNPMsg)

Spec == Init /\ [][Next]_vars
FairSpec == Spec /\ Fairness

-----------------------------------------------------------------------------
(* Properties *)

TypeOK ==
    /\ bufHead \in Index /\ bufTail \in Index
    /\ pBuffer \in [Index -> Byte]
    /\ statePending \in {"ST_WAITING_SOP", "ST_WAITING_LEN", "ST_WAITING_CMD0",
                         "ST_WAITING_CMD1", "ST_WAITING_DATA_AND_FCS"}
    /\ lenPending \in Byte /\ cmd0Pending \in Byte /\ cmd1Pending \in Byte
    /\ expired \in BOOLEAN /\ rxBusy \in BOOLEAN /\ clean \in BOOLEAN
    /\ wire \in Seq(Byte) /\ taken \in Seq(Byte) /\ noise \in 0..MaxNoise
    /\ sent \in Seq(Byte) /\ delivered \in Seq(Byte)
    /\ sentEnds \subseteq 1..Len(sent) /\ deliveredEnds \subseteq 1..Len(delivered)

\* The bytes of the frame being parsed.
Partial ==
    CASE statePending = "ST_WAITING_SOP"  -> <<>>
      [] statePending = "ST_WAITING_LEN"  -> <<SOF>>
      [] statePending = "ST_WAITING_CMD0" -> <<SOF, lenPending>>
      [] statePending = "ST_WAITING_CMD1" -> <<SOF, lenPending, cmd0Pending>>
      [] OTHER                            -> Header

\* As long as nothing was lost, invented, refused or abandoned, what
\* getNextZNPMsg has returned, the frame it is parsing, the buffer and the
\* bytes still in the TTY are together what the dongle sent, in order: no
\* byte is skipped at the wrap of the buffer or between two calls.  And every
\* message returned is one frame sent, no more and no less.
NothingLost ==
    clean => /\ delivered \o Partial \o Content \o wire = sent
             /\ deliveredEnds = {e \in sentEnds : e <= Len(delivered)}

\* The circular buffer is a bounded first-in first-out store of bytes: what
\* put accepts comes out of get once and in order, whatever the line does.
Fifo == INSTANCE ByteFifo WITH
            Capacity <- Size, fifo <- Content, out <- taken

BufferIsFifo == Fifo!Spec

\* Without a fault every frame the dongle sends is returned by getNextZNPMsg,
\* however the TTY cuts it into reads: time and again none is missing.  The
\* clock is not fair, so the five seconds need never be over: no frame is
\* waited for until the time-out has given it up, and the last one does not
\* wait for the next.
FramesArrive == []<>(Len(delivered) = Len(sent) \/ ~clean)

\* A frame whose end never comes does not block the link: if time passes, the
\* parser comes back to looking for a start of packet, whatever bytes were
\* lost.
NeverWedged ==
    WF_vars(FiveSecondsPass) => []<>(statePending = "ST_WAITING_SOP")

=============================================================================
