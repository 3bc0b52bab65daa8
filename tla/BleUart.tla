------------------------------ MODULE BleUart -------------------------------
(***************************************************************************)
(* The serial line from the ESP32 that scans for passengers' phones        *)
(* (BLE.ino) to the door ECU (ble_uart.c, ble_uart_tc375_lite.c), byte by  *)
(* byte: framing, checksum, acknowledgement, retransmission, suppression   *)
(* of duplicates, and the mailbox that doorEcuControlPollBleCommand        *)
(* empties.  Bytes are lost or damaged and either side may restart.        *)
(***************************************************************************)
EXTENDS Integers, Sequences

CONSTANTS
    Cmds,        \* commands the bridge may want, NOP among them
    SeqSize,     \* 256 in the code: sequence numbers are uint8_t
    RetryLimit,  \* BLE_UART_DEFAULT_RETRY_LIMIT
    BufferSize,  \* BLE_UART_TC375_ASC_RX_BUFFER_SIZE
    Cut,         \* bound: bytes of the line that a restart may spare
    MaxFaults,   \* bound: bytes lost or damaged, and turns in which the ECU did not poll
    MaxRestarts  \* bound: restarts of either side

SOF0 == 165
SOF1 == 90
DATA == 1
ACK == 2
FORCE == 255   \* g_last_queued_cmd: no command has this value
None == -1     \* no number, no command

Numbers == 0..(SeqSize - 1)
Byte == 0..255

VARIABLES
    esp,       \* sender, parser, g_last_queued_cmd and the place in loop()
    ecu,       \* receiver, parser, mailbox; taken: the last command consumed
    down, up,  \* bytes on the line and in the input buffer: to the ECU, to the ESP32.
               \* of, in them and in esp and ecu, is a ghost: the frame that a byte
               \* is the first of, the frame whose first byte a parser started on
    signal,    \* the command that follows from the phones seen within the hold time
    faults, restarts,
    fresh,     \* ghost: numbers started that the ECU has not delivered
    delivered, \* ghost: the command awaiting its ACK has been delivered
    excused    \* ghost: "sent", a number was used again while an older frame of that
               \* number was on the way; "known", while it was the ECU's last number or
               \* in an ACK on the way; "emptied", an ECU restart emptied a full mailbox

vars == <<esp, ecu, down, up, signal, faults, restarts, fresh, delivered, excused>>

-----------------------------------------------------------------------------
(* Commands, checksum and frames.                                          *)

MakeCmd(door, slope) == (door % 4) + 4 * (slope % 4)
CmdDoor(cmd) == cmd % 4
CmdSlope(cmd) == (cmd \div 4) % 4

\* Requests are NOP, OPEN and CLOSE: 0, 1 and 2.
CmdIsValid(cmd) == cmd < 16 /\ CmdDoor(cmd) <= 2 /\ CmdSlope(cmd) <= 2

\* The ESP32's copy of ble_uart.c knows no CLOSE.
EspCmdIsValid(cmd) == cmd < 16 /\ CmdDoor(cmd) <= 1 /\ CmdSlope(cmd) <= 1

\* What an advertisement is turned into: nothing, ramp, door, or both.
SignalCmds == {MakeCmd(door, slope) : door, slope \in 0..1}

ASSUME BleAssumption ==
    /\ MakeCmd(0, 0) \in Cmds /\ Cmds \subseteq SignalCmds
    /\ SeqSize \in 2..256
    /\ RetryLimit \in Nat /\ BufferSize \in Nat /\ Cut \in Nat
    /\ MaxFaults \in Nat /\ MaxRestarts \in Nat

XorHex == [x \in 0..15 |-> [y \in 0..15 |->
    LET bit(w) == w * ((x \div w + y \div w) % 2)
    IN bit(1) + bit(2) + bit(4) + bit(8)]]
Xor(x, y) == 16 * XorHex[x \div 16][y \div 16] + XorHex[x % 16][y % 16]

Shift == [x \in Byte |-> IF x >= 128 THEN Xor((x * 2) % 256, 7) ELSE x * 2]
CrcOf == [x \in Byte |-> Shift[Shift[Shift[Shift[Shift[Shift[Shift[Shift[x]]]]]]]]]

Crc8(type, seq, cmd) == CrcOf[Xor(CrcOf[Xor(CrcOf[type], seq)], cmd)]

Encode(type, seq, cmd) == <<SOF0, SOF1, type, seq, cmd, Crc8(type, seq, cmd)>>

\* The bytes a parser has accepted of the frame it is in.
FrameStart == <<SOF0, SOF1>>

ParserFeed(p, byte) ==
    IF Len(p) \in 2..4 THEN Append(p, byte)
    ELSE IF Len(p) = 1 /\ byte = SOF1 THEN FrameStart
    ELSE IF Len(p) <= 1 /\ byte = SOF0 THEN <<SOF0>>
    ELSE <<>>

\* Mutant: the checksum is not compared.
MutParsed(p, byte) == Len(p) = 5 /\ p[3] \in {DATA, ACK}

\* The byte completes a frame.
Parsed(p, byte) ==
    Len(p) = 5 /\ Crc8(p[3], p[4], p[5]) = byte /\ p[3] \in {DATA, ACK}

Frame(type, seq, cmd) == [type |-> type, seq |-> seq, cmd |-> cmd]
NoFrame == Frame(0, None, None)

\* The frame in a parser that has all but its checksum.
FrameIn(p) == Frame(p[3], p[4], p[5])

\* The frame whose first byte the parser started on, after one more byte.
Begun(p, of, x) ==
    IF x.b = SOF0 /\ Len(p) <= 1 THEN x.of
    ELSE IF Len(p) \in 1..4 /\ ParserFeed(p, x.b) # <<>> THEN of
    ELSE NoFrame

\* The end u of the line after the first byte of line.
Fed(u, line) ==
    [u EXCEPT !.parser = ParserFeed(u.parser, line[1].b), !.of = Begun(u.parser, u.of, line[1])]

\* What does not fit into the input buffer is lost.
Write(line, f) ==
    LET bytes == Encode(f.type, f.seq, f.cmd)
        all == line \o [i \in 1..6 |-> [b |-> bytes[i], of |-> IF i = 1 THEN f ELSE NoFrame]]
    IN SubSeq(all, 1, IF Len(all) < BufferSize THEN Len(all) ELSE BufferSize)

-----------------------------------------------------------------------------
Idle == [pc |-> "RX", waiting |-> FALSE, seq |-> 0, cmd |-> 0, retries |-> 0,
         aged |-> FALSE, next |-> 0, queued |-> FORCE, parser |-> <<>>, of |-> NoFrame]

Fresh == [parser |-> <<>>, of |-> NoFrame, last |-> None, mailbox |-> None, taken |-> None]

NOP == MakeCmd(0, 0)

Init ==
    /\ esp = Idle
    /\ ecu = Fresh
    /\ down = <<>> /\ up = <<>>
    /\ signal = NOP
    /\ faults = 0 /\ restarts = 0
    /\ fresh = {} /\ delivered = FALSE /\ excused = {}

\* Frames that end u has begun to parse or that may still come.
OnTheWay(u, line) == {u.of} \cup {line[i].of : i \in DOMAIN line}

NumbersOf(frames) == {f.seq : f \in frames \ {NoFrame}}

\* What a number that the sender starts to use would be mistaken for.
Mistakable(seq) ==
    (IF seq \in NumbersOf(OnTheWay(ecu, down)) THEN {"sent"} ELSE {})
    \cup (IF seq \in {ecu.last} \cup NumbersOf(OnTheWay(esp, up)) THEN {"known"} ELSE {})

-----------------------------------------------------------------------------
(* The ESP32: loop() is uartProcessRx, uartPollRetry, a scan of a second   *)
(* in which onResult may run, and uartTrySendDesiredState.                 *)

\* The frame ends the wait.
SenderOnFrame(e, f) == f.type = ACK /\ f.seq = e.seq

\* A byte of uartProcessRx.
ProcessRx ==
    /\ esp.pc = "RX" /\ up # <<>>
    /\ LET acked == Parsed(esp.parser, up[1].b) /\ SenderOnFrame(esp, FrameIn(esp.parser)) IN
       esp' = [Fed(esp, up) EXCEPT !.waiting = @ /\ ~acked]
    /\ up' = Tail(up)
    /\ UNCHANGED <<ecu, down, signal, faults, restarts, fresh, delivered, excused>>

Resend(e) ==
    /\ e.waiting /\ e.aged /\ e.retries < RetryLimit
    /\ esp' = [e EXCEPT !.retries = @ + 1, !.aged = FALSE]
    /\ down' = Write(down, Frame(DATA, e.seq, e.cmd))

\* Mutant: the command is not sent again after it has been given up.
MutGiveUp(e) ==
    /\ e.waiting /\ e.aged /\ e.retries = RetryLimit
    /\ esp' = [e EXCEPT !.waiting = FALSE]
    /\ down' = down

GiveUp(e) ==
    /\ e.waiting /\ e.aged /\ e.retries = RetryLimit
    /\ esp' = [e EXCEPT !.waiting = FALSE, !.queued = FORCE]
    /\ down' = down

NothingDue(e) == ~(e.waiting /\ e.aged) /\ esp' = e /\ down' = down

\* uartPollRetry, after the last byte.
PollRetry ==
    /\ esp.pc = "RX" /\ up = <<>>
    /\ LET e == [esp EXCEPT !.pc = "SCAN"] IN Resend(e) \/ GiveUp(e) \/ NothingDue(e)
    /\ UNCHANGED <<ecu, up, signal, faults, restarts, fresh, delivered, excused>>

MaySend(e, c) == ~e.waiting /\ c # e.queued /\ EspCmdIsValid(c)

\* Mutant: every attempt gets the number 0.
MutSenderStart(e, c) ==
    [e EXCEPT !.waiting = TRUE, !.seq = 0, !.cmd = c, !.retries = 0,
              !.aged = FALSE, !.next = (@ + 1) % SeqSize, !.queued = c]

SenderStart(e, c) ==
    [e EXCEPT !.waiting = TRUE, !.seq = e.next, !.cmd = c, !.retries = 0,
              !.aged = FALSE, !.next = (@ + 1) % SeqSize, !.queued = c]

\* Phones come into sight, or have not been seen for the hold time.
Detect(c) == signal' = c

\* The scan is longer than the acknowledgement timeout, and than a turn of the
\* ECU's loop: an ECU that has not polled by its end is a fault.
ScanAndSend(c) ==
    /\ esp.pc = "SCAN"
    /\ \/ down = <<>> /\ faults' = faults
       \/ down # <<>> /\ faults < MaxFaults /\ faults' = faults + 1
    /\ Detect(c)
    /\ LET e == [esp EXCEPT !.pc = "RX", !.aged = TRUE] IN
       IF MaySend(e, c)
       THEN /\ esp' = SenderStart(e, c)
            /\ down' = Write(down, Frame(DATA, e.next, c))
            /\ fresh' = fresh \cup {e.next}
            /\ delivered' = FALSE
            /\ excused' = excused \cup Mistakable(e.next)
       ELSE esp' = e /\ UNCHANGED <<down, fresh, delivered, excused>>
    /\ UNCHANGED <<ecu, up, restarts>>

\* Bytes that come in during a restart are lost, the last ones may come later.
LeftBy(line) ==
    {<<>>} \cup {SubSeq(line, Len(line) + 1 - n, Len(line)) : n \in {Cut} \cap 1..Len(line)}

\* setup().
EspRestart ==
    /\ restarts < MaxRestarts
    /\ esp' = Idle
    /\ up' \in LeftBy(up)
    /\ restarts' = restarts + 1
    /\ UNCHANGED <<ecu, down, signal, faults, fresh, delivered, excused>>

-----------------------------------------------------------------------------
(* The door ECU.                                                           *)

\* Mutant: the number of the last command is not kept.
MutDeliver(u, seq, cmd) == [u EXCEPT !.mailbox = cmd]

Deliver(u, seq, cmd) == [u EXCEPT !.last = seq, !.mailbox = cmd]

\* A duplicate is acknowledged and not delivered.
ReceiverOnFrame(u, f) == IF f.seq # u.last THEN Deliver(u, f.seq, f.cmd) ELSE u

\* Frames with a command for the ECU are answered, the others are not.
Accepted(f) == f.type = DATA /\ CmdIsValid(f.cmd)

\* A byte of bleUartTc375Poll.
EcuPoll ==
    /\ down # <<>>
    /\ LET f == FrameIn(ecu.parser)
           new == {f.seq} \ {ecu.last}
       IN IF Parsed(ecu.parser, down[1].b) /\ Accepted(f)
          THEN /\ ecu' = ReceiverOnFrame(Fed(ecu, down), f)
               /\ up' = Write(up, Frame(ACK, f.seq, 0))
               /\ fresh' = fresh \ new
               /\ delivered' = (delivered \/ esp.seq \in new)
          ELSE ecu' = Fed(ecu, down) /\ UNCHANGED <<up, fresh, delivered>>
    /\ down' = Tail(down)
    /\ UNCHANGED <<esp, signal, faults, restarts, excused>>

ConsumeCmd ==
    /\ ecu.mailbox # None
    /\ ecu' = [ecu EXCEPT !.taken = ecu.mailbox, !.mailbox = None]
    /\ UNCHANGED <<esp, down, up, signal, faults, restarts, fresh, delivered, excused>>

\* bleUartTc375Init; taken is kept, as a mark of what has been carried out.
EcuRestart ==
    /\ restarts < MaxRestarts
    /\ ecu' = [Fresh EXCEPT !.taken = ecu.taken]
    /\ down' \in LeftBy(down)
    /\ restarts' = restarts + 1
    /\ fresh' = Numbers
    /\ excused' = IF ecu.mailbox # None THEN excused \cup {"emptied"} ELSE excused
    /\ UNCHANGED <<esp, up, signal, faults, delivered>>

-----------------------------------------------------------------------------
(* The line: a byte disappears, or changes into another one.               *)

Damages(line, b) ==
    {[line EXCEPT ![i] = [b |-> b, of |-> NoFrame]] : i \in {j \in DOMAIN line : line[j].b # b}}

Damaged(line) ==
    {SubSeq(line, 1, i - 1) \o SubSeq(line, i + 1, Len(line)) : i \in DOMAIN line}
        \cup Damages(line, SOF0) \cup Damages(line, 255)

Noise ==
    /\ faults < MaxFaults
    /\ faults' = faults + 1
    /\ \/ down' \in Damaged(down) /\ up' = up
       \/ up' \in Damaged(up) /\ down' = down
    /\ UNCHANGED <<esp, ecu, signal, restarts, fresh, delivered, excused>>

Next ==
    \/ ProcessRx
    \/ PollRetry
    \/ \E c \in Cmds : ScanAndSend(c)
    \/ EspRestart
    \/ EcuPoll
    \/ ConsumeCmd
    \/ EcuRestart
    \/ Noise

Spec == Init /\ [][Next]_vars

\* Both loops turn.
Fairness ==
    /\ WF_vars(ProcessRx) /\ WF_vars(PollRetry)
    /\ WF_vars(\E c \in Cmds : ScanAndSend(c))
    /\ WF_vars(EcuPoll)
    /\ WF_vars(ConsumeCmd)

FairSpec == Spec /\ Fairness

-----------------------------------------------------------------------------
(* Properties.                                                             *)

\* A frame that an end takes for whole is the one whose first byte it started on:
\* the checksum tells what noise, overflow and restarts have made of the bytes.
Genuine ==
    /\ down # <<>> /\ Parsed(ecu.parser, down[1].b) => ecu.of = FrameIn(ecu.parser)
    /\ up # <<>> /\ Parsed(esp.parser, up[1].b) => esp.of = FrameIn(esp.parser)

\* In particular the mailbox holds valid commands only, whatever the line does.
TypeOK ==
    /\ esp.pc \in {"RX", "SCAN"} /\ esp.waiting \in BOOLEAN /\ esp.aged \in BOOLEAN
    /\ esp.seq \in Numbers /\ esp.next \in Numbers /\ esp.cmd \in Cmds
    /\ esp.retries \in 0..RetryLimit /\ esp.queued \in Cmds \cup {FORCE}
    /\ Len(esp.parser) <= 5 /\ Len(ecu.parser) <= 5
    /\ ecu.last \in Numbers \cup {None}
    /\ ecu.mailbox \in Cmds \cup {None} /\ ecu.taken \in Cmds \cup {None}
    /\ Len(down) <= BufferSize /\ Len(up) <= BufferSize
    /\ signal \in Cmds /\ fresh \subseteq Numbers
    /\ Genuine

(* An acknowledgement that ends the wait belongs to a command that the ECU *)
(* has delivered, be it late or of an earlier transmission.                *)
AckMeansDelivered ==
    [][esp.waiting /\ ~esp'.waiting /\ esp'.queued # FORCE
           => delivered \/ "known" \in excused]_vars

(* What fills the mailbox has not been in it before: a command is          *)
(* delivered once however often its frame comes, until a restart makes the *)
(* ECU forget.                                                             *)
DeliveredOnce ==
    [][ecu.mailbox = None /\ ecu'.mailbox # None => fresh' # fresh \/ "sent" \in excused]_vars

(* A request that stays in sight becomes the command the ECU acts on, with *)
(* bytes lost, attempts given up and either side restarted.                *)
RequestReaches ==
    \A c \in Cmds : <>[](signal = c) => <>[](ecu.taken = c) \/ <>(excused # {})
=============================================================================
