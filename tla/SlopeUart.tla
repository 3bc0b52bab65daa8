------------------------------ MODULE SlopeUart ------------------------------
(***************************************************************************)
(* The slope UART protocol: the stop-and-wait sender and the receiver of   *)
(* slope_uart.c, joined by two lossy FIFO byte lines, and the adapter of   *)
(* slope_uart_tc375_lite.c that doorEcuControlPoll drives.  A frame whose  *)
(* bytes are lost or damaged does not come out of slopeUartParserFeed, so  *)
(* frames are whole here, and lost or not.                                 *)
(***************************************************************************)
EXTENDS Integers, Sequences

CONSTANTS
    SeqMod,     \* sequence numbers, 256 in a uint8_t
    RetryLimit, \* SLOPE_UART_DEFAULT_RETRY_LIMIT
    MaxGiveUps, \* how often in a row one command is given up, at most
    LineFrames  \* frames a line holds, UART buffers included

ASSUME UartAssumption ==
    /\ SeqMod \in Nat /\ SeqMod > 1
    /\ RetryLimit \in Nat \ {0}
    /\ MaxGiveUps \in Nat
    /\ LineFrames \in Nat \ {0}

\* No old frame or ACK is still on its way when its number comes up again.
ASSUME SeqAssumption == MaxGiveUps + 2 <= SeqMod

VARIABLES
    phase,       \* where doorEcuControlPoll stands with the adapter
    waiting_ack, pending_seq, retry_count, next_seq, \* SlopeUartSender
    desired, lastQueued, inflight, txSuccess,        \* the adapter
    has_last_seq, last_seq, ramp,                    \* the slope ECU
    data,        \* DATA frames on their way to the slope ECU
    acks,        \* sequence numbers of the ACK frames on their way back
    reached,     \* ghost: the slope ECU has processed the pending frame
    giveUps      \* ghost: give-ups since the last success

senderVars == <<waiting_ack, pending_seq, retry_count, next_seq>>
adapterVars == <<desired, lastQueued, inflight, txSuccess>>
receiverVars == <<has_last_seq, last_seq, ramp>>
vars == <<phase, senderVars, adapterVars, receiverVars, data, acks, reached, giveUps>>

Link == INSTANCE SlopeTx WITH busy <- waiting_ack

Cmd == {"NONE", "OPEN", "CLOSE"}
SeqNo == 0..(SeqMod - 1)
Frame == [seq : SeqNo, cmd : Cmd]

\* The slope ECU may have been running before the door ECU started.
Init ==
    /\ phase = "rx"
    /\ waiting_ack = FALSE
    /\ pending_seq = 0
    /\ retry_count = 0
    /\ next_seq = 0
    /\ desired = "NONE"
    /\ lastQueued = "FORCE"
    /\ inflight = "NONE"
    /\ txSuccess = "EMPTY"
    /\ has_last_seq \in BOOLEAN
    /\ last_seq \in IF has_last_seq THEN SeqNo ELSE {0}
    /\ ramp = "CLOSE"
    /\ data = <<>>
    /\ acks = <<>>
    /\ reached = FALSE
    /\ giveUps = 0

-----------------------------------------------------------------------------
(* The lines.                                                              *)

\* The last transmission of the last attempt, and its ACK, are not lost: the
\* line is never dead for longer than MaxGiveUps + 1 attempts.
Lossy == giveUps < MaxGiveUps \/ retry_count < RetryLimit

\* A writer waits for room in a line.
Put(line, frame) == Len(line) < LineFrames /\ line' = Append(line, frame)

WriteFrame(frame, lossy) == Put(data, frame) \/ (lossy /\ UNCHANGED data)

-----------------------------------------------------------------------------
(* The adapter and its sender, in the order of slopeUartTc375TxPoll.       *)

\* Mutant: any ACK will do.
MutSenderOnFrame(seq) == waiting_ack

SenderOnFrame(seq) == waiting_ack /\ seq = pending_seq

\* One ACK read by slopeUartTc375ProcessRx.
ProcessAck ==
    /\ phase = "rx"
    /\ acks # <<>>
    /\ acks' = Tail(acks)
    /\ IF SenderOnFrame(Head(acks))
       THEN /\ waiting_ack' = FALSE
            /\ txSuccess' = inflight
            /\ desired' = "NONE"
            /\ lastQueued' = "NONE"
            /\ giveUps' = 0
            /\ UNCHANGED inflight
       ELSE UNCHANGED <<waiting_ack, adapterVars, giveUps>>
    /\ UNCHANGED <<phase, pending_seq, retry_count, next_seq, receiverVars, data, reached>>

\* No more bytes for now.
RxDone ==
    /\ phase = "rx"
    /\ phase' = "retry"
    /\ UNCHANGED <<senderVars, adapterVars, receiverVars, data, acks, reached, giveUps>>

NoTimeout ==
    /\ phase = "retry"
    /\ phase' = "send"
    /\ UNCHANGED <<senderVars, adapterVars, receiverVars, data, acks, reached, giveUps>>

\* The ACK timeout may pass early: slopeUartTc375GetTickMs wraps.
Resend ==
    /\ phase = "retry"
    /\ phase' = "send"
    /\ waiting_ack
    /\ retry_count < RetryLimit
    /\ retry_count' = retry_count + 1
    /\ WriteFrame([seq |-> pending_seq, cmd |-> inflight],
                  giveUps < MaxGiveUps \/ retry_count' < RetryLimit)
    /\ UNCHANGED <<waiting_ack, pending_seq, next_seq, adapterVars, receiverVars,
                   acks, reached, giveUps>>

\* Mutant: the command given up is not queued again.
MutGiveUp ==
    /\ phase = "retry"
    /\ phase' = "send"
    /\ waiting_ack
    /\ retry_count = RetryLimit
    /\ giveUps < MaxGiveUps
    /\ giveUps' = giveUps + 1
    /\ waiting_ack' = FALSE
    /\ UNCHANGED <<pending_seq, retry_count, next_seq, adapterVars,
                   receiverVars, data, acks, reached>>

GiveUp ==
    /\ phase = "retry"
    /\ phase' = "send"
    /\ waiting_ack
    /\ retry_count = RetryLimit
    /\ giveUps < MaxGiveUps
    /\ giveUps' = giveUps + 1
    /\ waiting_ack' = FALSE
    /\ lastQueued' = "FORCE"
    /\ UNCHANGED <<pending_seq, retry_count, next_seq, desired, inflight, txSuccess,
                   receiverVars, data, acks, reached>>

\* Mutant: the sequence number outgrows its byte.
MutSendDesired ==
    /\ phase = "send"
    /\ phase' = "client"
    /\ ~waiting_ack
    /\ desired # lastQueued
    /\ waiting_ack' = TRUE
    /\ pending_seq' = next_seq
    /\ next_seq' = next_seq + 1
    /\ retry_count' = 0
    /\ WriteFrame([seq |-> next_seq, cmd |-> desired], TRUE)
    /\ inflight' = desired
    /\ lastQueued' = desired
    /\ reached' = FALSE
    /\ UNCHANGED <<desired, txSuccess, receiverVars, acks, giveUps>>

\* slopeUartSenderStart under slopeUartTc375TrySendDesired.
SendDesired ==
    /\ phase = "send"
    /\ phase' = "client"
    /\ ~waiting_ack
    /\ desired # lastQueued
    /\ waiting_ack' = TRUE
    /\ pending_seq' = next_seq
    /\ next_seq' = (next_seq + 1) % SeqMod
    /\ retry_count' = 0
    /\ WriteFrame([seq |-> next_seq, cmd |-> desired], TRUE)
    /\ inflight' = desired
    /\ lastQueued' = desired
    /\ reached' = FALSE
    /\ UNCHANGED <<desired, txSuccess, receiverVars, acks, giveUps>>

NothingToSend ==
    /\ phase = "send"
    /\ phase' = "client"
    /\ waiting_ack \/ desired = lastQueued
    /\ UNCHANGED <<senderVars, adapterVars, receiverVars, data, acks, reached, giveUps>>

-----------------------------------------------------------------------------
(* The caller: doorEcuControlHandleSlopeTxSuccess, and after it            *)
(* doorEcuControlIssuePendingSlopeCommand.                                 *)

ConsumeTxSuccess ==
    /\ phase = "client"
    /\ txSuccess # "EMPTY"
    /\ txSuccess' = "EMPTY"
    /\ UNCHANGED <<phase, senderVars, desired, lastQueued, inflight, receiverVars,
                   data, acks, reached, giveUps>>

Request(c) ==
    /\ phase = "client"
    /\ phase' = "rx"
    /\ txSuccess = "EMPTY"
    /\ ~waiting_ack
    /\ desired' = c
    /\ UNCHANGED <<senderVars, lastQueued, inflight, txSuccess, receiverVars,
                   data, acks, reached, giveUps>>

NoRequest ==
    /\ phase = "client"
    /\ phase' = "rx"
    /\ txSuccess = "EMPTY"
    /\ UNCHANGED <<senderVars, adapterVars, receiverVars, data, acks, reached, giveUps>>

-----------------------------------------------------------------------------
(* The slope ECU: slopeUartReceiverOnFrame acknowledges every frame and    *)
(* hands over the command of one whose number is not the last one's.       *)

\* Mutant: no frame is taken for a duplicate.
MutIsNew(frame) == TRUE

IsNew(frame) == ~has_last_seq \/ last_seq # frame.seq

ReceiverOnFrame ==
    /\ data # <<>>
    /\ data' = Tail(data)
    /\ LET frame == Head(data) IN
       /\ Put(acks, frame.seq) \/ (Lossy /\ UNCHANGED acks)
       /\ IF IsNew(frame)
          THEN /\ has_last_seq' = TRUE
               /\ last_seq' = frame.seq
               /\ ramp' = IF frame.cmd = "NONE" THEN ramp ELSE frame.cmd
          ELSE UNCHANGED receiverVars
       /\ reached' = (reached \/ frame.seq = pending_seq)
    /\ UNCHANGED <<phase, senderVars, adapterVars, giveUps>>

TxPoll ==
    \/ ProcessAck
    \/ RxDone
    \/ NoTimeout
    \/ Resend
    \/ GiveUp
    \/ SendDesired
    \/ NothingToSend
    \/ ConsumeTxSuccess
    \/ NoRequest
    \/ \E c \in {"OPEN", "CLOSE"} : Request(c)

Next == TxPoll \/ ReceiverOnFrame

Spec == Init /\ [][Next]_vars

\* A frame does not stay pending: its ACK is read, or its timeout passes.
Settles == Resend \/ GiveUp \/ (ProcessAck /\ waiting_ack /\ ~waiting_ack')

\* The poll loop runs forever and reads the ACKs that have come, a pending frame
\* is acknowledged or times out, and the slope ECU reads its line.
FairSpec ==
    /\ Spec
    /\ WF_vars(TxPoll)
    /\ SF_vars(ProcessAck)
    /\ SF_vars(Settles)
    /\ WF_vars(ReceiverOnFrame)

-----------------------------------------------------------------------------
(* Properties.                                                             *)

TypeOK ==
    /\ phase \in {"rx", "retry", "send", "client"}
    /\ waiting_ack \in BOOLEAN
    /\ pending_seq \in SeqNo
    /\ retry_count \in 0..RetryLimit
    /\ next_seq \in SeqNo
    /\ desired \in Cmd
    /\ lastQueued \in Cmd \cup {"FORCE"}
    /\ inflight \in Cmd
    /\ txSuccess \in Cmd \cup {"EMPTY"}
    /\ has_last_seq \in BOOLEAN
    /\ last_seq \in SeqNo
    /\ ramp \in {"OPEN", "CLOSE"}
    /\ data \in Seq(Frame) /\ Len(data) <= LineFrames
    /\ acks \in Seq(SeqNo) /\ Len(acks) <= LineFrames
    /\ reached \in BOOLEAN
    /\ giveUps \in 0..MaxGiveUps

(* The protocol keeps the promise of SlopeTx: a success is reported only   *)
(* of a command the slope ECU has processed, and between commands nothing  *)
(* of an older attempt reaches it.                                         *)
ImplementsSlopeTx == Link!TxSpec

(* The retransmissions of one frame hand its command over once (README.md: *)
(* 159, suppression of duplicate frames): a second hand-over would turn    *)
(* the ramp motor a second time.                                           *)
DuplicatesSuppressed ==
    [][ReceiverOnFrame /\ IsNew(Head(data)) => ~reached]_vars

(* A requested ramp command is in the end reported as a success, through   *)
(* lost frames, lost ACKs, stale ACKs and attempts given up.               *)
RequestSucceeds ==
    \A c \in {"OPEN", "CLOSE"} : (desired = c) ~> (txSuccess = c)
=============================================================================
