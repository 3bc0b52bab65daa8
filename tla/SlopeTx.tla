------------------------------- MODULE SlopeTx -------------------------------
(***************************************************************************)
(* What the slope UART adapter of the door ECU (slope_uart_tc375_lite.c)   *)
(* promises to doorEcuControlPoll, and what the slope ECU makes of it: one *)
(* command at a time is in flight; it is reported as a success only after  *)
(* the slope ECU has processed it; a given-up command is started again.    *)
(*                                                                         *)
(* Sequence numbers, retransmissions and the two byte channels are hidden  *)
(* here: SlopeUart models them and is shown to implement TxSpec.           *)
(***************************************************************************)

VARIABLES
    busy,       \* sender->waiting_ack, read by slopeUartTc375TxIsBusy
    desired,    \* g_desiredCmd
    lastQueued, \* g_lastQueuedCmd, "FORCE" standing for its 0xFF value
    inflight,   \* g_inflightCmd
    txSuccess,  \* g_txSuccessCmd, "EMPTY" when g_txSuccessPending is 0
    reached,    \* ghost: the slope ECU has processed the frame in flight
    ramp        \* ghost: the last OPEN or CLOSE the slope ECU delivered

txVars == <<busy, desired, lastQueued, inflight, txSuccess, reached, ramp>>

Cmd == {"NONE", "OPEN", "CLOSE"}
RampCmd == {"OPEN", "CLOSE"}

\* slopeUartTc375TxInit, on a bus that is powered up with the ramp stowed.
TxInit ==
    /\ busy = FALSE
    /\ desired = "NONE"
    /\ lastQueued = "FORCE"
    /\ inflight = "NONE"
    /\ txSuccess = "EMPTY"
    /\ reached = FALSE
    /\ ramp = "CLOSE"

\* slopeUartTc375RequestOpen and slopeUartTc375RequestClose, as their one
\* caller uses them: only while no frame awaits its ACK.
TxRequest(c) ==
    /\ ~busy
    /\ desired' = c
    /\ UNCHANGED <<busy, lastQueued, inflight, txSuccess, reached, ramp>>

\* slopeUartTc375ProcessRx on the ACK of the frame in flight.
TxAck ==
    /\ busy
    /\ reached
    /\ busy' = FALSE
    /\ txSuccess' = inflight
    /\ desired' = "NONE"
    /\ lastQueued' = "NONE"
    /\ UNCHANGED <<inflight, reached, ramp>>

\* Mutant: a given-up command is not queued again.
MutTxGiveUp ==
    /\ busy
    /\ busy' = FALSE
    /\ UNCHANGED <<desired, lastQueued, inflight, txSuccess, reached, ramp>>

\* slopeUartTc375PollRetry after the last retry has timed out.
TxGiveUp ==
    /\ busy
    /\ busy' = FALSE
    /\ lastQueued' = "FORCE"
    /\ UNCHANGED <<desired, inflight, txSuccess, reached, ramp>>

CanSend == ~busy /\ desired # lastQueued

\* slopeUartTc375TrySendDesired: a new frame with a sequence number of its own.
TxSend ==
    /\ CanSend
    /\ busy' = TRUE
    /\ inflight' = desired
    /\ lastQueued' = desired
    /\ reached' = FALSE
    /\ UNCHANGED <<desired, txSuccess, ramp>>

\* slopeUartTc375ConsumeTxSuccess when a success is pending.
TxConsume ==
    /\ txSuccess # "EMPTY"
    /\ txSuccess' = "EMPTY"
    /\ UNCHANGED <<busy, desired, lastQueued, inflight, reached, ramp>>

\* slopeUartReceiverOnFrame hands a command to the slope ECU: the frame in
\* flight, or a frame of an attempt given up before it (same command), which
\* leaves the one in flight unprocessed.
TxDeliver ==
    /\ ~reached
    /\ busy \/ lastQueued = "FORCE"
    /\ ramp' = IF inflight = "NONE" THEN ramp ELSE inflight
    /\ reached' \in BOOLEAN
    /\ UNCHANGED <<busy, desired, lastQueued, inflight, txSuccess>>

TxNext ==
    \/ \E c \in RampCmd : TxRequest(c)
    \/ TxAck
    \/ TxGiveUp
    \/ TxSend
    \/ TxConsume
    \/ TxDeliver

TxSpec == TxInit /\ [][TxNext]_txVars

-----------------------------------------------------------------------------

TxTypeOK ==
    /\ busy \in BOOLEAN
    /\ desired \in Cmd
    /\ lastQueued \in Cmd \cup {"FORCE"}
    /\ inflight \in Cmd
    /\ txSuccess \in Cmd \cup {"EMPTY"}
    /\ reached \in BOOLEAN
    /\ ramp \in RampCmd
=============================================================================
