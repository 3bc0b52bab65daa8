------------------------------- MODULE DoorEcu -------------------------------
(***************************************************************************)
(* The door ECU: doorEcuControlPoll() (door_ecu_control.c), run forever by *)
(* core0_main, with the door drive of Door_Control.c and the slope link of *)
(* SlopeTx.  One poll is a chain of steps named by pc, in the order of the *)
(* calls; time passes (Tick) and the slope ECU answers (TxDeliver) between *)
(* any two of them.                                                        *)
(***************************************************************************)
EXTENDS Integers, SlopeTx

CONSTANTS
    DutySteps,   \* doorUpdate steps from DOOR_CLOSE_DUTY to DOOR_OPEN_DUTY
    MarginTicks, \* DOOR_MOVE_MARGIN_MS in ticks of DOOR_SPEED_MS
    MaxLate,     \* ticks one movement may lose because a poll comes late
    CanCommands  \* frames the driver ECU sends: <<door, ramp, ramp mode>>

ASSUME DutyAssumption == DutySteps \in Nat \ {0}
ASSUME MarginAssumption == MarginTicks \in Nat /\ MaxLate \in Nat /\ MaxLate < MarginTicks
ASSUME CanAssumption == CanCommands \subseteq Cmd \X Cmd \X {"AUTO", "MANUAL"}

VARIABLES
    pc,                 \* the next step of doorEcuControlPoll
    pending,            \* the request flags of DoorEcuControlState that are 1
    slopeTxPending,
    slopeOpenEstimated,
    lastDoorActuation,
    doorOpenEstimated,  \* also status.door_opened, refreshed together with it
    door_motion,        \* status.door_motion
    jam_detected,       \* status.jam_detected
    targetDuty,         \* in steps above DOOR_CLOSE_DUTY
    currentDuty,
    elapsed,            \* ticks since doorMotionStartMs, capped
    stepDue,            \* tickInterval has passed since lastUpdateTick
    late,               \* ghost: ticks the current movement has lost
    stowOnly            \* ghost: the door was commanded shut, and since then
                        \* no ramp opening was asked for and no jam cancelled

doorVars == <<targetDuty, lastDoorActuation, elapsed, late, door_motion>>
driveVars == <<currentDuty, stepDue>>
rampVars == <<slopeTxPending, slopeOpenEstimated>>
vars == <<pc, pending, rampVars, doorVars, driveVars, doorOpenEstimated,
          jam_detected, stowOnly, txVars>>

\* DOOR_MOVE_ASSUMED_TIME_MS in ticks.
MoveTicks == DutySteps + MarginTicks

Requests == {"doorManualOpen", "doorManualClose", "slopeManualOpen",
             "slopeManualClose", "slopeAutoOpen", "slopeAutoClose"}
OpenSide == {"doorManualOpen", "slopeManualOpen", "slopeAutoOpen"}
CloseSide == {"doorManualClose", "slopeManualClose", "slopeAutoClose"}
RampOpening == {"slopeManualOpen", "slopeAutoOpen"}

Poll(from, to) == pc = from /\ pc' = to

\* doorEcuControlInit.  The drive starts with the door shut.
Init ==
    /\ TxInit
    /\ pc = "ble"
    /\ pending = {}
    /\ slopeTxPending = "NONE"
    /\ slopeOpenEstimated = FALSE
    /\ lastDoorActuation = "NONE"
    /\ doorOpenEstimated = FALSE
    /\ door_motion = "UNKNOWN"
    /\ jam_detected = FALSE
    /\ targetDuty = 0
    /\ currentDuty = 0
    /\ elapsed = 0
    /\ stepDue = FALSE
    /\ late = 0
    /\ stowOnly = FALSE

-----------------------------------------------------------------------------
(* Requests.  Several BLE commands in one poll set the same flags.         *)

PollBleCommand ==
    /\ Poll("ble", "can")
    /\ \/ /\ pending' = (pending \cup {"slopeAutoOpen"}) \ {"slopeAutoClose"}
          /\ stowOnly' = FALSE
       \/ UNCHANGED <<pending, stowOnly>>
    /\ UNCHANGED <<rampVars, doorVars, driveVars, doorOpenEstimated, jam_detected, txVars>>

\* The flags one CAN frame sets; STOP, NOP and HOLD commands set none.
DoorRequest(door) ==
    IF door = "NONE" THEN {}
    ELSE {IF door = "OPEN" THEN "doorManualOpen" ELSE "doorManualClose"}
SlopeRequest(slope, mode) ==
    IF slope = "NONE" THEN {}
    ELSE IF mode = "MANUAL"
         THEN {IF slope = "OPEN" THEN "slopeManualOpen" ELSE "slopeManualClose"}
         ELSE {IF slope = "OPEN" THEN "slopeAutoOpen" ELSE "slopeAutoClose"}

CombinedRequest(cmd) ==
    LET requested == DoorRequest(cmd[1]) \cup SlopeRequest(cmd[2], cmd[3]) IN
    /\ Poll("can", "sense")
    /\ pending' = pending \cup requested
    /\ stowOnly' = (stowOnly /\ requested \cap RampOpening = {})
    /\ UNCHANGED <<rampVars, doorVars, driveVars, doorOpenEstimated, jam_detected, txVars>>

\* CAN not opened, no frame received, or a read error.
NoCommand ==
    /\ Poll("can", "sense")
    /\ UNCHANGED <<pending, rampVars, doorVars, driveVars, doorOpenEstimated,
                   jam_detected, stowOnly, txVars>>

PollCanCommand == NoCommand \/ \E cmd \in CanCommands : CombinedRequest(cmd)

-----------------------------------------------------------------------------
(* Sensing.  The ultrasonic sensor (ObstacleDetect_Service) says anything. *)

UpdateDoorEstimate ==
    LET moving == lastDoorActuation # "NONE" /\ elapsed < MoveTicks
        opened == IF lastDoorActuation = "NONE" THEN doorOpenEstimated
                  ELSE lastDoorActuation = "OPEN" IN
    /\ doorOpenEstimated' = IF moving THEN doorOpenEstimated ELSE opened
    /\ door_motion' = IF moving THEN (IF opened THEN "OPENING" ELSE "CLOSING")
                      ELSE (IF opened THEN "OPENED" ELSE "CLOSED")
    /\ lastDoorActuation' = IF moving THEN lastDoorActuation ELSE "NONE"
    /\ UNCHANGED <<targetDuty, elapsed, late>>

UpdateSensors ==
    /\ Poll("sense", "jam")
    /\ jam_detected' \in BOOLEAN
    /\ UpdateDoorEstimate
    /\ UNCHANGED <<pending, rampVars, driveVars, stowOnly, txVars>>

-----------------------------------------------------------------------------
(* Door drive.                                                             *)

\* Mutant: the assumed travel time is not restarted by a new command.
MutApplyDoor(actuation) ==
    /\ targetDuty' = IF actuation = "OPEN" THEN DutySteps ELSE 0
    /\ lastDoorActuation' = actuation
    /\ UNCHANGED elapsed
    /\ late' = 0
    /\ door_motion' = IF actuation = "OPEN" THEN "OPENING" ELSE "CLOSING"

ApplyDoor(actuation) ==
    /\ targetDuty' = IF actuation = "OPEN" THEN DutySteps ELSE 0
    /\ lastDoorActuation' = actuation
    /\ elapsed' = 0
    /\ late' = 0
    /\ door_motion' = IF actuation = "OPEN" THEN "OPENING" ELSE "CLOSING"

\* Mutant: the duty steps on past its target.
MutDoorUpdate ==
    /\ Poll("door", "issue")
    /\ IF stepDue
       THEN /\ stepDue' = FALSE
            /\ currentDuty' = IF currentDuty < targetDuty THEN currentDuty + 1
                              ELSE currentDuty - 1
       ELSE UNCHANGED driveVars
    /\ UNCHANGED <<pending, rampVars, doorVars, doorOpenEstimated,
                   jam_detected, stowOnly, txVars>>

\* One step of the PWM duty towards its target, at most one per tickInterval.
DoorUpdate ==
    /\ Poll("door", "issue")
    /\ IF stepDue /\ currentDuty # targetDuty
       THEN /\ stepDue' = FALSE
            /\ currentDuty' = IF currentDuty < targetDuty THEN currentDuty + 1
                              ELSE currentDuty - 1
       ELSE UNCHANGED driveVars
    /\ UNCHANGED <<pending, rampVars, doorVars, doorOpenEstimated,
                   jam_detected, stowOnly, txVars>>

\* DOOR_SPEED_MS pass.  A tick that finds the step of the tick before it still
\* owed is lost for the movement; one movement loses at most MaxLate ticks.
Tick ==
    LET owed == stepDue /\ currentDuty # targetDuty IN
    /\ owed => late < MaxLate
    /\ late' = IF owed THEN late + 1 ELSE late
    /\ stepDue' = TRUE
    /\ elapsed' = IF elapsed < MoveTicks THEN elapsed + 1 ELSE elapsed
    /\ UNCHANGED <<pc, pending, rampVars, targetDuty, lastDoorActuation,
                   door_motion, currentDuty, doorOpenEstimated, jam_detected,
                   stowOnly, txVars>>

-----------------------------------------------------------------------------
(* A jam while the door closes, or is about to.                            *)

\* Mutant: a close command waiting for the policy is not looked at.
MutJamDuringClosing == jam_detected /\ door_motion = "CLOSING"

JamDuringClosing ==
    /\ jam_detected
    /\ door_motion = "CLOSING" \/ "doorManualClose" \in pending

\* Mutant: the close side is cancelled, but the door is not reopened.
MutHandleJamDuringClosing ==
    /\ Poll("jam", "rx")
    /\ JamDuringClosing
    /\ pending' = pending \ CloseSide
    /\ slopeTxPending' = IF slopeTxPending = "CLOSE" THEN "NONE" ELSE slopeTxPending
    /\ stowOnly' = FALSE
    /\ UNCHANGED <<slopeOpenEstimated, doorVars, driveVars, doorOpenEstimated,
                   jam_detected, txVars>>

HandleJamDuringClosing ==
    /\ Poll("jam", "rx")
    /\ JamDuringClosing
    /\ pending' = pending \ CloseSide
    /\ slopeTxPending' = IF slopeTxPending = "CLOSE" THEN "NONE" ELSE slopeTxPending
    /\ ApplyDoor("OPEN")
    /\ stowOnly' = FALSE
    /\ UNCHANGED <<slopeOpenEstimated, driveVars, doorOpenEstimated, jam_detected, txVars>>

NoJamToHandle ==
    /\ Poll("jam", "rx")
    /\ ~JamDuringClosing
    /\ UNCHANGED <<pending, rampVars, doorVars, driveVars, doorOpenEstimated,
                   jam_detected, stowOnly, txVars>>

-----------------------------------------------------------------------------
(* slopeUartTc375TxPoll and the success it may leave behind.               *)

ecuVars == <<pending, rampVars, doorVars, driveVars, doorOpenEstimated,
             jam_detected, stowOnly>>

ProcessRx ==
    /\ Poll("rx", "retry")
    /\ TxAck \/ UNCHANGED txVars
    /\ UNCHANGED ecuVars

PollRetry ==
    /\ Poll("retry", "send")
    /\ TxGiveUp \/ UNCHANGED txVars
    /\ UNCHANGED ecuVars

TrySendDesired ==
    /\ Poll("send", "txdone")
    /\ IF CanSend THEN TxSend ELSE UNCHANGED txVars
    /\ UNCHANGED ecuVars

SlopeDelivery == TxDeliver /\ UNCHANGED <<pc, ecuVars>>

\* Mutant: the estimate follows the command to send next, not the one sent.
MutEstimateFromPending ==
    /\ Poll("txdone", "policy")
    /\ IF txSuccess = "EMPTY" THEN UNCHANGED <<rampVars, txVars>>
       ELSE /\ TxConsume
            /\ slopeOpenEstimated' = IF slopeTxPending = "NONE" THEN slopeOpenEstimated
                                     ELSE slopeTxPending = "OPEN"
            /\ slopeTxPending' = IF slopeTxPending = txSuccess THEN "NONE"
                                 ELSE slopeTxPending
    /\ UNCHANGED <<pending, doorVars, driveVars, doorOpenEstimated, jam_detected, stowOnly>>

\* Mutant: any success clears the command to send next.
MutClearOnAnySuccess ==
    /\ Poll("txdone", "policy")
    /\ IF txSuccess = "EMPTY" THEN UNCHANGED <<rampVars, txVars>>
       ELSE /\ TxConsume
            /\ slopeOpenEstimated' = IF txSuccess = "NONE" THEN slopeOpenEstimated
                                     ELSE txSuccess = "OPEN"
            /\ slopeTxPending' = "NONE"
    /\ UNCHANGED <<pending, doorVars, driveVars, doorOpenEstimated, jam_detected, stowOnly>>

HandleSlopeTxSuccess ==
    /\ Poll("txdone", "policy")
    /\ IF txSuccess = "EMPTY" THEN UNCHANGED <<rampVars, txVars>>
       ELSE /\ TxConsume
            /\ slopeOpenEstimated' = IF txSuccess = "NONE" THEN slopeOpenEstimated
                                     ELSE txSuccess = "OPEN"
            /\ slopeTxPending' = IF slopeTxPending = txSuccess THEN "NONE"
                                 ELSE slopeTxPending
    /\ UNCHANGED <<pending, doorVars, driveVars, doorOpenEstimated, jam_detected, stowOnly>>

-----------------------------------------------------------------------------
(* doorEcuControlRunPolicy, one action per branch, in priority order.      *)

\* 1) A door close also cancels the open side and stows the ramp.
ManualDoorClose ==
    /\ Poll("policy", "door")
    /\ "doorManualClose" \in pending
    /\ ApplyDoor("CLOSE")
    /\ pending' = (pending \ (OpenSide \cup {"doorManualClose"})) \cup {"slopeAutoClose"}
    /\ slopeTxPending' = "CLOSE"
    /\ stowOnly' = TRUE
    /\ UNCHANGED <<slopeOpenEstimated, driveVars, doorOpenEstimated, jam_detected, txVars>>

\* Mutant: the ramp close stays pending and is taken again in every poll.
MutManualSlopeClose ==
    /\ Poll("policy", "door")
    /\ "doorManualClose" \notin pending
    /\ "slopeManualClose" \in pending
    /\ pending' = pending \ {"slopeAutoOpen", "slopeManualOpen"}
    /\ slopeTxPending' = "CLOSE"
    /\ UNCHANGED <<slopeOpenEstimated, doorVars, driveVars, doorOpenEstimated,
                   jam_detected, stowOnly, txVars>>

\* 2) The driver's ramp close, whatever the door does.
ManualSlopeClose ==
    /\ Poll("policy", "door")
    /\ "doorManualClose" \notin pending
    /\ "slopeManualClose" \in pending
    /\ pending' = pending \ {"slopeManualClose", "slopeAutoOpen", "slopeManualOpen"}
    /\ slopeTxPending' = "CLOSE"
    /\ UNCHANGED <<slopeOpenEstimated, doorVars, driveVars, doorOpenEstimated,
                   jam_detected, stowOnly, txVars>>

\* 3) The driver's ramp open, whatever the door does.
ManualSlopeOpen ==
    /\ Poll("policy", "door")
    /\ pending \cap {"doorManualClose", "slopeManualClose"} = {}
    /\ "slopeManualOpen" \in pending
    /\ pending' = pending \ {"slopeManualOpen", "slopeAutoClose"}
    /\ slopeTxPending' = "OPEN"
    /\ UNCHANGED <<slopeOpenEstimated, doorVars, driveVars, doorOpenEstimated,
                   jam_detected, stowOnly, txVars>>

\* 4) The driver's door open, in the same poll as 5) or 6).
ManualDoorOpen ==
    /\ Poll("policy", "door")
    /\ pending \cap {"doorManualClose", "slopeManualClose", "slopeManualOpen"} = {}
    /\ IF "doorManualOpen" \in pending THEN ApplyDoor("OPEN") ELSE UNCHANGED doorVars
    /\ UNCHANGED <<slopeOpenEstimated, driveVars, doorOpenEstimated,
                   jam_detected, stowOnly, txVars>>

DoorIsOpenedOrOpening ==
    \/ doorOpenEstimated
    \/ door_motion \in {"OPENING", "OPENED"}
    \/ "doorManualOpen" \in pending
DoorIsClosing == door_motion = "CLOSING" /\ "doorManualOpen" \notin pending
SlopeOpenOrOpening == slopeOpenEstimated \/ slopeTxPending = "OPEN" \/ busy
AutoOpenReleased == "slopeAutoOpen" \in pending /\ DoorIsOpenedOrOpening

\* 5) A stocked ramp open is released by an open door.
ReleaseAutoOpen ==
    /\ ManualDoorOpen
    /\ AutoOpenReleased
    /\ pending' = pending \ {"doorManualOpen", "slopeAutoOpen"}
    /\ slopeTxPending' = IF slopeOpenEstimated THEN slopeTxPending ELSE "OPEN"

\* 6) A stocked ramp close is released by a closing door ...
ReleaseAutoClose ==
    /\ ManualDoorOpen
    /\ ~AutoOpenReleased
    /\ "slopeAutoClose" \in pending /\ SlopeOpenOrOpening /\ DoorIsClosing
    /\ pending' = pending \ {"doorManualOpen", "slopeAutoClose"}
    /\ slopeTxPending' = IF slopeOpenEstimated \/ slopeTxPending = "OPEN" THEN "CLOSE"
                         ELSE slopeTxPending

\* ... dropped when there is no ramp to stow, and kept otherwise.
NoRelease ==
    /\ ManualDoorOpen
    /\ ~AutoOpenReleased
    /\ ~("slopeAutoClose" \in pending /\ SlopeOpenOrOpening /\ DoorIsClosing)
    /\ pending' = pending \ (IF SlopeOpenOrOpening THEN {"doorManualOpen"}
                             ELSE {"doorManualOpen", "slopeAutoClose"})
    /\ UNCHANGED slopeTxPending

RunPolicy ==
    \/ ManualDoorClose
    \/ ManualSlopeClose
    \/ ManualSlopeOpen
    \/ ReleaseAutoOpen
    \/ ReleaseAutoClose
    \/ NoRelease

IssuePendingSlopeCommand ==
    /\ Poll("issue", "status")
    /\ IF slopeTxPending # "NONE" /\ ~busy THEN TxRequest(slopeTxPending)
       ELSE UNCHANGED txVars
    /\ UNCHANGED ecuVars

-----------------------------------------------------------------------------
(* What a status frame says of door and ramp.                              *)

DoorStateForCan ==
    CASE door_motion = "OPENED" -> "OPENED"
      [] door_motion \in {"OPENING", "CLOSING"} -> "MOVING"
      [] OTHER -> "CLOSED"

RampStateForCan ==
    IF slopeTxPending # "NONE" THEN "MOVING"
    ELSE IF slopeOpenEstimated THEN "DEPLOYED" ELSE "STOWED"

\* doorEcuControlPollStatusCan sends <<DoorStateForCan, RampStateForCan>> when
\* its period has passed; here it may do so in any poll.
PollStatusCan == Poll("status", "ble") /\ UNCHANGED <<ecuVars, txVars>>

ControlPoll ==
    \/ PollBleCommand
    \/ PollCanCommand
    \/ UpdateSensors
    \/ HandleJamDuringClosing
    \/ NoJamToHandle
    \/ ProcessRx
    \/ PollRetry
    \/ TrySendDesired
    \/ HandleSlopeTxSuccess
    \/ RunPolicy
    \/ DoorUpdate
    \/ IssuePendingSlopeCommand
    \/ PollStatusCan

Next == ControlPoll \/ Tick \/ SlopeDelivery

Spec == Init /\ [][Next]_vars

\* The main loop never stops and time passes; polls that find no CAN frame keep
\* occurring, for frames come at the pace of a driver.
FairSpec ==
    Spec /\ WF_vars(ControlPoll) /\ WF_vars(Tick) /\ SF_vars(NoCommand)

\* A link that does not fail again and again: the frame in flight is processed,
\* its ACK is read, and slopeUartSenderPoll gives up finitely often.
GoodLink ==
    WF_vars(SlopeDelivery /\ reached') /\ SF_vars(ProcessRx /\ TxAck) /\ <>[][~TxGiveUp]_vars

-----------------------------------------------------------------------------
(* Properties.                                                             *)

PollSteps == {"ble", "can", "sense", "jam", "rx", "retry", "send", "txdone",
              "policy", "door", "issue", "status"}

TypeOK ==
    /\ TxTypeOK
    /\ pc \in PollSteps
    /\ pending \subseteq Requests
    /\ slopeTxPending \in Cmd
    /\ slopeOpenEstimated \in BOOLEAN
    /\ lastDoorActuation \in Cmd
    /\ doorOpenEstimated \in BOOLEAN
    /\ door_motion \in {"UNKNOWN", "OPENING", "OPENED", "CLOSING", "CLOSED"}
    /\ jam_detected \in BOOLEAN
    /\ targetDuty \in {0, DutySteps}
    /\ currentDuty \in 0..DutySteps
    /\ elapsed \in 0..MoveTicks
    /\ stepDue \in BOOLEAN
    /\ late \in 0..MaxLate
    /\ stowOnly \in BOOLEAN

(* While the sensor reports an obstacle the door is never driven towards   *)
(* closed: outside the step that reacts to a new reading, its target is    *)
(* open or it is shut already.  README.md:177-178 promises it; the close   *)
(* command may have arrived before, with or after the reading.             *)
PinchedLeafNeverCloses ==
    jam_detected /\ pc # "jam" => targetDuty = DutySteps \/ currentDuty = 0

(* The door state the driver ECU is told is where the leaf is: the assumed *)
(* travel time of doorEcuControlUpdateDoorEstimate, restarted by every     *)
(* command, never expires before the PWM ramp of doorUpdate has ended.     *)
ReportedDoorIsPhysical ==
    pc = "status" =>
        /\ DoorStateForCan = "OPENED" => currentDuty = DutySteps
        /\ DoorStateForCan = "CLOSED" => currentDuty = 0

(* Whenever the link has settled, slopeOpenEstimated says what the slope   *)
(* ECU was last told, although commands are replaced in slopeTxPending     *)
(* while others are in flight, given up, sent again and acknowledged.      *)
LinkSettled == ~busy /\ txSuccess = "EMPTY" /\ lastQueued # "FORCE"
EstimateMatchesRamp == LinkSettled => (slopeOpenEstimated <=> ramp = "OPEN")

(* A door close always takes the ramp with it (policy step 1): unless a    *)
(* ramp opening is asked for or a jam intervenes, when no slope command is *)
(* left to send the ramp has been told to close and nothing in the link    *)
(* will open it again.                                                     *)
DoorCloseStowsRamp ==
    stowOnly /\ slopeTxPending = "NONE" =>
        /\ ramp = "CLOSE"
        /\ desired # "OPEN"
        /\ busy => inflight # "OPEN"

(* An obstacle met by a closing door makes it open to the end, unless the  *)
(* obstacle is gone before.                                                *)
JamReopensDoor ==
    (jam_detected /\ door_motion = "CLOSING")
        ~> (currentDuty = DutySteps \/ ~jam_detected)

(* Over a good link a ramp command that was queued is acknowledged or      *)
(* replaced; it is not forgotten behind the one in flight.                 *)
RampCommandResolves ==
    GoodLink => \A c \in RampCmd : (slopeTxPending = c) ~> (slopeTxPending # c)

(* A door open request is acted on or cancelled by a close, although every *)
(* manual ramp command makes doorEcuControlRunPolicy return before it.     *)
DoorOpenRequestServed ==
    ("doorManualOpen" \in pending) ~> ("doorManualOpen" \notin pending)

(* door_ecu_control.c:594 releases a stocked ramp open "only if the door   *)
(* is open, is opening or has just been told to open".  The guard reads    *)
(* the estimate, which stays 1 until a close is assumed complete, and so   *)
(* releases it with the leaf already shut.                                 *)
AutoOpenNeedsOpenDoor ==
    [][ReleaseAutoOpen => currentDuty # 0 \/ targetDuty' = DutySteps]_vars
=============================================================================
