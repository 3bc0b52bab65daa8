------------------------------ MODULE DriverEcu ------------------------------
(***************************************************************************)
(* The driver ECU: the endless loop of core0_main (driver-ecu/Cpu0_Main.c) *)
(* as a chain of steps named by pc, the four button interrupts that may    *)
(* come between any two of them, the fire latch that core 2 sets, and the  *)
(* one transmit buffer of its CAN channel.  What the door ECU reports is   *)
(* any status here.  Buzzer, LEDs and sounds are outputs and left out.     *)
(***************************************************************************)

VARIABLES
    pc,               \* the next block of the loop
    stopBell,         \* g_stopBtnState is ON
    disabledBell,     \* g_disabledStopBtnState is ON
    pressed,          \* latches that are TRUE: doorOpenReq, ..., stopBtnPressed
    doorState,        \* of the last status frame; OTHER is moving or fault
    slopeState,
    obstacleDetected,
    monitorFlags,     \* the lamps that are on
    gIsFireDetected,
    fireAlarmActive,
    tx                \* the frame in the CAN transmit buffer

bellVars == <<stopBell, disabledBell, monitorFlags>>
statusVars == <<doorState, slopeState, obstacleDetected>>
fireVars == <<gIsFireDetected, fireAlarmActive>>
vars == <<pc, bellVars, pressed, statusVars, fireVars, tx>>

Latches == {"doorOpenReq", "doorCloseReq", "slopeOpenReq", "slopeCloseReq",
            "stopBtnPressed", "disabledStopBtnPressed"}
Lamps == {"Door", "Slope", "Block", "Stop"}
DoorStates == {"CLOSED", "OPENED", "OTHER"}
RampStates == {"STOWED", "DEPLOYED", "OTHER"}

\* Command frames: the door command and the ramp command, which is manual.
Idle == <<"NOP", "NOP">>
Frames == {<<"OPEN", "NOP">>, <<"OPEN", "DEPLOY">>, <<"CLOSE", "NOP">>,
           <<"NOP", "DEPLOY">>, <<"NOP", "STOW">>}

Init ==
    /\ pc = "reset"
    /\ stopBell = FALSE
    /\ disabledBell = FALSE
    /\ pressed = {}
    /\ doorState = "CLOSED"
    /\ slopeState = "STOWED"
    /\ obstacleDetected = FALSE
    /\ monitorFlags = {}
    /\ gIsFireDetected = FALSE
    /\ fireAlarmActive = FALSE
    /\ tx = Idle

Block(from, to) == pc = from /\ pc' = to

-----------------------------------------------------------------------------
(* The bell (stop_bell.c).                                                 *)

\* Mutant: the bell sets a bit that is no lamp.
MutOnStopButton ==
    /\ stopBell' = TRUE
    /\ monitorFlags' = IF stopBell THEN monitorFlags ELSE monitorFlags \cup {"Bell"}

OnStopButton ==
    /\ stopBell' = TRUE
    /\ monitorFlags' = IF stopBell THEN monitorFlags ELSE monitorFlags \cup {"Stop"}

\* Mutant: the disabled passenger's bell is forgotten.
MutOffStopButton ==
    /\ stopBell' = FALSE
    /\ monitorFlags' = IF stopBell THEN monitorFlags \ {"Stop"} ELSE monitorFlags
    /\ UNCHANGED disabledBell

\* Mutant: the lamp stays on.
MutLampStaysOn ==
    /\ stopBell' = FALSE
    /\ disabledBell' = IF stopBell THEN FALSE ELSE disabledBell
    /\ UNCHANGED monitorFlags

\* Does nothing unless the bell is on.
OffStopButton ==
    IF stopBell
    THEN /\ stopBell' = FALSE
         /\ disabledBell' = FALSE
         /\ monitorFlags' = monitorFlags \ {"Stop"}
    ELSE UNCHANGED bellVars

-----------------------------------------------------------------------------
(* The blocks of the loop, in their order.                                 *)

\* The reset button is held, or not.
ResetButton ==
    /\ Block("reset", "lamps")
    /\ OffStopButton \/ UNCHANGED bellVars
    /\ UNCHANGED <<pressed, statusVars, fireVars, tx>>

\* A state that is neither of two leaves its lamp as it is.
RefreshLamps ==
    LET on == {l \in {"Door", "Slope"} :
                 IF l = "Door" THEN doorState = "OPENED" ELSE slopeState = "DEPLOYED"}
        off == {l \in {"Door", "Slope"} :
                 IF l = "Door" THEN doorState = "CLOSED" ELSE slopeState = "STOWED"} IN
    /\ Block("lamps", "pinch")
    /\ monitorFlags' = (monitorFlags \cup on) \ off
    /\ UNCHANGED <<stopBell, disabledBell, pressed, statusVars, fireVars, tx>>

\* A status frame has come; its flags are taken over one after the other, and
\* an interrupt between the two blocks sees the new flag with the old states.
TakePinch ==
    /\ Block("pinch", "states")
    /\ obstacleDetected' \in BOOLEAN
    /\ monitorFlags' = IF obstacleDetected' THEN monitorFlags \cup {"Block"}
                       ELSE monitorFlags \ {"Block"}
    /\ UNCHANGED <<stopBell, disabledBell, pressed, doorState, slopeState, fireVars, tx>>

TakeStates ==
    /\ Block("states", "open")
    /\ doorState' \in DoorStates
    /\ slopeState' \in RampStates
    /\ UNCHANGED <<bellVars, pressed, obstacleDetected, fireVars, tx>>

NoStatus ==
    /\ Block("pinch", "open")
    /\ UNCHANGED <<bellVars, pressed, statusVars, fireVars, tx>>

\* The buffer takes no frame while it holds one; nobody looks at the result.
SendCommand(frame) == tx' = IF tx = Idle THEN frame ELSE tx

NotPressed(from, to, latch) ==
    /\ Block(from, to)
    /\ latch \notin pressed
    /\ UNCHANGED <<bellVars, pressed, statusVars, fireVars, tx>>

TakeLatch(latch) == latch \in pressed /\ pressed' = pressed \ {latch}

SendDoorOpen ==
    /\ Block("open", "close")
    /\ TakeLatch("doorOpenReq")
    /\ SendCommand(IF disabledBell THEN <<"OPEN", "DEPLOY">> ELSE <<"OPEN", "NOP">>)
    /\ OffStopButton
    /\ UNCHANGED <<statusVars, fireVars>>

SendDoorClose ==
    /\ Block("close", "slopeOpen")
    /\ TakeLatch("doorCloseReq")
    /\ SendCommand(<<"CLOSE", "NOP">>)
    /\ UNCHANGED <<bellVars, statusVars, fireVars>>

SendSlopeOpen ==
    /\ Block("slopeOpen", "slopeClose")
    /\ TakeLatch("slopeOpenReq")
    /\ SendCommand(<<"NOP", "DEPLOY">>)
    /\ UNCHANGED <<bellVars, statusVars, fireVars>>

SendSlopeClose ==
    /\ Block("slopeClose", "stop")
    /\ TakeLatch("slopeCloseReq")
    /\ SendCommand(<<"NOP", "STOW">>)
    /\ UNCHANGED <<bellVars, statusVars, fireVars>>

StopPressed ==
    /\ Block("stop", "disabled")
    /\ TakeLatch("stopBtnPressed")
    /\ OnStopButton
    /\ UNCHANGED <<disabledBell, statusVars, fireVars, tx>>

\* Mutant: a bell that is off is not switched on with the disabled one.
MutDisabledPressed ==
    /\ Block("disabled", "fire")
    /\ TakeLatch("disabledStopBtnPressed")
    /\ disabledBell' = TRUE
    /\ UNCHANGED <<stopBell, monitorFlags, statusVars, fireVars, tx>>

DisabledPressed ==
    /\ Block("disabled", "fire")
    /\ TakeLatch("disabledStopBtnPressed")
    /\ disabledBell' = TRUE
    /\ IF disabledBell THEN UNCHANGED <<stopBell, monitorFlags>> ELSE OnStopButton
    /\ UNCHANGED <<statusVars, fireVars, tx>>

FireAlarm ==
    /\ Block("fire", "ble")
    /\ fireAlarmActive' = gIsFireDetected
    /\ IF gIsFireDetected /\ ~fireAlarmActive
       THEN SendCommand(<<"OPEN", "NOP">>) /\ monitorFlags' = monitorFlags \cup {"Door"}
       ELSE UNCHANGED <<monitorFlags, tx>>
    /\ UNCHANGED <<stopBell, disabledBell, pressed, statusVars, gIsFireDetected>>

\* Mutant: the latches are assigned, not only set.
MutBleCommand ==
    /\ Block("ble", "reset")
    /\ \E requested \in SUBSET {"stopBtnPressed", "disabledStopBtnPressed"} :
          pressed' = (pressed \ {"stopBtnPressed", "disabledStopBtnPressed"}) \cup requested
    /\ UNCHANGED <<bellVars, statusVars, fireVars, tx>>

\* At most one command of the BLE link, with either request, both or none.
BleCommand ==
    /\ Block("ble", "reset")
    /\ \E requested \in SUBSET {"stopBtnPressed", "disabledStopBtnPressed"} :
          pressed' = pressed \cup requested
    /\ UNCHANGED <<bellVars, statusVars, fireVars, tx>>

Loop ==
    \/ ResetButton
    \/ RefreshLamps
    \/ TakePinch
    \/ TakeStates
    \/ NoStatus
    \/ SendDoorOpen \/ NotPressed("open", "close", "doorOpenReq")
    \/ SendDoorClose \/ NotPressed("close", "slopeOpen", "doorCloseReq")
    \/ SendSlopeOpen \/ NotPressed("slopeOpen", "slopeClose", "slopeOpenReq")
    \/ SendSlopeClose \/ NotPressed("slopeClose", "stop", "slopeCloseReq")
    \/ StopPressed \/ NotPressed("stop", "disabled", "stopBtnPressed")
    \/ DisabledPressed \/ NotPressed("disabled", "fire", "disabledStopBtnPressed")
    \/ FireAlarm
    \/ BleCommand

-----------------------------------------------------------------------------
(* Interrupts, core 2 and the bus.                                         *)

SetLatch(latch) ==
    /\ pressed' = pressed \cup {latch}
    /\ UNCHANGED <<pc, bellVars, statusVars, fireVars, tx>>

StopBtnISR == SetLatch("stopBtnPressed")
DisabledStopBtnISR == SetLatch("disabledStopBtnPressed")

DoorControlBtnISR ==
    \/ doorState = "CLOSED" /\ SetLatch("doorOpenReq")
    \/ doorState = "OPENED" /\ ~obstacleDetected /\ SetLatch("doorCloseReq")

SlopeControlBtnISR ==
    \/ slopeState = "STOWED" /\ SetLatch("slopeOpenReq")
    \/ slopeState = "DEPLOYED" /\ ~obstacleDetected /\ SetLatch("slopeCloseReq")

\* updateFireDetectModule never takes the detection back.
DetectFire ==
    /\ gIsFireDetected' = TRUE
    /\ UNCHANGED <<pc, bellVars, pressed, statusVars, fireAlarmActive, tx>>

\* The frame in the buffer has gone out on the bus.
Transmit ==
    /\ tx # Idle
    /\ tx' = Idle
    /\ UNCHANGED <<pc, bellVars, pressed, statusVars, fireVars>>

Next ==
    \/ Loop
    \/ StopBtnISR
    \/ DisabledStopBtnISR
    \/ DoorControlBtnISR
    \/ SlopeControlBtnISR
    \/ DetectFire
    \/ Transmit

Spec == Init /\ [][Next]_vars

\* The loop never stops, and the bus takes every frame in the end.
FairSpec == Spec /\ WF_vars(Loop) /\ WF_vars(Transmit)

-----------------------------------------------------------------------------
(* Properties.                                                             *)

Blocks == {"reset", "lamps", "pinch", "states", "open", "close", "slopeOpen",
           "slopeClose", "stop", "disabled", "fire", "ble"}

TypeOK ==
    /\ pc \in Blocks
    /\ stopBell \in BOOLEAN
    /\ disabledBell \in BOOLEAN
    /\ pressed \subseteq Latches
    /\ doorState \in DoorStates
    /\ slopeState \in RampStates
    /\ obstacleDetected \in BOOLEAN
    /\ monitorFlags \subseteq Lamps
    /\ gIsFireDetected \in BOOLEAN
    /\ fireAlarmActive \in BOOLEAN
    /\ tx \in Frames \cup {Idle}

(* A disabled passenger's bell can always be cancelled: offStopButton does *)
(* nothing unless the stop bell is on, so the disabled bell must never be  *)
(* on alone, whatever the order of presses, resets and door openings.      *)
DisabledBellIsCancellable == disabledBell => stopBell

(* The Stop lamp of the monitor is on exactly while the bell is, although  *)
(* four blocks and the fire alarm write the byte the lamps share.          *)
MonitorShowsBell == "Stop" \in monitorFlags <=> stopBell

(* A door opening takes the disabled passenger's request with it: the ramp *)
(* is not sent out again by the next opening.                              *)
OpenServesDisabledBell == [][SendDoorOpen => ~disabledBell']_vars

(* No press of a bell is lost, be it a button or a BLE command, although   *)
(* interrupts and the BLE block set the latches the loop clears.           *)
PressRingsBell ==
    /\ "stopBtnPressed" \in pressed ~> stopBell
    /\ "disabledStopBtnPressed" \in pressed ~> disabledBell

(* Cpu0_Main.c:349 and :364 forbid to close door or ramp while an obstacle *)
(* is detected.  The interrupts look at the flag, the loop sends the frame *)
(* later, and a status frame may have raised the flag in between.          *)
NoCloseWithObstacle ==
    [][SendDoorClose \/ SendSlopeClose => ~obstacleDetected]_vars

(* README.md:161 says a detected fire makes the ECU command the door open: *)
(* a fire that has raised no alarm yet leads to an OPEN in the buffer.  A  *)
(* detection is never taken back, so this speaks of the alarm's edge only, *)
(* and one accepted OPEN satisfies it; but the one attempt is lost when    *)
(* the buffer still holds another frame, and the alarm is on after it.     *)
FireOpensDoor == gIsFireDetected /\ ~fireAlarmActive ~> tx[1] = "OPEN"
=============================================================================
