--------------------------- MODULE DriverEcuProofs ---------------------------
(***************************************************************************)
(* Proofs about the bell of DriverEcu.  DriverEcu has no constants, so TLC *)
(* has seen all of its states; the proofs say why the properties hold.     *)
(***************************************************************************)
EXTENDS DriverEcu, TLAPS

LEMMA TypeStep == TypeOK /\ [Next]_vars => TypeOK'
<1> SUFFICES ASSUME TypeOK, [Next]_vars PROVE TypeOK'
  OBVIOUS
<1> USE DEF TypeOK, Blocks, Block, Latches, Lamps, DoorStates, RampStates, Frames, Idle,
            bellVars, statusVars, fireVars
<1>1. CASE UNCHANGED vars
  BY <1>1 DEF vars
<1>2. CASE ResetButton
  BY <1>2 DEF ResetButton, OffStopButton
<1>3. CASE RefreshLamps
  BY <1>3 DEF RefreshLamps
<1>4. CASE TakePinch
  BY <1>4 DEF TakePinch
<1>5. CASE TakeStates
  BY <1>5 DEF TakeStates
<1>6. CASE NoStatus
  BY <1>6 DEF NoStatus
<1>7. CASE SendDoorOpen
  BY <1>7 DEF SendDoorOpen, OffStopButton, TakeLatch, SendCommand
<1>8. CASE SendDoorClose
  BY <1>8 DEF SendDoorClose, TakeLatch, SendCommand
<1>9. CASE SendSlopeOpen
  BY <1>9 DEF SendSlopeOpen, TakeLatch, SendCommand
<1>10. CASE SendSlopeClose
  BY <1>10 DEF SendSlopeClose, TakeLatch, SendCommand
<1>11. CASE StopPressed
  BY <1>11 DEF StopPressed, OnStopButton, TakeLatch
<1>12. CASE DisabledPressed
  BY <1>12 DEF DisabledPressed, OnStopButton, TakeLatch
<1>13. CASE FireAlarm
  BY <1>13 DEF FireAlarm, SendCommand
<1>14. CASE BleCommand
  BY <1>14 DEF BleCommand
<1>15. ASSUME NEW from \in Blocks, NEW to \in Blocks, NEW latch \in Latches,
              NotPressed(from, to, latch)
       PROVE  TypeOK'
  BY <1>15 DEF NotPressed
<1>16. ASSUME NEW latch \in Latches, SetLatch(latch) PROVE TypeOK'
  BY <1>16 DEF SetLatch
<1>17. CASE DetectFire
  BY <1>17 DEF DetectFire
<1>18. CASE Transmit
  BY <1>18 DEF Transmit
<1>19. CASE DoorControlBtnISR \/ SlopeControlBtnISR \/ StopBtnISR \/ DisabledStopBtnISR
  BY <1>16, <1>19 DEF DoorControlBtnISR, SlopeControlBtnISR, StopBtnISR, DisabledStopBtnISR
<1>20. QED
  BY <1>1, <1>2, <1>3, <1>4, <1>5, <1>6, <1>7, <1>8, <1>9, <1>10, <1>11, <1>12, <1>13,
     <1>14, <1>15, <1>17, <1>18, <1>19
  DEF Next, Loop

(* Every reachable state of the driver ECU is well typed.                  *)
THEOREM TypeCorrect == Spec => []TypeOK
<1>1. Init => TypeOK
  BY DEF Init, TypeOK, Blocks, Latches, Lamps, DoorStates, RampStates, Frames, Idle
<1>2. QED
  BY <1>1, TypeStep, PTL DEF Spec

-----------------------------------------------------------------------------

BellInv == DisabledBellIsCancellable /\ MonitorShowsBell

\* Only six blocks write the bell or the byte the lamps share.
LEMMA BellFrame ==
    [Next]_vars =>
        \/ UNCHANGED bellVars
        \/ ResetButton
        \/ RefreshLamps
        \/ TakePinch
        \/ SendDoorOpen
        \/ StopPressed
        \/ DisabledPressed
        \/ FireAlarm
  BY DEF Next, Loop, vars, bellVars, TakeStates, NoStatus, SendDoorClose, SendSlopeOpen,
         SendSlopeClose, BleCommand, NotPressed, SetLatch, StopBtnISR, DisabledStopBtnISR,
         DoorControlBtnISR, SlopeControlBtnISR, DetectFire, Transmit

LEMMA BellStep == BellInv /\ [Next]_vars => BellInv'
<1> SUFFICES ASSUME BellInv, [Next]_vars PROVE BellInv'
  OBVIOUS
<1> USE DEF BellInv, DisabledBellIsCancellable, MonitorShowsBell, bellVars
<1>1. CASE UNCHANGED bellVars
  BY <1>1
<1>2. CASE ResetButton
  BY <1>2 DEF ResetButton, OffStopButton
<1>3. CASE RefreshLamps
  BY <1>3 DEF RefreshLamps
<1>4. CASE TakePinch
  BY <1>4 DEF TakePinch
<1>5. CASE SendDoorOpen
  BY <1>5 DEF SendDoorOpen, OffStopButton
<1>6. CASE StopPressed
  BY <1>6 DEF StopPressed, OnStopButton
<1>7. CASE DisabledPressed
  BY <1>7 DEF DisabledPressed, OnStopButton
<1>8. CASE FireAlarm
  BY <1>8 DEF FireAlarm
<1>9. QED
  BY BellFrame, <1>1, <1>2, <1>3, <1>4, <1>5, <1>6, <1>7, <1>8

LEMMA BellTheorem == Spec => []BellInv
<1>1. Init => BellInv
  BY DEF Init, BellInv, DisabledBellIsCancellable, MonitorShowsBell
<1>2. QED
  BY <1>1, BellStep, PTL DEF Spec

(* The disabled bell is never on without the stop bell: offStopButton, the *)
(* only place that cancels it, always can.                                 *)
THEOREM DisabledBellTheorem == Spec => []DisabledBellIsCancellable
  BY BellTheorem, PTL DEF BellInv

(* The Stop lamp says what the bell is, in every order of the blocks that  *)
(* write the lamps.                                                        *)
THEOREM MonitorTheorem == Spec => []MonitorShowsBell
  BY BellTheorem, PTL DEF BellInv

(* A door opening always takes the disabled passenger's request with it:   *)
(* were the stop bell off, the request would be off already.               *)
THEOREM OpenServesTheorem == Spec => OpenServesDisabledBell
<1>1. BellInv /\ [Next]_vars => [SendDoorOpen => ~disabledBell']_vars
  BY DEF BellInv, DisabledBellIsCancellable, SendDoorOpen, OffStopButton, bellVars
<1>2. QED
  BY <1>1, BellTheorem, PTL DEF Spec, OpenServesDisabledBell
=============================================================================
