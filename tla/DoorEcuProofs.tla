---------------------------- MODULE DoorEcuProofs ----------------------------
(***************************************************************************)
(* Proofs about DoorEcu, for every number of duty steps, every margin, any *)
(* lateness below it and any set of CAN frames.                            *)
(***************************************************************************)
EXTENDS DoorEcu, TLAPS

(***************************************************************************)
(* The inductive invariant, in four parts.  Each is inductive once TypeOK  *)
(* and the parts before it are known.                                      *)
(***************************************************************************)

\* Duty steps that the current movement still has to make.
Remaining == IF targetDuty = DutySteps THEN DutySteps - currentDuty ELSE currentDuty

(* Where the leaf is, given what the ECU believes.  The last conjunct is   *)
(* the race of the two clocks: steps left and time gone never exceed what  *)
(* a movement takes when it loses no more ticks than it has lost.          *)
DoorInv ==
    /\ lastDoorActuation = "OPEN" => targetDuty = DutySteps /\ door_motion = "OPENING"
    /\ lastDoorActuation = "CLOSE" => targetDuty = 0 /\ door_motion = "CLOSING"
    /\ lastDoorActuation = "NONE" =>
         /\ currentDuty = targetDuty
         /\ doorOpenEstimated <=> targetDuty = DutySteps
         /\ door_motion \in {"UNKNOWN", IF doorOpenEstimated THEN "OPENED" ELSE "CLOSED"}
    /\ door_motion = "UNKNOWN" => pc \in {"ble", "can", "sense"}
    /\ Remaining # 0 => Remaining + elapsed <= DutySteps + late + (IF stepDue THEN 1 ELSE 0)

(* An obstacle that has been reacted to leaves no closing door behind, and *)
(* no close command for the policy of the same poll.                       *)
JamInv ==
    jam_detected =>
        /\ pc # "jam" => door_motion # "CLOSING"
        /\ pc \in {"rx", "retry", "send", "txdone", "policy"} => "doorManualClose" \notin pending

(* One command at a time, and what is known of the ramp in each state of   *)
(* the link.                                                               *)
EstimateRight == slopeOpenEstimated <=> ramp = "OPEN"
LinkInv ==
    /\ busy => desired = inflight /\ lastQueued = inflight
    /\ ~busy => lastQueued \in {"NONE", "FORCE"}
    /\ lastQueued = "FORCE" =>
         /\ desired = inflight
         /\ pc \in {"ble", "can", "sense", "jam", "rx", "retry", "send"}
    /\ (busy \/ lastQueued = "FORCE") /\ inflight = "NONE" => EstimateRight
    /\ reached /\ inflight # "NONE" => ramp = inflight
    /\ txSuccess # "EMPTY" =>
         /\ pc \in {"retry", "send", "txdone"}
         /\ ~busy /\ desired = "NONE" /\ lastQueued = "NONE"
         /\ IF txSuccess = "NONE" THEN EstimateRight ELSE ramp = txSuccess
    /\ EstimateMatchesRamp

(* After a door close nothing is left that could open the ramp.            *)
StowInv ==
    stowOnly =>
        /\ pending \cap RampOpening = {}
        /\ slopeTxPending # "OPEN"
        /\ DoorCloseStowsRamp

-----------------------------------------------------------------------------
(* Type correctness.                                                       *)

LEMMA MoveTicksNat == MoveTicks \in Nat /\ DutySteps \in Nat /\ DutySteps > 0
BY DutyAssumption, MarginAssumption DEF MoveTicks

LEMMA LinkTypes ==
    ASSUME TxTypeOK
    PROVE  /\ TxAck => TxTypeOK'
           /\ TxGiveUp => TxTypeOK'
           /\ TxSend => TxTypeOK'
           /\ TxConsume => TxTypeOK'
           /\ TxDeliver => TxTypeOK'
           /\ \A c \in RampCmd : TxRequest(c) => TxTypeOK'
           /\ UNCHANGED txVars => TxTypeOK'
BY DEF TxTypeOK, TxAck, TxGiveUp, TxSend, TxConsume, TxDeliver, TxRequest,
       txVars, CanSend, Cmd, RampCmd

LEMMA DoorTypes ==
    ASSUME TypeOK, NEW a \in RampCmd, ApplyDoor(a)
    PROVE  /\ targetDuty' \in {0, DutySteps}
           /\ lastDoorActuation' \in Cmd
           /\ elapsed' \in 0..MoveTicks
           /\ late' \in 0..MaxLate
           /\ door_motion' \in {"UNKNOWN", "OPENING", "OPENED", "CLOSING", "CLOSED"}
BY MoveTicksNat, MarginAssumption DEF ApplyDoor, RampCmd, Cmd

LEMMA TypeStep == TypeOK /\ [Next]_vars => TypeOK'
<1> SUFFICES ASSUME TypeOK, [Next]_vars PROVE TypeOK'
  OBVIOUS
<1> USE MoveTicksNat DEF Poll, PollSteps, rampVars, doorVars, driveVars, ecuVars
<1>1. CASE PollBleCommand
  BY <1>1, LinkTypes DEF PollBleCommand, TypeOK, Requests
<1>2. ASSUME NEW cmd \in CanCommands, CombinedRequest(cmd) PROVE TypeOK'
  <2>1. DoorRequest(cmd[1]) \cup SlopeRequest(cmd[2], cmd[3]) \subseteq Requests
    BY DEF DoorRequest, SlopeRequest, Requests
  <2>2. QED
    BY <1>2, <2>1, LinkTypes DEF CombinedRequest, TypeOK
<1>3. CASE NoCommand
  BY <1>3, LinkTypes DEF NoCommand, TypeOK
<1>4. CASE UpdateSensors
  BY <1>4, LinkTypes DEF UpdateSensors, UpdateDoorEstimate, TypeOK, Cmd
<1>5. CASE HandleJamDuringClosing
  BY <1>5, DoorTypes, LinkTypes DEF HandleJamDuringClosing, TypeOK, Cmd, RampCmd
<1>6. CASE NoJamToHandle
  BY <1>6, LinkTypes DEF NoJamToHandle, TypeOK
<1>7. CASE ProcessRx
  BY <1>7, LinkTypes DEF ProcessRx, TypeOK
<1>8. CASE PollRetry
  BY <1>8, LinkTypes DEF PollRetry, TypeOK
<1>9. CASE TrySendDesired
  BY <1>9, LinkTypes DEF TrySendDesired, TypeOK
<1>10. CASE HandleSlopeTxSuccess
  BY <1>10, LinkTypes DEF HandleSlopeTxSuccess, TypeOK, Cmd
<1>11. CASE ManualDoorClose
  BY <1>11, DoorTypes, LinkTypes DEF ManualDoorClose, TypeOK, Cmd, RampCmd, Requests
<1>12. CASE ManualSlopeClose
  BY <1>12, LinkTypes DEF ManualSlopeClose, TypeOK, Cmd
<1>13. CASE ManualSlopeOpen
  BY <1>13, LinkTypes DEF ManualSlopeOpen, TypeOK, Cmd
<1>14. CASE ManualDoorOpen /\ (ReleaseAutoOpen \/ ReleaseAutoClose \/ NoRelease)
  <2>1. /\ pending' \subseteq Requests
        /\ slopeTxPending' \in Cmd
    BY <1>14 DEF ReleaseAutoOpen, ReleaseAutoClose, NoRelease, TypeOK, Cmd
  <2>2. CASE ApplyDoor("OPEN")
    BY <1>14, <2>1, <2>2, DoorTypes, LinkTypes DEF ManualDoorOpen, TypeOK, RampCmd
  <2>3. CASE UNCHANGED doorVars
    BY <1>14, <2>1, <2>3, LinkTypes DEF ManualDoorOpen, TypeOK
  <2>4. QED
    BY <1>14, <2>2, <2>3 DEF ManualDoorOpen
<1>15. CASE DoorUpdate
  <2>1. currentDuty' \in 0..DutySteps
    BY <1>15 DEF DoorUpdate, TypeOK
  <2>2. QED
    BY <1>15, <2>1, LinkTypes DEF DoorUpdate, TypeOK
<1>16. CASE IssuePendingSlopeCommand
  BY <1>16, LinkTypes DEF IssuePendingSlopeCommand, TypeOK, Cmd, RampCmd
<1>17. CASE PollStatusCan
  BY <1>17, LinkTypes DEF PollStatusCan, TypeOK
<1>18. CASE Tick
  BY <1>18, LinkTypes, MarginAssumption DEF Tick, TypeOK
<1>19. CASE SlopeDelivery
  BY <1>19, LinkTypes DEF SlopeDelivery, TypeOK
<1>20. CASE UNCHANGED vars
  BY <1>20, LinkTypes DEF vars, TypeOK
<1>21. QED
  BY <1>1, <1>2, <1>3, <1>4, <1>5, <1>6, <1>7, <1>8, <1>9, <1>10, <1>11, <1>12,
     <1>13, <1>14, <1>15, <1>16, <1>17, <1>18, <1>19, <1>20
     DEF Next, ControlPoll, PollCanCommand, RunPolicy, ReleaseAutoOpen,
         ReleaseAutoClose, NoRelease

(* Every variable keeps its type, whatever the constants.                  *)
THEOREM TypeCorrect == Spec => []TypeOK
<1>1. Init => TypeOK
  <2>1. 0 \in 0..DutySteps /\ 0 \in 0..MoveTicks /\ 0 \in 0..MaxLate
    BY MoveTicksNat, MarginAssumption
  <2>2. TxInit => TxTypeOK
    BY DEF TxInit, TxTypeOK, Cmd, RampCmd
  <2>3. QED
    BY <2>1, <2>2 DEF Init, TypeOK, PollSteps, Cmd
<1>2. QED
  BY <1>1, TypeStep, PTL DEF Spec

-----------------------------------------------------------------------------
(* The door.                                                               *)

\* The steps that leave the door alone: they move pc within the poll.
doorFrame == <<doorVars, driveVars, doorOpenEstimated>>

LEMMA DoorFrame ==
    ASSUME TypeOK, [Next]_vars
    PROVE  \/ UNCHANGED doorFrame /\ (pc' = pc \/ pc' \in {"can", "sense"} \/ pc \notin {"ble", "can", "sense"})
           \/ UpdateSensors
           \/ \E a \in RampCmd : ApplyDoor(a) /\ UNCHANGED <<driveVars, doorOpenEstimated>>
                                /\ pc' \in {"rx", "door"}
           \/ DoorUpdate
           \/ Tick
BY DEF Next, ControlPoll, PollBleCommand, PollCanCommand, CombinedRequest, NoCommand,
       HandleJamDuringClosing, NoJamToHandle, ProcessRx, PollRetry, TrySendDesired,
       HandleSlopeTxSuccess, RunPolicy, ManualDoorClose, ManualSlopeClose,
       ManualSlopeOpen, ManualDoorOpen, ReleaseAutoOpen, ReleaseAutoClose, NoRelease,
       IssuePendingSlopeCommand, PollStatusCan, SlopeDelivery, vars, ecuVars,
       doorFrame, doorVars, driveVars, Poll, RampCmd

LEMMA DoorStep == TypeOK /\ DoorInv /\ [Next]_vars => DoorInv'
<1> SUFFICES ASSUME TypeOK, DoorInv, [Next]_vars PROVE DoorInv'
  OBVIOUS
<1>t. /\ lastDoorActuation \in Cmd /\ targetDuty \in {0, DutySteps}
      /\ currentDuty \in 0..DutySteps /\ elapsed \in 0..MoveTicks
      /\ late \in 0..MaxLate /\ stepDue \in BOOLEAN /\ doorOpenEstimated \in BOOLEAN
      /\ DutySteps \in Nat \ {0} /\ MarginTicks \in Nat /\ MaxLate \in Nat
      /\ MaxLate < MarginTicks /\ MoveTicks = DutySteps + MarginTicks
  BY DutyAssumption, MarginAssumption DEF TypeOK, MoveTicks
<1>1. CASE UNCHANGED doorFrame /\ (pc' = pc \/ pc' \in {"can", "sense"} \/ pc \notin {"ble", "can", "sense"})
  BY <1>1 DEF DoorInv, Remaining, doorFrame, doorVars, driveVars
<1>2. CASE UpdateSensors
  <2>1. ASSUME lastDoorActuation # "NONE", elapsed = MoveTicks
        PROVE  currentDuty = targetDuty
    \* The steps are done before the assumed time is over.
    BY <1>t, <2>1 DEF DoorInv, Remaining
  <2>2. CASE lastDoorActuation # "NONE" /\ elapsed < MoveTicks
    BY <1>t, <1>2, <2>2
    DEF UpdateSensors, UpdateDoorEstimate, DoorInv, Remaining, driveVars, Poll, Cmd
  <2>3. CASE lastDoorActuation # "NONE" /\ ~(elapsed < MoveTicks)
    <3>1. currentDuty = targetDuty
      BY <1>t, <2>1, <2>3
    <3>2. QED
      BY <1>t, <1>2, <2>3, <3>1
      DEF UpdateSensors, UpdateDoorEstimate, DoorInv, Remaining, driveVars, Poll, Cmd
  <2>4. CASE lastDoorActuation = "NONE"
    BY <1>t, <1>2, <2>4
    DEF UpdateSensors, UpdateDoorEstimate, DoorInv, Remaining, driveVars, Poll
  <2>5. QED
    BY <2>2, <2>3, <2>4
<1>3. ASSUME NEW a \in RampCmd, ApplyDoor(a), UNCHANGED <<driveVars, doorOpenEstimated>>,
             pc' \in {"rx", "door"}
      PROVE  DoorInv'
  BY <1>t, <1>3 DEF ApplyDoor, RampCmd, DoorInv, Remaining, driveVars
<1>4. CASE DoorUpdate
  <2>1. CASE stepDue /\ currentDuty # targetDuty
    BY <1>t, <1>4, <2>1 DEF DoorUpdate, DoorInv, Remaining, doorVars, Poll
  <2>2. CASE ~(stepDue /\ currentDuty # targetDuty)
    BY <1>t, <1>4, <2>2 DEF DoorUpdate, DoorInv, Remaining, doorVars, driveVars, Poll
  <2>3. QED
    BY <2>1, <2>2
<1>5. CASE Tick
  BY <1>t, <1>5 DEF Tick, DoorInv, Remaining
<1>6. QED
  BY <1>1, <1>2, <1>3, <1>4, <1>5, DoorFrame

(* DoorEcu.ReportedDoorIsPhysical, for every travel and margin: the status *)
(* frame never calls a leaf open or shut that is still on its way.         *)
THEOREM ReportedDoorTheorem == Spec => []ReportedDoorIsPhysical
<1>1. Init => DoorInv
  BY DutyAssumption DEF Init, DoorInv, Remaining
<1>2. TypeOK /\ DoorInv => ReportedDoorIsPhysical
  BY DutyAssumption DEF TypeOK, DoorInv, ReportedDoorIsPhysical, DoorStateForCan, Cmd
<1>3. QED
  BY <1>1, <1>2, DoorStep, TypeCorrect, PTL DEF Spec

-----------------------------------------------------------------------------
(* The obstacle.                                                           *)

LEMMA JamStep == TypeOK /\ DoorInv /\ JamInv /\ [Next]_vars => JamInv'
<1> SUFFICES ASSUME TypeOK, DoorInv, JamInv, [Next]_vars PROVE JamInv'
  OBVIOUS
<1> USE DEF JamInv, Poll
<1>1. CASE PollBleCommand
  BY <1>1 DEF PollBleCommand, doorVars
<1>2. ASSUME NEW cmd \in CanCommands, CombinedRequest(cmd) PROVE JamInv'
  BY <1>2 DEF CombinedRequest, doorVars
<1>3. CASE NoCommand
  BY <1>3 DEF NoCommand, doorVars
<1>4. CASE UpdateSensors
  \* A new reading: the reaction is the next step.
  BY <1>4 DEF UpdateSensors
<1>5. CASE HandleJamDuringClosing
  BY <1>5 DEF HandleJamDuringClosing, ApplyDoor, CloseSide
<1>6. CASE NoJamToHandle
  BY <1>6 DEF NoJamToHandle, JamDuringClosing, doorVars
<1>7. CASE ProcessRx \/ PollRetry \/ TrySendDesired \/ IssuePendingSlopeCommand
  BY <1>7 DEF ProcessRx, PollRetry, TrySendDesired, IssuePendingSlopeCommand, ecuVars, doorVars
<1>8. CASE HandleSlopeTxSuccess
  BY <1>8 DEF HandleSlopeTxSuccess, doorVars
<1>9. CASE ManualDoorClose
  \* Impossible under a jam: the close request is gone by now.
  BY <1>9 DEF ManualDoorClose
<1>10. CASE ManualSlopeClose \/ ManualSlopeOpen
  BY <1>10 DEF ManualSlopeClose, ManualSlopeOpen, doorVars
<1>11. CASE ReleaseAutoOpen \/ ReleaseAutoClose \/ NoRelease
  <2>1. ManualDoorOpen
    BY <1>11 DEF ReleaseAutoOpen, ReleaseAutoClose, NoRelease
  <2>2. QED
    BY <2>1 DEF ManualDoorOpen, ApplyDoor, doorVars
<1>12. CASE DoorUpdate
  BY <1>12 DEF DoorUpdate, doorVars
<1>13. CASE PollStatusCan
  BY <1>13 DEF PollStatusCan, ecuVars, doorVars
<1>14. CASE Tick \/ SlopeDelivery \/ UNCHANGED vars
  BY <1>14 DEF Tick, SlopeDelivery, vars, ecuVars, doorVars
<1>15. QED
  BY <1>1, <1>2, <1>3, <1>4, <1>5, <1>6, <1>7, <1>8, <1>9, <1>10, <1>11, <1>12,
     <1>13, <1>14 DEF Next, ControlPoll, PollCanCommand, RunPolicy

(* DoorEcu.PinchedLeafNeverCloses: whatever frames, readings and delays    *)
(* come together, a leaf that meets an obstacle is not driven shut.        *)
THEOREM PinchedLeafTheorem == Spec => []PinchedLeafNeverCloses
<1>1. Init => DoorInv /\ JamInv
  BY DutyAssumption DEF Init, DoorInv, Remaining, JamInv
<1>2. TypeOK /\ DoorInv /\ JamInv => PinchedLeafNeverCloses
  BY DutyAssumption DEF TypeOK, DoorInv, JamInv, PinchedLeafNeverCloses, Cmd
<1>3. QED
  BY <1>1, <1>2, DoorStep, JamStep, TypeCorrect, PTL DEF Spec

-----------------------------------------------------------------------------
(* The slope link.                                                         *)

\* The steps that leave link and estimate alone.
linkFrame == <<txVars, slopeOpenEstimated>>

LEMMA LinkFrame ==
    ASSUME [Next]_vars
    PROVE  \/ /\ UNCHANGED linkFrame
              /\ \/ pc \in {"ble", "can", "sense", "jam"} /\ pc' \in {"can", "sense", "jam", "rx"}
                 \/ pc \in {"policy", "door", "status"}
           \/ UNCHANGED linkFrame /\ pc' = pc
           \/ ProcessRx \/ PollRetry \/ TrySendDesired \/ HandleSlopeTxSuccess
           \/ IssuePendingSlopeCommand
           \/ SlopeDelivery
BY DEF Next, ControlPoll, PollBleCommand, PollCanCommand, CombinedRequest, NoCommand,
       UpdateSensors, HandleJamDuringClosing, NoJamToHandle, RunPolicy, ManualDoorClose,
       ManualSlopeClose, ManualSlopeOpen, ManualDoorOpen, ReleaseAutoOpen,
       ReleaseAutoClose, NoRelease, DoorUpdate, PollStatusCan, Tick, vars, ecuVars,
       linkFrame, rampVars, Poll

LEMMA LinkStep == TypeOK /\ LinkInv /\ [Next]_vars => LinkInv'
<1> SUFFICES ASSUME TypeOK, LinkInv, [Next]_vars PROVE LinkInv'
  OBVIOUS
<1>t. /\ busy \in BOOLEAN /\ reached \in BOOLEAN /\ slopeOpenEstimated \in BOOLEAN
      /\ desired \in Cmd /\ inflight \in Cmd /\ lastQueued \in Cmd \cup {"FORCE"}
      /\ txSuccess \in Cmd \cup {"EMPTY"} /\ ramp \in RampCmd /\ slopeTxPending \in Cmd
  BY DEF TypeOK, TxTypeOK
<1> USE DEF LinkInv, EstimateRight, EstimateMatchesRamp, LinkSettled, Poll
<1>1. CASE /\ UNCHANGED linkFrame
           /\ \/ pc \in {"ble", "can", "sense", "jam"} /\ pc' \in {"can", "sense", "jam", "rx"}
              \/ pc \in {"policy", "door", "status"}
  BY <1>1 DEF linkFrame, txVars
<1>2. CASE UNCHANGED linkFrame /\ pc' = pc
  BY <1>2 DEF linkFrame, txVars
<1>3. CASE ProcessRx
  \* The ACK of an OPEN or CLOSE: the slope ECU has it, so the ramp agrees.
  BY <1>t, <1>3 DEF ProcessRx, TxAck, ecuVars, rampVars, txVars, Cmd
<1>4. CASE PollRetry
  BY <1>t, <1>4 DEF PollRetry, TxGiveUp, ecuVars, rampVars, txVars
<1>5. CASE TrySendDesired
  \* A NONE frame is sent only at boot or again after it was given up.
  BY <1>t, <1>5 DEF TrySendDesired, CanSend, TxSend, ecuVars, rampVars, txVars, Cmd
<1>6. CASE HandleSlopeTxSuccess
  BY <1>t, <1>6 DEF HandleSlopeTxSuccess, TxConsume, rampVars, txVars, Cmd, RampCmd
<1>7. CASE IssuePendingSlopeCommand
  BY <1>t, <1>7 DEF IssuePendingSlopeCommand, TxRequest, ecuVars, rampVars, txVars
<1>8. CASE SlopeDelivery
  BY <1>t, <1>8 DEF SlopeDelivery, TxDeliver, ecuVars, rampVars, Cmd
<1>9. QED
  BY <1>1, <1>2, <1>3, <1>4, <1>5, <1>6, <1>7, <1>8, LinkFrame

(* DoorEcu.EstimateMatchesRamp: a settled link means a right estimate.     *)
THEOREM EstimateTheorem == Spec => []EstimateMatchesRamp
<1>1. Init => LinkInv
  BY DEF Init, TxInit, LinkInv, EstimateRight, EstimateMatchesRamp, LinkSettled
<1>2. LinkInv => EstimateMatchesRamp
  BY DEF LinkInv
<1>3. QED
  BY <1>1, <1>2, LinkStep, TypeCorrect, PTL DEF Spec

-----------------------------------------------------------------------------
(* Closing the door stows the ramp.                                        *)

LEMMA StowStep == TypeOK /\ LinkInv /\ StowInv /\ [Next]_vars => StowInv'
<1> SUFFICES ASSUME TypeOK, LinkInv, StowInv, [Next]_vars, stowOnly' PROVE StowInv'
  BY DEF StowInv
<1>t. /\ busy \in BOOLEAN /\ reached \in BOOLEAN /\ stowOnly \in BOOLEAN
      /\ desired \in Cmd /\ inflight \in Cmd /\ lastQueued \in Cmd \cup {"FORCE"}
      /\ txSuccess \in Cmd \cup {"EMPTY"} /\ ramp \in RampCmd /\ slopeTxPending \in Cmd
  BY DEF TypeOK, TxTypeOK
<1> USE DEF StowInv, DoorCloseStowsRamp
<1>1. CASE PollBleCommand
  BY <1>1 DEF PollBleCommand, rampVars, txVars
<1>2. ASSUME NEW cmd \in CanCommands, CombinedRequest(cmd) PROVE StowInv'
  BY <1>2 DEF CombinedRequest, rampVars, txVars
<1>3. CASE NoCommand \/ UpdateSensors \/ NoJamToHandle \/ DoorUpdate \/ PollStatusCan
  BY <1>3 DEF NoCommand, UpdateSensors, NoJamToHandle, DoorUpdate, PollStatusCan,
              ecuVars, rampVars, txVars
<1>4. CASE HandleJamDuringClosing
  BY <1>4 DEF HandleJamDuringClosing
<1>5. CASE ProcessRx \/ PollRetry \/ TrySendDesired
  BY <1>t, <1>5 DEF ProcessRx, PollRetry, TrySendDesired, TxAck, TxGiveUp, TxSend,
                    ecuVars, rampVars, txVars
<1>6. CASE HandleSlopeTxSuccess
  \* The close that clears slopeTxPending is the one the slope ECU has.
  BY <1>t, <1>6 DEF HandleSlopeTxSuccess, TxConsume, LinkInv, rampVars, txVars, Cmd, RampCmd
<1>7. CASE ManualDoorClose
  BY <1>7 DEF ManualDoorClose, OpenSide, RampOpening
<1>8. CASE ManualSlopeClose \/ ManualSlopeOpen
  BY <1>8 DEF ManualSlopeClose, ManualSlopeOpen, RampOpening
<1>9. CASE ReleaseAutoOpen \/ ReleaseAutoClose \/ NoRelease
  <2>1. ManualDoorOpen
    BY <1>9 DEF ReleaseAutoOpen, ReleaseAutoClose, NoRelease
  <2>2. QED
    BY <1>t, <1>9, <2>1
    DEF ManualDoorOpen, ReleaseAutoOpen, ReleaseAutoClose, NoRelease,
        AutoOpenReleased, RampOpening, txVars
<1>10. CASE IssuePendingSlopeCommand
  BY <1>t, <1>10 DEF IssuePendingSlopeCommand, TxRequest, ecuVars, rampVars, txVars
<1>11. CASE Tick \/ UNCHANGED vars
  BY <1>11 DEF Tick, vars, rampVars, txVars
<1>12. CASE SlopeDelivery
  BY <1>t, <1>12 DEF SlopeDelivery, TxDeliver, LinkInv, ecuVars, rampVars, Cmd
<1>13. QED
  BY <1>1, <1>2, <1>3, <1>4, <1>5, <1>6, <1>7, <1>8, <1>9, <1>10, <1>11, <1>12
     DEF Next, ControlPoll, PollCanCommand, RunPolicy

(* DoorEcu.DoorCloseStowsRamp: a door close takes the ramp with it, for    *)
(* any order of requests, acknowledgements and give-ups.                   *)
THEOREM DoorCloseTheorem == Spec => []DoorCloseStowsRamp
<1>1. Init => LinkInv /\ StowInv
  BY DEF Init, TxInit, LinkInv, EstimateRight, EstimateMatchesRamp, LinkSettled, StowInv
<1>2. StowInv => DoorCloseStowsRamp
  BY DEF StowInv, DoorCloseStowsRamp
<1>3. QED
  BY <1>1, <1>2, LinkStep, StowStep, TypeCorrect, PTL DEF Spec
=============================================================================
