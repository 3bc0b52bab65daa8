# A verification project for smart-bus-access

smart-bus-access makes a bus accessible: a passenger's phone advertises a BLE
request, the bus rings its stop bell, opens its electric door and lowers a ramp.
Four controllers do this: an ESP32 that scans for phones, the **driver ECU** and
the **door ECU** (Infineon TC375, C), and a **slope ECU** that turns the ramp motor.
This directory models the control logic of those programs in TLA+, checks it with
TLC and proves part of it with TLAPS. Source paths below are relative to `src/src/`;
line numbers of the repository's README are those of `src/README.md`.

## 1. The system

### Components

| Component | State it keeps | Operations | Talks to | Module |
|---|---|---|---|---|
| Door ECU control loop, `door-ecu/.../door_ecu_control.c` | request flags, `slopeTxPending`, `slopeOpenEstimated`, `lastDoorActuation`, `doorMotionStartMs`, the status fields | `doorEcuControlPoll`: take BLE and CAN commands, sense, react to a jam, serve the ramp link, run the policy, drive the door, send the status | all parts of the door ECU; the driver ECU over CAN | `DoorEcu` |
| Door drive, `door_control/Door_Control.c` | `targetDuty`, `currentDuty`, `lastUpdateTick` | `driveDoorOpen`, `driveDoorClose`, `doorUpdate` | called by the loop | `DoorEcu` |
| Slope UART link, `slope_uart/` | sender (sequence number, retries), receiver (last number), adapter (`g_desiredCmd`, `g_lastQueuedCmd`, `g_inflightCmd`, success mailbox) | request, poll, consume success; on the far side receive, acknowledge, hand over | door ECU and slope ECU over a serial line | `SlopeTx` (promise), `SlopeUart` (protocol) |
| Driver ECU loop and interrupts, `driver-ecu/Cpu0_Main.c`, `stop_bell.c`, `init_eru.c` | six button latches, bell states, last status of the door ECU, `monitorFlags`, fire flags, one CAN transmit buffer | blocks of the endless loop, four button ISRs | door ECU over CAN, BLE bridge, cores 1 and 2 by shared bytes | `DriverEcu` |
| Obstacle detection, `obstacle_detect/` | state of one ultrasonic measurement shared by a service call and two ISRs | `Service`, timer interrupt, echo interrupt | door ECU loop | `ObstacleDetect` |
| CAN service, executor, operations, `can/core/` | pool of operations, table of active operations, `next_index` | submit, poll, release | the CAN core; used by the library's tests, not by the ECU programs | `CanService` |
| CAN core, socket, channel life cycle, `can_core.c`, `can_socket.c`, `can_platform.c`, `can_tc3xx.c`, `board_tc375_lite.c` | slots of the platform, channels, nodes in use, reference counts of modules, standby pins, core and socket states, `is_open` of the wrappers | open, start, stop, close, bind, unbind, platform reset | the MCAN hardware and the transceivers | `CanSocket` (over the promise `CanPorts`) |
| CAN wrappers of the two ECUs, `driver_ecu_can.c`, `door_ecu_can.c`, and the send and receive paths below them | one transmit and one receive buffer per node, the last status and command, the alive toggle | send command, publish status, poll | each other, over the bus | `CanLink` (over the promise `LossyLink`) |
| BLE UART and ESP32 bridge, `ble_uart/`, `bluetooth-module/` | sender, parser and `g_last_queued_cmd` of the ESP32; receiver, parser and mailbox of the ECU; the line between them | scan, send, retry, give up; poll, acknowledge, deliver, consume | phones, door ECU, driver ECU | `BleUart` |
| Slope motor, `slope-ecu/Slope_Control.c` | `isSlopeMoving`, `currentStepCount`, `stepIndex` | open, close, update | called by the slope ECU's main program, which is not in the repository | not modelled |
| Fire detection, core 2, `fire_detect_module.c` | last samples, `gIsFireDetected` | sample, evaluate | driver ECU loop | its latch only, in `DriverEcu` |
| Monitor, audio, VCOM, board tables, `shock_detect.c`, Android app, CAN tests | display or output only, or no state | | | not modelled (section 7) |

### What makes it hard

* **Nothing is synchronous.** The ramp takes a command over a lossy serial line with
  time-outs, retries and attempts given up, while the loop keeps polling and other
  commands replace the one in flight.
* **The door ECU does not see its door.** It reports OPENED or CLOSED when an assumed
  travel time has passed, while the real PWM ramp of `doorUpdate` loses time whenever
  a poll comes late, and either may be restarted from the middle by a new command.
* **An obstacle may appear at any instant** around a close: before the command, with
  it, in the same poll, while the door moves.
* **Interrupts and a loop share bytes** in the driver ECU: latches set by interrupts and
  BLE, cleared by the loop; states written by a status frame, read by interrupts.
* **Buffers of one frame**: a CAN channel has one transmit and one receive buffer; neither
  ECU looks at the result of a send, and a frame read late may be from before a restart.
* **Bytes get lost**: the BLE line is parsed byte by byte; a byte lost or damaged shifts
  the frames behind it, and an ESP32 that restarts numbers its frames from 0 again.
* **Layers that fail half-way**: a CAN port is opened through wrapper, socket, core,
  platform, driver and board, each of which may fail and must take back what is below it;
  the platform has one static state that every socket resets.
* **Numbers wrap**: `uint8_t` sequence numbers, a millisecond clock made of a 32-bit
  tick counter.

`PROJECT.json` lists these hazards one by one at the line where they bite.

### What makes each component correct

* *Door ECU*: never close on an obstacle, reopen when one is met; report the door
  where it is; let the estimate of the ramp be what the ramp was told; take the ramp in
  with the door; forget no request.
* *Slope link*: report success only of a command that arrived; hand a command over once;
  in the end deliver it.
* *Driver ECU*: lose no press; let every bell be cancelled; show the bell's state; never
  command a close into a known obstacle; open the door on fire.
* *CAN life cycle*: no node for two channels, no leak after a failed call, and a core
  that is started has a running channel with the transceiver awake, all others sleep; a
  wrapper can be opened again when its socket is closed.
* *CAN link*: what an ECU takes was packed by the other, is taken once and in order; the
  driver comes to see the door.
* *BLE line*: an acknowledged request has been delivered, a request is delivered once,
  and one that stays in sight is carried out.
* *CAN service*: every submitted operation ends once, with one result, in time;
  no slot is used twice or leaked; a poll that reports success has left nothing undone.
* *Obstacle detection*: a measurement always ends, a verdict is of its own echo, and the
  reported obstacle follows the real one.

## 2. The modules and the code

### `DoorEcu`

One call of `doorEcuControlPoll` is a chain of steps named by `pc`, in the order of the
calls in the function:

| `pc` | action | code |
|---|---|---|
| `ble`, `can` | `PollBleCommand`, `PollCanCommand` | the two command polls, each setting request flags |
| `sense` | `UpdateSensors` | `doorEcuControlUpdateSensors`, with the door estimate |
| `jam` | `HandleJamDuringClosing`, `NoJamToHandle` | `doorEcuControlHandleJamDuringClosing` |
| `rx`, `retry`, `send` | `ProcessRx`, `PollRetry`, `TrySendDesired` | the three calls of `slopeUartTc375TxPoll` |
| `txdone` | `HandleSlopeTxSuccess` | `doorEcuControlHandleSlopeTxSuccess` |
| `policy` | six branches of `RunPolicy` | `doorEcuControlRunPolicy`, by priority |
| `door`, `issue`, `status` | `DoorUpdate`, `IssuePendingSlopeCommand`, `PollStatusCan` | the rest of the poll |

Between any two steps time may pass (`Tick`: one period of `DOOR_SPEED_MS`) and the slope
ECU may process a frame (`SlopeDelivery`). The request flags of the C struct are the set
`pending`. The duty cycle is counted in steps of `doorUpdate`. `elapsed` is the time since
`doorMotionStartMs`; `stepDue` says that `tickInterval` has passed since
`lastUpdateTick`. Three ghosts serve the properties: `late` counts the ticks a movement
has lost, `stowOnly` remembers a door close with no ramp opening after it, and `ramp`
(in `SlopeTx`) is what the slope ECU was last told.

### `SlopeTx` and `SlopeUart`

`SlopeTx` is the promise of the adapter: one command in flight, success only after the
slope ECU has processed it, a command given up is started anew. `DoorEcu` extends it and
uses its actions. `SlopeUart` is the protocol behind the promise: stop-and-wait sender and
duplicate-suppressing receiver over two lossy FIFO lines, with time-outs that may pass
early (the millisecond count jumps back when its 32-bit source wraps). Its property
`ImplementsSlopeTx` is the specification of `SlopeTx` under the mapping
`busy <- waiting_ack`; it holds as long as fewer than `SeqMod - 1` attempts in a row are given up,
which the module states as `SeqAssumption` (the code's `SeqMod` is 256). The byte parser is abstracted to frames that arrive whole or not at all.

### `DriverEcu`

The loop of `core0_main` block by block, `pc` naming the next block; the four ISRs,
core 2's fire detection and the bus's `Transmit` may come between any two blocks. A
status frame is taken over in two steps (`TakePinch`, `TakeStates`), for an interrupt in
between sees the new obstacle flag with the old states. `SendCommand` drops the frame when the
transmit buffer holds one, as `canTC3xxSend` returns busy and the loop ignores it.

### `CanService`

| Action | Code (`can/core/`) |
|---|---|
| `Submit`, `Release` | `CANServiceSubmitSend`/`Receive`/`Poll`, `CANServiceReleaseOperation` |
| `RunOne` | `CANServicePollOne`: one turn of the executor |
| `StartPoll`, `PollStep`, `PollIdle`, `PollError` | `CANServicePoll` = `CANExecutorRunUntilIdle`, step by step |
| `Complete`, `StayPending`, `RunError` | the three ends of `CANOperationRunOnce` in one turn |
| `Tick` | the millisecond clock of the deadlines |

What the CAN core answers to one try is left open (`Outcomes`): success, nothing to do
yet, or an error. `Release` tells the executor nothing, as in the code: the slot of an
operation released while it waited stays and is found by a later turn. The time since
an operation's start is counted in `elapsed`.

### `ObstacleDetect`

`ObstacleDetect_Service` step by step (`pc`), the two interrupts `obstacleDetectTrigIsr` and
`obstacleDetectEchoIsr`, and, as external parts, the sensor (`Ping`, `RaiseEcho`, `LowerEcho`)
and what stands before it (`near`). The tick counters of the code are differences here:
`sinceKick` is `now - last_kick_tick` (and `now - measure_start_tick`, set together), `gap` the
time since `now_tick` was read, so the code's `now_tick - last_kick_tick` is `sinceKick - gap`.
A tick is longer than the trigger pulse; when a tick passes between reading `now_tick` and
arming the compare, the compare is missed for sure, otherwise it may be. The compare that
the initialisation arms is due about when the first measurement starts (`cmp = "DUE"`) and may cut
its pulse short or come before it.

`DoorEcu` does not use this module: it takes any reading at any poll, which is more than
`ObstacleDetect` allows.

### `CanSocket` and `CanPorts`

The library is called by one thread, so a call is one action, composed of operators that
follow its layers; `h` in their arguments is the hardware state in the middle of the call.

| Operator or action | Code (`can/`) |
|---|---|
| `Reserve`, `NodeFree`, `ReleaseNode`, `AcquireModule`, `ReleaseModule` | the accounts of `canTC3xxOpen`/`Close` |
| `TC3xxOpen`, `UndoOpen`, `TC3xxClose`, `TC3xxStart`, `TC3xxStop` | the driver, with the transceiver's standby pin |
| `InitPlatform`, `DeinitPlatform`, `OpenPort`, `ClosePort` | `can_platform.c`: slots and cores |
| `SocketOpen` = `OpenFails`, `StartFails` or `OpenSucceeds`; `SocketClose` | `CANSocketOpen`, `CANSocketClose` and the wrappers around them |
| `PlatformInit`, `PlatformOpen`, `CoreStart`, `SocketBindCore`, ... | a program that uses platform and cores without a socket |

`fault` says at which layer an open fails, `pin` whether a standby pin answers. A pin that
fails leaves two traces in the code, which two ghosts name: `unstopped` are the sockets that were
closed although their channel could not be stopped, `unslept` the ports whose power-off failed, which
`canTC3xxClose` ignores, since the board was last initialised.
`CANSocketOpen` and `CANSocketClose` reset the platform under everybody else's channels;
the ghost `shared` marks that this has happened to a live channel, and the properties that
cannot survive it say so. `CAN_V2_ROADMAP.md:289` names the several-socket case as a
limitation. `CanPorts` is what remains true even then: a port has one holder at most.

### `CanLink` and `LossyLink`

Both wrappers down to the buffers: `SendCommand`, `PublishStatus`, `PollStatus`, `PollCommand`
are the calls of the ECU programs, `Transmit`, `TransmitUnheard`, `BusOff`, `Recover`,
`PowerLoss`, `Start` the world around them. Payloads are bytes, packed and unpacked as in
`driver_with_door_protocol.h`. A send into a full transmit buffer is refused; a frame that
meets a full receive buffer is dropped or replaces the one there (the controller may do
either). `LossyLink` is the promise of one direction, and `CanLink` implements it twice; the
abstract queue is what the receiver will make of its receive buffer and of the sender's
transmit buffer. `DoorEcu` and `DriverEcu` take frames from this link as inputs.

### `BleUart`

One turn of the ESP32's `loop` is `ProcessRx`, once for each byte in its input buffer,
`PollRetry` when the buffer is empty, and `ScanAndSend` (the scan takes longer than the ACK
time-out, hence `aged`). The door ECU reads a byte in `EcuPoll` and gives the control loop its
mailbox in `ConsumeCmd`; between any two bytes everything else may happen. Parser and checksum
are modelled as they are, so that resynchronisation can be checked. The line loses or damages
bytes (`Noise`), a full input buffer cuts frames (`Write`), and both sides restart.

Ghosts serve the properties and the proofs. `of`, in every byte and in both ends, names the
frame that a byte is the first of and the frame whose first byte a parser started on; no
guard reads it. `fresh` are the numbers started and not delivered; `delivered` says that the
command awaiting its ACK has been; `excused` collects three reasons why the code does lose or
repeat a request: a number used again while an older frame of it is under way ("sent"), or while
the other end still remembers or answers it ("known"), and a restart that empties a full
mailbox ("emptied"); section 6 has the last two.

`Genuine` says what the checksum is for: a frame that a parser takes for whole is the one
whose first byte it started on.

## 3. The runs

| Run | Specification and bounds | What it shows |
|---|---|---|
| `DoorEcu` | `Spec`; 2 duty steps, margin 2, one late tick, all 18 CAN frames | the safety properties of the door ECU under every interleaving |
| `DoorEcuLive` | `FairSpec`; 1 duty step, margin 1, three CAN frames | a jam reopens the door; a door open request is served; over a good link a queued ramp command is acknowledged or replaced |
| `SlopeUart` | `FairSpec`; 4 sequence numbers, 2 retries, 2 give-ups in a row, lines of 3 frames | the protocol implements `SlopeTx`; duplicates are suppressed; a ramp command is in the end delivered and reported |
| `DriverEcu` | `FairSpec`; no constants, the whole state space | bells, lamps and door opening stay consistent; no press of a bell is lost |
| `CanService` | `FairSpec`; 3 operations, 3 slots, time-out of 1 tick, polls of 2 steps | every operation has a result or one slot; results are final; a successful poll leaves nothing; what is not endless drains |
| `ObstacleDetect` | `FairSpec`; time-out 5, period 10, threshold 1, echoes of 1, 2 and 7 ticks, polls up to 2 ticks apart | a measurement ends in time; a valid verdict is that of the last ping; reports follow the obstacle |
| `CanSocket` | `Spec`; 2 sockets, one in a wrapper, 2 cores of the program, 2 ports on one module, 2 slots | accounts, rollbacks and wiring hold whatever fails; the life cycle implements `CanPorts` |
| `CanLink` | `FairSpec`; 2 commands and 2 door views that differ in every field | frames are taken once and in order; after the faults the driver sees the door |
| `BleUart` | `FairSpec`, byte by byte; commands NOP and ramp, 3 sequence numbers, 1 retry, input buffer of 8 bytes, 1 fault, 1 restart that spares nothing or 2 bytes | an ACK means delivered; no duplicate; what is taken for a frame is one that was sent; a request that stays is carried out |
| `AutoOpenNeedsOpenDoor`, `NoCloseWithObstacle`, `FireOpensDoor` | expected violations | section 6 |

**Why the bounds are enough.** Two duty steps give a leaf that is shut, open and in
between, so a movement can be reversed from the middle; the proofs of section 5 hold for every
number. Margin 2 with one late tick is the smallest instance with a late tick
that is not the last of the margin. The door run takes every frame the payload can
carry; the liveness run takes three frames that between them reach every branch of
the policy, because the temporal check is costly and the frames left out set subsets of the same flags.
In `SlopeUart` the interesting coincidence is a stale ACK or DATA frame with the number
of a new attempt: 4 numbers with 2 give-ups in a row are the smallest instance with
`MaxGiveUps + 2 <= SeqMod` in which several old frames travel beside the new one, and
lines of 3 hold one frame of each attempt; the proofs of section 5 cover the rest.
`DriverEcu` needs no bounds. In `CanService` three operations
are the fewest with one before and one behind the current slot; one tick tells "in time" from "late"; two steps a poll let it
end with work left, and in the middle of a round. `ObstacleDetect` keeps the order of the
real times (echo of an obstacle 1.7 ms, time-out 30 ms, longest echo 38 ms, period 100 ms); an echo of
7 ends after the time-out, and 2 ticks between polls let a call start in time and end late. Its
assumption `Timeout + 2 * MaxGap < Period` is needed (TLC refutes `VerdictIsOfLastPing` with time-out
3, period 4 and polls 1 apart) and leaves the loop 35 ms between two calls. In `CanSocket` two sockets are
the fewest that reset each other, a core of the program beside them opens the port that
a socket has leaked, and two ports on one module are the fewest that make its count matter.
`CanLink` needs values that differ in every field and no more: the proof covers all bytes. In `BleUart` a
buffer of 8 holds one frame and cuts the second, 3 numbers separate "last", "this" and "next", 2
spared bytes leave a tail that the parser must throw away, and one fault in the middle of a
retransmission is what the retry is for; the proofs hold for every number of each.

Every bound in a guard: `late < MaxLate` in `Tick`; `elapsed` saturates at `MoveTicks`,
after which the code only asks whether the time has passed; `giveUps < MaxGiveUps` in
`GiveUp`; `Len(line) < LineFrames` in `Put`; `elapsed` of `CanService` saturates at
`TimeoutTicks`, after which the code only asks whether the deadline has passed (that a
deadline wraps after 2^32 ms is not modelled); `faults < MaxFaults` in `Noise` and, for an ECU that
does not poll during a whole scan, in `ScanAndSend`; `restarts < MaxRestarts` in the two
restarts; `BufferSize` in `Write`; `Cut` in `LeftBy`. Deadlock is checked in all runs.

## 4. Fairness

* `DoorEcu!FairSpec`: `WF(ControlPoll)`, for `core0_main` calls it in an endless loop and
  none of its steps waits; `WF(Tick)`, for time passes; `SF(NoCommand)`, for a poll takes
  microseconds and a driver presses a button seldom, so polls without a frame
  recur. Without the last, one manual ramp command per poll would keep
  `doorEcuControlRunPolicy` from ever reaching its door-open branch.
* `RampCommandResolves` assumes `GoodLink`: the frame in flight is processed, its ACK is read when it keeps
  being there, and from some time on no attempt is given up. It is needed: over a
  line that is dead for ever the code retries for ever, and nothing can be promised.
* `SlopeUart!FairSpec`: the loop and the slope ECU go on; ACKs that keep being there are
  read; a pending frame is acknowledged or times out (`Settles`), for the clock runs.
  That a line is not dead for longer than `MaxGiveUps + 1` attempts is the guard
  `Lossy`, part of the safety model.
* `DriverEcu!FairSpec`: the loop is endless, and the bus transmits a pending frame.
* `ObstacleDetect!FairSpec`: the loop is endless, interrupts are served within a tick, the
  sensor answers, time passes. `StayingObstacleIsSeen` assumes that compares are not missed
  for ever: each miss clears the verdict until the next period, in which the door ECU sees no obstacle.
* `CanService!FairSpec`: the caller goes on running its operations, as the library asks of
  it (nothing runs by itself), and time passes. `QuietDrains` assumes that submissions stop:
  with new ones an operation can be passed over for ever (section 6).
* `CanLink!FairSpec`: the status period passes again and again, the driver's loop polls, and
  the door's controller gets the bus. No fairness for `Recover`, which neither program
  calls; `DriverSeesDoor` speaks of runs in which both ECUs are on from some time on.
* `BleUart!FairSpec`: both loops turn (`ProcessRx`, `PollRetry`, `ScanAndSend` and `EcuPoll`,
  `ConsumeCmd`), and none of their steps waits for the other side. Faults and restarts end by their bounds;
  `RequestReaches` excepts the behaviours marked by `excused`.

## 5. The proofs

`DoorEcuProofs` proves, for every `DutySteps > 0`, every `MaxLate < MarginTicks` and
every set of CAN frames (the three named assumptions of `DoorEcu`):

| Theorem | Property | Argument |
|---|---|---|
| `TypeCorrect` | `TypeOK` | inductive as it stands |
| `ReportedDoorTheorem` | `ReportedDoorIsPhysical` | `DoorInv`: what is left of a movement plus the time since its start is at most the whole travel plus the ticks lost; so when the assumed time `DutySteps + MarginTicks` has passed, and `MaxLate < MarginTicks`, nothing is left |
| `PinchedLeafTheorem` | `PinchedLeafNeverCloses` | `JamInv`: once the reaction step is over no closing motion and no close command for the same poll survives a reading; with `DoorInv` the motion says where the target is |
| `EstimateTheorem` | `EstimateMatchesRamp` | `LinkInv`: which of `desired`, `lastQueued`, `inflight` agree in each state of the link, and that a success in the mailbox names the ramp's command |
| `DoorCloseTheorem` | `DoorCloseStowsRamp` | `StowInv`: while a door close is in force no ramp opening is pending or queued; with `LinkInv` for the command already in flight |

None of the four properties is inductive alone: each speaks of one moment (`pc = "status"`,
a settled link, nothing queued) and needs what leads to it. The conjuncts are preserved
one action at a time; lemmas state what the actions of the link and of the door do to
the conjuncts the others need.

`DriverEcuProofs` proves `TypeOK`, `DisabledBellIsCancellable`, `MonitorShowsBell` (their
conjunction with `TypeOK` is inductive) and the action property
`OpenServesDisabledBell`, which rests on the first: `offStopButton` clears the
disabled bell only when the stop bell is on.

`CanServiceProofs` proves `TypeOK`, `NothingForgotten`, `ResultsAreFinal` and
`PollOkMeansDone` for every size of pool and executor. The conjunction of the first three
is inductive: the absence of a finished operation from the slots is what keeps
`CANOperationRunOnce` from touching a result, and the absence of duplicates is what makes
the removal of one slot remove the operation. Two lemmas, on `RemoveAt` and on `Append`,
say what happens to the slots.

`SlopeUartProofs` proves `TypeOK`, `DuplicatesSuppressed` and the refinement `ImplementsSlopeTx` for
every number of sequence numbers, retries and frames on the line, under `MaxGiveUps + 2 <= SeqMod`.
None of them is inductive: what makes a stale frame harmless is its age. The invariant
counts ages backwards from `pending_seq`: on either line ages do not grow from head
to tail, everything on a line is at most as old as the attempts given up since the last success
allow, and so a number equal to the pending one is of the pending attempt. The receiver's
last number is part of the same order. From it follow the three theorems.

`ObstacleDetectProofs` proves `TypeOK`, `VerdictIsOfLastPing` and `MeasurementEnds` for all
times with `Timeout + 2 * MaxGap < Period`. The invariant has four parts beside the types:
`Clocks` bounds the three clocks against each other at each `pc`, `Trigger` says when a compare
is armed, `EchoIsOwn` and `PulseIsOwn` tie an echo under way and a finished one to the last ping.

`CanSocketProofs` proves `TypeOK` and `NodeAccounting`, whose conjunction is inductive: each operator of
the hardware has a lemma that it keeps a sound state sound. For `NothingLeaks`,
`StartedCoreIsWired` and `WrapperFollowsSocket` it is strengthened by `Wired`: slot, owner, channel, node
and core agree one to one until somebody resets the platform under a live channel. `Asleep`,
preserved under `Wired`, is the half of `StartedCoreIsWired` about transceivers nobody has started.
The last part of the module proves the refinement `ImplementsPorts` from a weaker invariant, `Held`, that
survives such a reset: an open core's node stays reserved, no two cores are on one port, and a
slot with an owner is the one its owner was opened on.

`CanLinkProofs` proves, for all commands and views, that packing and unpacking give
back every command and every status (`CommandRoundTrip`, `StatusRoundTrip`), `TypeOK`, and both
refinements of `LossyLink`, action by action: a transmission moves the head of the sender's buffer
along the same abstract queue or loses one of its frames.

`BleUartProofs` speaks of every number space up to 256, every retry limit and buffer size and any
number of faults and restarts. It begins with the checksum: `ChecksumCatchesAnyByte` proves that
a frame in which any one byte behind its start has been replaced by any other byte does not parse, because
exclusive or cancels and the step of the CRC is one to one, so that a difference, once made,
stays. Then the line:

| Theorem | Property | Hypothesis |
|---|---|---|
| `TypeTheorem` | `TypeOK` | `[]Genuine` |
| `AckTheorem` | `AckMeansDelivered` | `[]Genuine` |
| `OnceTheorem` | `DeliveredOnce` | `[]Genuine` |
| `OnlyValidCommands` | the mailbox part of `TypeOK` | none |
| `QuietTheorem` | all three | none on the checksum: nothing is lost, the ECU polls in every turn, nobody restarts, the input buffer has room for a frame |

Eight bits of checksum cannot tell every combination of lost and damaged bytes from a frame that
was sent: with enough of them a shifted frame passes. So what is proved of a line that loses
bytes is proved under `[]Genuine`: as long as the checksum does catch the damage, the protocol does the rest.
For the damage within the run's bounds TLC checks `Genuine`, as the last conjunct of `TypeOK`; for one
damaged byte `ChecksumCatchesAnyByte`, and for a line that is left alone `QuietTheorem`, prove it
for every value of the constants.
`TypeTheorem` therefore shows the other conjuncts of `TypeOK`: `Genuine` is its hypothesis.

The invariant is `WireOK /\ Meant /\ InOrder /\ NotAnswered`. `WireOK` are the types that hold whatever the
bytes become; `Meant` that what the ECU keeps has been sent to it. `InOrder` is what
`DeliveredOnce` needs: parser, line and the command being sent are read as one sequence of frames (`Way`), in which
frames of one number are next to each other, and a frame that is not new has before it nothing but frames of
the last number delivered. Noise, overflow, restarts and reading all make this sequence a thinner one
(`Embeds`), so one lemma serves them; only starting a command and delivering one change it otherwise.
`NotAnswered` is what `AckMeansDelivered` needs: no acknowledgement of a command not
delivered is on the way, and the ECU would not make one for an older frame.
`Quiet`, for the last theorem, says that each parser and its line share exactly one frame or none,
and that one of the two lines is empty.

Only model-checked: the liveness properties of the runs, for fairness and ENABLED are beyond the prover. Every
invariant, every action property and every refinement of a passing run is a theorem.

## 6. Where code and documents disagree

Each of these three is a run that TLC refutes, and a finding in `PROJECT.json`.

1. `AutoOpenNeedsOpenDoor` (`door_ecu_control.c:598`): a stocked ramp open is released while
   the door closes, with the leaf already shut, because `door_opened` stays 1 until the
   close is assumed complete. The comment above forbids it.
2. `NoCloseWithObstacle` (`driver-ecu/Cpu0_Main.c:220`): a close latched by an interrupt is
   sent after a status frame has reported an obstacle.
3. `FireOpensDoor` (`driver-ecu/Cpu0_Main.c:298`): the one open command of a fire alarm is
   lost when the transmit buffer is occupied. The property speaks of the alarm's edge, so one OPEN
   that is accepted satisfies it: TLC finds no violation of a loop whose send is never refused.

Observations made while modelling, without a run of their own, because no document states
the contrary in so many words or because they lie outside a model's assumption:

* A jam cancels the CLOSE that waits behind an OPEN in flight; the ECU then reports the ramp as
  stowed though it has been told to open (`door_ecu_control.c:240`).
* After 255 attempts given up in a row a new ramp command meets the last delivered number
  and is acknowledged, but dropped (`slope_uart.c:317`): what `SeqAssumption` excludes.
* When the standby pin fails as a wrapper is closed, the close returns the error of `CANCoreStop`, but
  `CANSocketClose` has reset the socket and the platform. The wrapper keeps `is_open`
  (`door_ecu_can.c:81`, `driver_ecu_can.c:80`), so every later open returns `CAN_STATUS_EBUSY`, which
  `door_ecu_can.h:118` defines as "the wrapper is already open", and a second close is refused
  because the socket is unbound: nothing is open and nothing can be opened again.
  `WrapperFollowsSocket` says, and `WrapperTheorem` proves, that these are exactly the wrappers whose flag
  is wrong (`unstopped`), as long as no platform is reset under a live channel.
* A power-off whose pin fails is ignored by `canTC3xxClose` (`can_tc3xx.c:910`): the port is free again and
  its transceiver awake. `StartedCoreIsWired` excepts exactly these ports (`unslept`).
* The executor is described as round-robin (`can_executor.h:26`), but when an operation
  completes, the next one takes its index, and the one behind the end is index 0 again
  (`can_executor.c:52`): with new submissions an operation, and its time-out, may be passed over for ever.
* The ESP32 numbers its frames from 0 after a restart while the door ECU remembers the last
  number: if that was 0, the first request is acknowledged but dropped as a duplicate. A door ECU that
  restarts with a full mailbox loses a request it has acknowledged. Both are `excused` in `BleUart`.
* The mailbox of the BLE adapter holds one command, and a newer one replaces it untaken.
* The ESP32's copy of `ble_uart.c` accepts requests up to OPEN, the ECUs' copies also CLOSE; the
  driver ECU's copy runs the line at 9600 baud, the ESP32 and the door ECU at 115200.
* Neither ECU program recovers a controller from bus-off. A driver ECU whose port cannot be
  opened halts, a door ECU runs on without CAN.
* `driveSlopeOpen` and `driveSlopeClose` have the same body and `stepIndex` only counts up, so the
  ramp motor as written turns one way.

## 7. Not modelled

* LCD and the monitor core, sounds, LEDs, buzzer and debug port: outputs nothing reads back.
* `shock_detect.c`: an initialisation nothing calls. The Android app: a user interface
  that starts an advertisement. The Infineon libraries: vendored. The CAN library's tests: read
  as a statement of what the library promises.
* The slope motor: a step counter; the program that calls it, and so what a command does to
  it, is not in the repository.
* Core 2 beyond its fire latch: the DHT11 bit timing and the rise of temperature over the last
  ten samples depend on the sensor alone.
* Register writes, pin routing and PWM registers: hardware, no control to get wrong between
  steps. The GPIO failures that the fixed tables of the TC375 Lite board cannot cause, and the
  failures of filter and module set-up that validation has excluded before.
* CAN: the blocking calls `SendTimeout`, `ReceiveTimeout`, `ReceiveMatch` and `Poll` of core and socket,
  the alive checks and `ForceSafeCommand` of the wrappers: no ECU program calls them. Foreign
  identifiers, which the hardware filter stops.
* BLE: the RSSI threshold, an input filter. An ECU that misses more than `MaxFaults` whole scans.
* A PWM that failed to initialise (`doorReady`), and the shadow-status fields nothing reads.
* The restart of the door ECU with the ramp out: the hazard is listed; what its memory should
  be after a restart no document says.

## 8. Plan

1. `DoorEcu`, `SlopeTx`, `SlopeUart`, `DriverEcu`, `CanService`, `ObstacleDetect`: done, with proofs.
2. `CanSocket` over `CanPorts`: done, with proofs of every property of its run.
3. `CanLink` over `LossyLink`: done, with proofs of all but its liveness.
4. `BleUart`: done, with proofs of all but its liveness.
5. Left: the behaviour of the whole after a restart of the door ECU; a model of the slope
   motor, when the slope ECU's main program is at hand; the rest of fire detection.
