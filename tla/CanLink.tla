------------------------------ MODULE CanLink -------------------------------
(***************************************************************************)
(* The CAN link between the driver ECU and the door ECU: the wrappers      *)
(* driver_ecu_can.c and door_ecu_can.c over the send and receive paths of  *)
(* the CAN library, down to the one transmit buffer and the one receive    *)
(* buffer that each node is configured with.  Each ECU runs its calls in   *)
(* one loop; the two controllers and the bus run beside them.              *)
(***************************************************************************)
EXTENDS Integers

CONSTANTS
    Commands,   \* what the driver's program sends
    Views,      \* what the door's program publishes
    NoFrame     \* an empty buffer

ECU == {"DRIVER", "DOOR"}
Peer(n) == IF n = "DRIVER" THEN "DOOR" ELSE "DRIVER"

\* DOOR_CMD_, RAMP_CMD_, DOOR_STATE_ and RAMP_STATE_ values.
Field == 0..3
CommandSet == [door : Field, ramp : Field, manual : BOOLEAN,
               emergency : BOOLEAN, reset : BOOLEAN]
ViewSet == [pinch : BOOLEAN, door : Field, ramp : Field, fault : BOOLEAN]
StatusSet == [pinch : BOOLEAN, door : Field, ramp : Field, fault : BOOLEAN,
              toggle : BOOLEAN]
Byte == 0..255

ASSUME LinkAssumption ==
    /\ Commands \subseteq CommandSet
    /\ Views \subseteq ViewSet
    /\ NoFrame \notin Byte

VARIABLES
    power,     \* "OFF", "NOCAN" after a failed open, "ON", "BUSOFF"
    tx,        \* the dedicated transmit buffer: a payload whose request is pending
    rx,        \* the dedicated receive buffer: a payload with its new-data flag set
    snapshot,  \* DriverECUCAN.status and DoorECUCAN.command
    toggle,    \* DoorECUCAN.status_cache.alive_toggle; nothing reads the rest of the cache
    view,      \* what the door's program would publish now
    updated    \* ghost: changes with every poll that reports an update

vars == <<power, tx, rx, snapshot, toggle, view, updated>>

-----------------------------------------------------------------------------
(* The payload byte; the identifier of a frame follows from its sender.    *)

Bit(b) == IF b THEN 1 ELSE 0
IsSet(byte, w) == (byte \div w) % 2 = 1

PackCommand(c) ==
    c.door + 4 * c.ramp + 16 * Bit(c.manual) + 32 * Bit(c.emergency) + 64 * Bit(c.reset)

UnpackCommand(byte) ==
    [door |-> byte % 4, ramp |-> (byte \div 4) % 4, manual |-> IsSet(byte, 16),
     emergency |-> IsSet(byte, 32), reset |-> IsSet(byte, 64)]

PackStatus(s) ==
    Bit(s.pinch) + 2 * s.door + 8 * s.ramp + 32 * Bit(s.fault) + 64 * Bit(s.toggle)

\* Mutant: the door state is not masked.
MutUnpackStatus(byte) ==
    [pinch |-> IsSet(byte, 1), door |-> byte \div 2, ramp |-> (byte \div 8) % 4,
     fault |-> IsSet(byte, 32), toggle |-> IsSet(byte, 64)]

UnpackStatus(byte) ==
    [pinch |-> IsSet(byte, 1), door |-> (byte \div 2) % 4, ramp |-> (byte \div 8) % 4,
     fault |-> IsSet(byte, 32), toggle |-> IsSet(byte, 64)]

\* What the ECU n makes of a payload that its receive filter lets through.
Unpack(n, byte) == IF n = "DRIVER" THEN UnpackStatus(byte) ELSE UnpackCommand(byte)

Unheard(n) == [received |-> FALSE, value |-> Unpack(n, 0)]

Init ==
    /\ power = [n \in ECU |-> "OFF"]
    /\ tx = [n \in ECU |-> NoFrame]
    /\ rx = [n \in ECU |-> NoFrame]
    /\ snapshot = [n \in ECU |-> Unheard(n)]
    /\ toggle = FALSE
    /\ view \in Views
    /\ updated = [n \in ECU |-> FALSE]

-----------------------------------------------------------------------------
(* Calls of the programs.  A controller in bus-off still takes calls.      *)

CanOpen(n) == power[n] \in {"ON", "BUSOFF"}

\* Mutant: the pending frame is overwritten.
MutSent(n, byte) == [tx EXCEPT ![n] = byte]

\* The library refuses a frame while the buffer holds another, and neither
\* program looks at the status of its sends.
Sent(n, byte) == IF tx[n] = NoFrame THEN [tx EXCEPT ![n] = byte] ELSE tx

SendCommand(c) ==
    /\ CanOpen("DRIVER")
    /\ tx' = Sent("DRIVER", PackCommand(c))
    /\ UNCHANGED <<power, rx, snapshot, toggle, view, updated>>

Published(v, on) ==
    [pinch |-> v.pinch, door |-> v.door, ramp |-> v.ramp, fault |-> v.fault, toggle |-> on]

\* Mutant: only a jam is published.
MutPublishStatus ==
    /\ CanOpen("DOOR")
    /\ view.pinch
    /\ toggle' = ~toggle
    /\ tx' = Sent("DOOR", PackStatus(Published(view, toggle')))
    /\ UNCHANGED <<power, rx, snapshot, view, updated>>

\* One period of doorEcuControlPollStatusCan; the toggle turns even when the frame
\* is refused.
PublishStatus ==
    /\ CanOpen("DOOR")
    /\ toggle' = ~toggle
    /\ tx' = Sent("DOOR", PackStatus(Published(view, toggle')))
    /\ UNCHANGED <<power, rx, snapshot, view, updated>>

Poll(n) ==
    /\ CanOpen(n)
    /\ rx[n] # NoFrame
    /\ rx' = [rx EXCEPT ![n] = NoFrame]
    /\ snapshot' = [snapshot EXCEPT ![n] = [received |-> TRUE, value |-> Unpack(n, rx[n])]]
    /\ updated' = [updated EXCEPT ![n] = ~@]
    /\ UNCHANGED <<power, tx, toggle, view>>

PollStatus == Poll("DRIVER")
PollCommand == Poll("DOOR")

\* The control loop of the door moves the door or the ramp.
Observe(v) ==
    /\ view' = v
    /\ UNCHANGED <<power, tx, rx, snapshot, toggle, updated>>

-----------------------------------------------------------------------------
(* The controllers, the bus and the power supply.                          *)

\* A frame that meets a full receive buffer is dropped, or replaces the one there.
Transmit(n) ==
    /\ power[n] = "ON"
    /\ power[Peer(n)] = "ON"
    /\ tx[n] # NoFrame
    /\ tx' = [tx EXCEPT ![n] = NoFrame]
    /\ \/ rx' = [rx EXCEPT ![Peer(n)] = tx[n]]
       \/ rx[Peer(n)] # NoFrame /\ rx' = rx
    /\ UNCHANGED <<power, snapshot, toggle, view, updated>>

\* Another node on the bus acknowledges what the peer does not receive.
TransmitUnheard(n) ==
    /\ power[n] = "ON"
    /\ power[Peer(n)] # "ON"
    /\ tx[n] # NoFrame
    /\ tx' = [tx EXCEPT ![n] = NoFrame]
    /\ UNCHANGED <<power, rx, snapshot, toggle, view, updated>>

BusOff(n) ==
    /\ power[n] = "ON"
    /\ power' = [power EXCEPT ![n] = "BUSOFF"]
    /\ UNCHANGED <<tx, rx, snapshot, toggle, view, updated>>

\* CANSocketRecover, which neither program calls: no fairness.
Recover(n) ==
    /\ power[n] = "BUSOFF"
    /\ power' = [power EXCEPT ![n] = "ON"]
    /\ UNCHANGED <<tx, rx, snapshot, toggle, view, updated>>

PowerLoss(n) ==
    /\ power[n] # "OFF"
    /\ power' = [power EXCEPT ![n] = "OFF"]
    /\ tx' = [tx EXCEPT ![n] = NoFrame]
    /\ rx' = [rx EXCEPT ![n] = NoFrame]
    /\ UNCHANGED <<snapshot, toggle, view, updated>>

\* The memory starts empty; an open that fails is not tried again.
Start(n) ==
    /\ power[n] = "OFF"
    /\ \E open \in {"ON", "NOCAN"} : power' = [power EXCEPT ![n] = open]
    /\ snapshot' = [snapshot EXCEPT ![n] = Unheard(n)]
    /\ toggle' = (n # "DOOR" /\ toggle)
    /\ UNCHANGED <<tx, rx, view, updated>>

-----------------------------------------------------------------------------
Next ==
    \/ \E c \in Commands : SendCommand(c)
    \/ PublishStatus
    \/ PollStatus
    \/ PollCommand
    \/ \E v \in Views : Observe(v)
    \/ \E n \in ECU : Transmit(n) \/ TransmitUnheard(n) \/ BusOff(n) \/ Recover(n)
    \/ \E n \in ECU : PowerLoss(n) \/ Start(n)

Spec == Init /\ [][Next]_vars

\* The loops turn and the status period passes again and again; the controller of
\* the door gets the bus at some time.
Fairness == WF_vars(PublishStatus) /\ WF_vars(PollStatus) /\ WF_vars(Transmit("DOOR"))

FairSpec == Spec /\ Fairness

-----------------------------------------------------------------------------
(* Properties.                                                             *)

\* The ECU states, the buffers and the snapshots hold values of their types; in
\* particular a snapshot decodes to a legal state of door and ramp.
TypeOK ==
    /\ power \in [ECU -> {"OFF", "NOCAN", "ON", "BUSOFF"}]
    /\ tx \in [ECU -> Byte \cup {NoFrame}]
    /\ rx \in [ECU -> Byte \cup {NoFrame}]
    /\ snapshot \in [ECU -> [received : BOOLEAN, value : StatusSet \cup CommandSet]]
    /\ snapshot["DRIVER"].value \in StatusSet
    /\ snapshot["DOOR"].value \in CommandSet
    /\ toggle \in BOOLEAN
    /\ view \in Views
    /\ updated \in [ECU -> BOOLEAN]

\* What the ECU n will make of two buffers, the first being the nearer one.
Line(n, first, second) ==
    IF first = NoFrame THEN
        IF second = NoFrame THEN <<>> ELSE <<Unpack(n, second)>>
    ELSE
        IF second = NoFrame THEN <<Unpack(n, first)>>
        ELSE <<Unpack(n, first), Unpack(n, second)>>

InFlight(n) == Line(n, rx[n], tx[Peer(n)])

Statuses == {Published(v, on) : v \in Views, on \in BOOLEAN}

StatusLink == INSTANCE LossyLink WITH
    Messages <- Statuses, Nothing <- Unheard("DRIVER"),
    queue <- InFlight("DRIVER"), got <- snapshot["DRIVER"], flip <- updated["DRIVER"]

CommandLink == INSTANCE LossyLink WITH
    Messages <- Commands, Nothing <- Unheard("DOOR"),
    queue <- InFlight("DOOR"), got <- snapshot["DOOR"], flip <- updated["DOOR"]

(* Whatever is refused, overrun, lost in a bus-off or in a restart, each   *)
(* ECU takes what the other one packed, in the order sent, and acts on a   *)
(* frame once.                                                             *)
ImplementsLossyLink == StatusLink!Spec /\ CommandLink!Spec

Healthy == \A n \in ECU : power[n] = "ON"

ShowsDriver(v) ==
    /\ snapshot["DRIVER"].received
    /\ \A f \in DOMAIN v : snapshot["DRIVER"].value[f] = v[f]

(* When the faults stop and the door comes to rest, the driver's snapshot  *)
(* is the state of the door from some time on, although sends are refused  *)
(* without a retry and old frames wait in the buffers.                     *)
DriverSeesDoor ==
    \A v \in Views : <>[](Healthy /\ view = v) => <>[]ShowsDriver(v)
=============================================================================
