----------------------------- MODULE CanSocket ------------------------------
(***************************************************************************)
(* The life cycle of the CAN library on one controller: wrappers of the    *)
(* ECUs over sockets, sockets over cores, cores over the slots of the      *)
(* platform, slots over the channels of the TC3xx driver, channels over    *)
(* MCAN nodes and transceivers.  Opening and closing may fail at every     *)
(* layer, and each layer takes back what the ones below have reserved.     *)
(* The library is called by one thread: a call is one step.                *)
(***************************************************************************)
EXTENDS Integers, FiniteSets

CONSTANTS
    Sockets,     \* CANSocket objects; each owns a core of the same name
    Wrapped,     \* those inside a DoorECUCAN or DriverECUCAN
    AppCores,    \* cores a program opens on the platform itself
    Ports,       \* CAN ports of the board, each with an MCAN node of its own
    Modules,     \* MCAN modules
    ModuleOf,    \* the module of a port's node
    MaxChannels, \* CAN_PLATFORM_MAX_CHANNELS
    NoCore, NoPort

Cores == Sockets \cup AppCores
Slots == 1..MaxChannels

ASSUME SocketAssumption ==
    /\ Wrapped \subseteq Sockets
    /\ Sockets \cap AppCores = {}
    /\ NoCore \notin Cores
    /\ NoPort \notin Ports
    /\ IsFiniteSet(Ports)
    /\ ModuleOf \in [Ports -> Modules]
    /\ MaxChannels \in Nat \ {0}

VARIABLES
    hw,        \* static data of the platform, the driver and the board
    core,      \* CANCore: state, driver_channel (a slot), driver_port
    socket,    \* CANSocket: core, owns_core (platform_opened is the same)
    is_open,   \* wrappers that take themselves for open
    shared,    \* ghost: the platform was reset under a channel of another core
    unstopped, \* ghost: sockets closed although their channel could not be stopped
    unslept    \* ghost: ports whose power-off failed, since the board was initialised

vars == <<hw, core, socket, is_open, shared, unstopped, unslept>>

Idle == [port |-> NoPort, started |-> FALSE]
Closed == [state |-> "CLOSED", slot |-> 0, port |-> NoPort]
Unbound == [core |-> NoCore, owns |-> FALSE]

\* Where a call to open a port can fail: an unknown port or a configuration the
\* driver refuses, a power-on the board refuses; the rest follows from the state.
OpenFaults == {"NONE", "CONFIG", "POWER"}

Init ==
    /\ hw = [initialized |-> FALSE,
             owner |-> [i \in Slots |-> NoCore],
             channel |-> [i \in Slots |-> Idle],
             node_in_use |-> {},
             ref_count |-> [m \in Modules |-> 0],
             standby |-> {}]
    /\ core = [c \in Cores |-> Closed]
    /\ socket = [s \in Sockets |-> Unbound]
    /\ is_open = {}
    /\ shared = FALSE
    /\ unstopped = {}
    /\ unslept = {}

-----------------------------------------------------------------------------
(* Nodes, modules and transceivers; h is hw in the middle of a call.       *)

Reserve(h, p) == [h EXCEPT !.node_in_use = @ \cup {p}]
ReleaseNode(h, p) == [h EXCEPT !.node_in_use = @ \ {p}]
AcquireModule(h, p) == [h EXCEPT !.ref_count[ModuleOf[p]] = @ + 1]

\* Mutant: the module forgets the other nodes in use.
MutReleaseModule(h, p) == [h EXCEPT !.ref_count[ModuleOf[p]] = 0]

ReleaseModule(h, p) ==
    [h EXCEPT !.ref_count[ModuleOf[p]] = IF @ > 0 THEN @ - 1 ELSE @]

SetStandby(h, p, on) ==
    [h EXCEPT !.standby = IF on THEN @ \cup {p} ELSE @ \ {p}]

PowerOff(h, p, pin) == IF pin THEN SetStandby(h, p, TRUE) ELSE h

\* Mutant: the rollback also gives back the module, which it has not acquired yet.
MutUndoOpen(h, p) ==
    [h EXCEPT !.node_in_use = @ \ {p}, !.ref_count[ModuleOf[p]] = @ - 1]

\* Nothing above the reservation of the node has been taken when power-on fails.
UndoOpen(h, p) == ReleaseNode(h, p)

\* Mutant: a node in use is handed out again.
MutNodeFree(h, p) == TRUE

NodeFree(h, p) == p \notin h.node_in_use

TC3xxOpen(h, i, p, fault) ==
    IF fault = "CONFIG" \/ ~NodeFree(h, p) THEN h
    ELSE IF fault = "POWER" THEN UndoOpen(Reserve(h, p), p)
    ELSE [AcquireModule(Reserve(h, p), p) EXCEPT
              !.channel[i] = [port |-> p, started |-> FALSE]]

IsOpen(h, i) == i \in Slots /\ h.channel[i].port # NoPort

\* canTC3xxClose of an open channel; a failing power-off is ignored.
TC3xxClose(h, i, pin) ==
    LET p == h.channel[i].port IN
    [ReleaseNode(ReleaseModule(PowerOff(h, p, pin), p), p) EXCEPT !.channel[i] = Idle]

\* Mutant: the channel runs with its transceiver left in standby.
MutTC3xxStart(h, i) == [h EXCEPT !.channel[i].started = TRUE]

TC3xxStart(h, i) ==
    [SetStandby(h, h.channel[i].port, FALSE) EXCEPT !.channel[i].started = TRUE]

TC3xxStop(h, i) ==
    [SetStandby(h, h.channel[i].port, TRUE) EXCEPT !.channel[i].started = FALSE]

-----------------------------------------------------------------------------
(* The platform.                                                           *)

\* What the nodes and modules of the cleared channels hold stays reserved.
ClearSlots(h) ==
    [h EXCEPT !.owner = [i \in Slots |-> NoCore], !.channel = [i \in Slots |-> Idle]]

BoardInit(h) == [h EXCEPT !.standby = Ports]

InitPlatform(h) == [ClearSlots(BoardInit(h)) EXCEPT !.initialized = TRUE]
DeinitPlatform(h) == [ClearSlots(h) EXCEPT !.initialized = FALSE]

Owners(h) == {h.owner[i] : i \in Slots} \ {NoCore}
SlotOf(h, c) == CHOOSE i \in Slots : h.owner[i] = c

\* CANPlatformAllocateSlot: the first free slot.
Allocates(h, i) ==
    /\ h.owner[i] = NoCore
    /\ \A j \in Slots : h.owner[j] = NoCore => i <= j

\* The early returns of CANPlatformOpen before it touches the core.
MayOpen(h, c) == h.initialized /\ c \notin Owners(h)

ReleaseSlot(h, i) == [h EXCEPT !.owner[i] = NoCore, !.channel[i] = Idle]

OpenPort(h, i, c, p, fault) ==
    LET h1 == TC3xxOpen([h EXCEPT !.owner[i] = c, !.channel[i] = Idle], i, p, fault) IN
    IF IsOpen(h1, i) THEN h1 ELSE ReleaseSlot(h1, i)

\* What CANCoreOpen makes of the core c when h is the outcome of OpenPort.
CoreAfterOpen(h, i, c, p) ==
    IF c \in Owners(h) THEN [state |-> "OPENED", slot |-> i, port |-> p] ELSE Closed

\* CANPlatformClose closes the core and its channel, or does nothing.
Closable(h, c) ==
    c \in Owners(h) /\ core[c].state # "CLOSED" /\ IsOpen(h, core[c].slot)

ClosePort(h, c, pin) == ReleaseSlot(TC3xxClose(h, core[c].slot, pin), SlotOf(h, c))

-----------------------------------------------------------------------------
(* Calls of a program that uses the platform and the cores itself.         *)

\* A reset of the platform under the channel of a core that is not in mine.
Sharing(mine) == shared' = (shared \/ Owners(hw) \ mine # {})

PlatformInit ==
    /\ hw' = InitPlatform(hw)
    /\ Sharing({})
    /\ unslept' = {}
    /\ UNCHANGED <<core, socket, is_open, unstopped>>

\* CANPlatformInit, of a socket or of the program, when a pin does not answer: those
\* before it have been set.
BoardInitFails ==
    /\ \E P \in SUBSET Ports : hw' = [hw EXCEPT !.standby = @ \cup P]
    /\ Sharing({})
    /\ UNCHANGED <<core, socket, is_open, unstopped, unslept>>

PlatformDeinit ==
    /\ hw' = DeinitPlatform(hw)
    /\ Sharing({})
    /\ UNCHANGED <<core, socket, is_open, unstopped, unslept>>

PlatformOpen(c, p, fault) ==
    /\ MayOpen(hw, c)
    /\ \E i \in Slots :
           /\ Allocates(hw, i)
           /\ hw' = OpenPort(hw, i, c, p, fault)
           /\ core' = [core EXCEPT ![c] = CoreAfterOpen(hw', i, c, p)]
    /\ UNCHANGED <<socket, is_open, shared, unstopped, unslept>>

PlatformClose(c, pin) ==
    /\ Closable(hw, c)
    /\ hw' = ClosePort(hw, c, pin)
    /\ core' = [core EXCEPT ![c] = Closed]
    /\ unslept' = IF pin THEN unslept ELSE unslept \cup {hw.channel[core[c].slot].port}
    /\ UNCHANGED <<socket, is_open, shared, unstopped>>

\* A start that fails leaves the core and the channel as they were.
CoreStart(c) ==
    /\ core[c].state = "OPENED"
    /\ IsOpen(hw, core[c].slot)
    /\ hw' = TC3xxStart(hw, core[c].slot)
    /\ core' = [core EXCEPT ![c].state = "STARTED"]
    /\ UNCHANGED <<socket, is_open, shared, unstopped, unslept>>

CoreStop(c) ==
    /\ core[c].state = "STARTED"
    /\ IsOpen(hw, core[c].slot)
    /\ hw' = TC3xxStop(hw, core[c].slot)
    /\ core' = [core EXCEPT ![c].state = "OPENED"]
    /\ UNCHANGED <<socket, is_open, shared, unstopped, unslept>>

SocketBindCore(s, c) ==
    /\ ~socket[s].owns
    /\ socket[s].core \in {NoCore, c}
    /\ socket' = [socket EXCEPT ![s].core = c]
    /\ UNCHANGED <<hw, core, is_open, shared, unstopped, unslept>>

SocketUnbind(s) ==
    /\ ~socket[s].owns
    /\ socket' = [socket EXCEPT ![s] = Unbound]
    /\ core' = [core EXCEPT ![s] = Closed]
    /\ UNCHANGED <<hw, is_open, shared, unstopped, unslept>>

-----------------------------------------------------------------------------
(* CANSocketOpen and CANSocketClose, and the ECU wrappers around them.     *)

\* doorECUCANOpen looks at its flag, CANSocketOpen at the fields of the socket.
SocketMayOpen(s) == s \notin is_open /\ socket[s] = Unbound

OpenFails(s, h) ==
    /\ s \notin Owners(h)
    /\ hw' = DeinitPlatform(h)
    /\ UNCHANGED <<core, socket, is_open>>

\* Mutant: the channel stays open when it could not be started.
MutStartFails(s, h, i, pin) ==
    /\ s \in Owners(h)
    /\ hw' = DeinitPlatform(h)
    /\ UNCHANGED <<core, socket, is_open>>

\* The standby pin fails at the start, and perhaps again at the power-off.
StartFails(s, h, i, pin) ==
    /\ s \in Owners(h)
    /\ hw' = DeinitPlatform(ReleaseSlot(TC3xxClose(h, i, pin), i))
    /\ UNCHANGED <<core, socket, is_open>>

OpenSucceeds(s, h, i, p) ==
    /\ s \in Owners(h)
    /\ hw' = TC3xxStart(h, i)
    /\ core' = [core EXCEPT ![s] = [state |-> "STARTED", slot |-> i, port |-> p]]
    /\ socket' = [socket EXCEPT ![s] = [core |-> s, owns |-> TRUE]]
    /\ is_open' = is_open \cup ({s} \cap Wrapped)

\* The socket's own core is closed whenever the call is not refused.
SocketOpen(s, p, fault) ==
    /\ SocketMayOpen(s)
    /\ \E i \in Slots :
           /\ Allocates(InitPlatform(hw), i)
           /\ LET h == OpenPort(InitPlatform(hw), i, s, p, fault) IN
              \/ OpenFails(s, h)
              \/ \E pin \in BOOLEAN : StartFails(s, h, i, pin)
              \/ OpenSucceeds(s, h, i, p)
    /\ Sharing({s})
    /\ unslept' = {}
    /\ UNCHANGED unstopped

\* CANCoreStop fails when its channel is gone or the pin does not answer.
StopFails(s, pin) ==
    core[s].state = "STARTED" /\ (~pin \/ ~IsOpen(hw, core[s].slot))

\* A channel is stopped whoever it belongs to by now.
AfterStop(s, pin) ==
    IF core[s].state = "STARTED" /\ ~StopFails(s, pin) THEN TC3xxStop(hw, core[s].slot)
    ELSE hw

\* Mutant: a core that has been stopped before makes the close fail.
MutCloseOk(s, pin) == core[s].state = "STARTED" /\ ~StopFails(s, pin) /\ Closable(hw, s)

CloseOk(s, pin) == ~StopFails(s, pin) /\ Closable(hw, s)

SocketClose(s, pin, offPin) ==
    /\ socket[s].owns
    /\ LET h == AfterStop(s, pin) IN
       hw' = DeinitPlatform(IF Closable(h, s) THEN ClosePort(h, s, offPin) ELSE h)
    /\ core' = [core EXCEPT ![s] = Closed]
    /\ socket' = [socket EXCEPT ![s] = Unbound]
    /\ is_open' = IF CloseOk(s, pin) THEN is_open \ {s} ELSE is_open
    /\ unstopped' = IF StopFails(s, pin) THEN unstopped \cup {s} ELSE unstopped
    /\ Sharing({s})
    /\ UNCHANGED unslept

-----------------------------------------------------------------------------
Next ==
    \/ PlatformInit
    \/ BoardInitFails
    \/ PlatformDeinit
    \/ \E c \in AppCores, p \in Ports, fault \in OpenFaults : PlatformOpen(c, p, fault)
    \/ \E c \in AppCores, pin \in BOOLEAN : PlatformClose(c, pin)
    \/ \E c \in Cores : CoreStart(c) \/ CoreStop(c)
    \/ \E s \in Sockets, c \in AppCores : SocketBindCore(s, c)
    \/ \E s \in Sockets : SocketUnbind(s)
    \/ \E s \in Sockets, p \in Ports, fault \in OpenFaults : SocketOpen(s, p, fault)
    \/ \E s \in Sockets, pin, offPin \in BOOLEAN : SocketClose(s, pin, offPin)

Spec == Init /\ [][Next]_vars

-----------------------------------------------------------------------------
(* Properties.                                                             *)

TypeOK ==
    /\ hw \in [initialized : BOOLEAN,
               owner : [Slots -> Cores \cup {NoCore}],
               channel : [Slots -> [port : Ports \cup {NoPort}, started : BOOLEAN]],
               node_in_use : SUBSET Ports,
               ref_count : [Modules -> Nat],
               standby : SUBSET Ports]
    /\ core \in [Cores -> [state : {"CLOSED", "OPENED", "STARTED"},
                           slot : Slots \cup {0}, port : Ports \cup {NoPort}]]
    /\ socket \in [Sockets -> [core : Cores \cup {NoCore}, owns : BOOLEAN]]
    /\ is_open \subseteq Wrapped
    /\ shared \in BOOLEAN
    /\ unstopped \subseteq Sockets
    /\ unslept \subseteq Ports

(* However sockets and platform are mixed, no node is driven twice, and a  *)
(* module's count is that of its reserved nodes: canTC3xxAcquireModule     *)
(* never initialises a module again under a node that runs.                *)
NodeAccounting ==
    /\ \A i \in Slots : IsOpen(hw, i) => hw.channel[i].port \in hw.node_in_use
    /\ \A i, j \in Slots :
           IsOpen(hw, i) /\ hw.channel[i].port = hw.channel[j].port => i = j
    /\ \A m \in Modules :
           hw.ref_count[m] = Cardinality({p \in hw.node_in_use : ModuleOf[p] = m})

(* As long as the platform is not reset under somebody's channel, nothing  *)
(* leaks, whichever call has failed: what is reserved belongs to a core    *)
(* that is open on it, so a closed port can be opened again.               *)
NothingLeaks ==
    ~shared =>
        /\ hw.node_in_use = {core[c].port : c \in Owners(hw)}
        /\ Owners(hw) = {c \in Cores : core[c].state # "CLOSED"}

(* A started core sends and receives on the port it was opened with, with  *)
(* the transceiver awake: its channel was neither closed nor given to      *)
(* another core behind its back.  A transceiver nobody has started sleeps, *)
(* also that of a channel which was stopped or whose start failed, unless  *)
(* its pin failed at power-off, which canTC3xxClose ignores.               *)
StartedCoreIsWired ==
    ~shared =>
        /\ \A c \in Cores : core[c].state = "STARTED" =>
              /\ hw.channel[core[c].slot] = [port |-> core[c].port, started |-> TRUE]
              /\ core[c].port \notin hw.standby
        /\ hw.initialized => \A p \in Ports :
              \/ p \in hw.standby \cup unslept
              \/ \E c \in Cores : core[c].state = "STARTED" /\ core[c].port = p

(* The flag of an ECU wrapper follows its socket, whichever layer fails,   *)
(* with one exception: when the channel cannot be stopped the socket is    *)
(* reset and the flag stays, so the wrapper refuses as busy for ever       *)
(* although nothing is open.                                               *)
WrapperFollowsSocket ==
    LET open == {s \in Wrapped : socket[s].owns}
        stuck == Wrapped \cap unstopped IN
    /\ open \cup stuck \subseteq is_open /\ open \cap stuck = {}
    /\ ~shared => is_open = open \cup stuck

HolderOf(p) ==
    IF \E c \in Cores : core[c].port = p THEN CHOOSE c \in Cores : core[c].port = p
    ELSE NoCore

Exclusive == INSTANCE CanPorts WITH
    Clients <- Cores, Nobody <- NoCore, holder <- [p \in Ports |-> HolderOf(p)]

(* Opening and closing implement exclusive ports, even when one socket     *)
(* resets the platform under another: the port that leaks is then held by  *)
(* a core that cannot use it, never by two.                                *)
ImplementsPorts == Exclusive!Spec

=============================================================================
