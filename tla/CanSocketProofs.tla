-------------------------- MODULE CanSocketProofs ---------------------------
(***************************************************************************)
(* Proofs about CanSocket, for any number of sockets, cores, ports,        *)
(* modules and slots.                                                      *)
(***************************************************************************)
EXTENDS CanSocket, FiniteSetTheorems, TLAPS

HwType(h) ==
    h \in [initialized : BOOLEAN,
           owner : [Slots -> Cores \cup {NoCore}],
           channel : [Slots -> [port : Ports \cup {NoPort}, started : BOOLEAN]],
           node_in_use : SUBSET Ports,
           ref_count : [Modules -> Nat],
           standby : SUBSET Ports]

NodesOf(h, m) == {p \in h.node_in_use : ModuleOf[p] = m}

CountsNodes(h) == \A m \in Modules : h.ref_count[m] = Cardinality(NodesOf(h, m))

\* NodeAccounting of any state of the hardware, a call being under way or not.
Accounts(h) ==
    /\ \A i \in Slots : IsOpen(h, i) => h.channel[i].port \in h.node_in_use
    /\ \A i, j \in Slots :
           IsOpen(h, i) /\ h.channel[i].port = h.channel[j].port => i = j
    /\ CountsNodes(h)

Sound(h) == HwType(h) /\ Accounts(h)

-----------------------------------------------------------------------------
\* A module counts finitely many nodes.
LEMMA NodesFinite ==
    ASSUME NEW h, HwType(h), NEW m
    PROVE  IsFiniteSet(NodesOf(h, m)) /\ Cardinality(NodesOf(h, m)) \in Nat
<1>1. NodesOf(h, m) \in SUBSET Ports
  BY DEF HwType, NodesOf
<1>2. QED
  BY <1>1, SocketAssumption, FS_Subset, FS_CardinalityType

LEMMA Addition ==
    ASSUME NEW S, IsFiniteSet(S), NEW x, x \notin S
    PROVE  Cardinality(S \cup {x}) = Cardinality(S) + 1
BY FS_AddElement

LEMMA Removal ==
    ASSUME NEW S, IsFiniteSet(S), NEW x \in S
    PROVE  Cardinality(S \ {x}) = Cardinality(S) - 1
BY FS_RemoveElement

\* What leaves nodes and counts alone and opens no channel keeps the accounts.
LEMMA ClosingIsSound ==
    ASSUME NEW h, Sound(h), NEW g, HwType(g),
           g.node_in_use = h.node_in_use, g.ref_count = h.ref_count,
           \A i \in Slots : g.channel[i].port \in {h.channel[i].port, NoPort}
    PROVE  Sound(g)
<1>1. CountsNodes(g)
  BY DEF Sound, Accounts, CountsNodes, NodesOf
<1>2. QED
  BY <1>1 DEF Sound, Accounts, IsOpen

LEMMA ResetIsSound ==
    ASSUME NEW h, Sound(h)
    PROVE  Sound(InitPlatform(h)) /\ Sound(DeinitPlatform(h))
<1>1. HwType(InitPlatform(h)) /\ HwType(DeinitPlatform(h))
  BY SocketAssumption DEF Sound, HwType, InitPlatform, DeinitPlatform, ClearSlots, BoardInit, Idle
<1>2. /\ InitPlatform(h).node_in_use = h.node_in_use
      /\ InitPlatform(h).ref_count = h.ref_count
      /\ \A i \in Slots : InitPlatform(h).channel[i].port = NoPort
  BY DEF Sound, HwType, InitPlatform, ClearSlots, BoardInit, Idle
<1>3. /\ DeinitPlatform(h).node_in_use = h.node_in_use
      /\ DeinitPlatform(h).ref_count = h.ref_count
      /\ \A i \in Slots : DeinitPlatform(h).channel[i].port = NoPort
  BY DEF Sound, HwType, DeinitPlatform, ClearSlots, Idle
<1>4. Sound(InitPlatform(h))
  BY <1>1, <1>2, ClosingIsSound
<1>5. Sound(DeinitPlatform(h))
  BY <1>1, <1>3, ClosingIsSound
<1>6. QED
  BY <1>4, <1>5

LEMMA ReleaseSlotIsSound ==
    ASSUME NEW h, Sound(h), NEW i \in Slots
    PROVE  Sound(ReleaseSlot(h, i))
<1>1. HwType(ReleaseSlot(h, i))
  BY DEF Sound, HwType, ReleaseSlot, Idle
<1>2. /\ ReleaseSlot(h, i).node_in_use = h.node_in_use
      /\ ReleaseSlot(h, i).ref_count = h.ref_count
      /\ \A j \in Slots : ReleaseSlot(h, i).channel[j].port \in {h.channel[j].port, NoPort}
  BY DEF Sound, HwType, ReleaseSlot, Idle
<1>3. QED
  BY <1>1, <1>2, ClosingIsSound

LEMMA StartStopIsSound ==
    ASSUME NEW h, Sound(h), NEW i, IsOpen(h, i)
    PROVE  Sound(TC3xxStart(h, i)) /\ Sound(TC3xxStop(h, i))
<1>1. i \in Slots /\ h.channel[i].port \in Ports
  BY DEF Sound, HwType, IsOpen
<1>2. HwType(TC3xxStart(h, i)) /\ HwType(TC3xxStop(h, i))
  <2>1. HwType(SetStandby(h, h.channel[i].port, FALSE))
    BY <1>1 DEF Sound, HwType, SetStandby
  <2>2. HwType(SetStandby(h, h.channel[i].port, TRUE))
    BY <1>1 DEF Sound, HwType, SetStandby
  <2>3. ASSUME NEW g, HwType(g), NEW on \in BOOLEAN
        PROVE  HwType([g EXCEPT !.channel[i].started = on])
    <3>1. [g.channel EXCEPT ![i].started = on]
              \in [Slots -> [port : Ports \cup {NoPort}, started : BOOLEAN]]
      BY <2>3, <1>1 DEF HwType
    <3>2. [g EXCEPT !.channel[i].started = on]
            = [g EXCEPT !.channel = [g.channel EXCEPT ![i].started = on]]
      BY <2>3 DEF HwType
    <3>3. QED
      BY <3>1, <3>2, <2>3 DEF HwType
  <2>4. HwType(TC3xxStart(h, i))
    BY <2>1, <2>3 DEF TC3xxStart
  <2>5. HwType(TC3xxStop(h, i))
    BY <2>2, <2>3 DEF TC3xxStop
  <2>6. QED
    BY <2>4, <2>5
<1>3. /\ TC3xxStart(h, i).node_in_use = h.node_in_use
      /\ TC3xxStart(h, i).ref_count = h.ref_count
      /\ \A j \in Slots : TC3xxStart(h, i).channel[j].port = h.channel[j].port
  BY <1>1 DEF Sound, HwType, TC3xxStart, SetStandby
<1>4. /\ TC3xxStop(h, i).node_in_use = h.node_in_use
      /\ TC3xxStop(h, i).ref_count = h.ref_count
      /\ \A j \in Slots : TC3xxStop(h, i).channel[j].port = h.channel[j].port
  BY <1>1 DEF Sound, HwType, TC3xxStop, SetStandby
<1>5. QED
  BY <1>2, <1>3, <1>4, ClosingIsSound

\* Closing an open channel gives back its node, which no other channel uses.
LEMMA CloseIsSound ==
    ASSUME NEW h, Sound(h), NEW i, IsOpen(h, i), NEW pin \in BOOLEAN
    PROVE  Sound(TC3xxClose(h, i, pin))
<1> DEFINE p == h.channel[i].port
           m == ModuleOf[p]
           g == TC3xxClose(h, i, pin)
<1>1. i \in Slots /\ p \in Ports /\ p \in h.node_in_use
  BY DEF Sound, Accounts, HwType, IsOpen
<1>2. m \in Modules
  BY <1>1, SocketAssumption
<1>3. h.ref_count[m] \in Nat /\ h.ref_count[m] = Cardinality(NodesOf(h, m))
  BY <1>2 DEF Sound, Accounts, HwType, CountsNodes
<1>4. /\ IsFiniteSet(NodesOf(h, m))
      /\ Cardinality(NodesOf(h, m)) \in Nat
      /\ p \in NodesOf(h, m)
  BY <1>1, NodesFinite DEF Sound, NodesOf
<1>5. h.ref_count[m] > 0
  BY <1>3, <1>4, FS_EmptySet
<1>6. /\ g.node_in_use = h.node_in_use \ {p}
      /\ g.ref_count = [h.ref_count EXCEPT ![m] = @ - 1]
      /\ g.channel = [h.channel EXCEPT ![i] = Idle]
      /\ g.owner = h.owner
      /\ g.initialized = h.initialized
      /\ g.standby \in {h.standby, h.standby \cup {p}}
      /\ DOMAIN g = DOMAIN h
  BY <1>1, <1>2, <1>5
     DEF Sound, HwType, TC3xxClose, ReleaseNode, ReleaseModule, PowerOff, SetStandby
<1>7. HwType(g)
  <2>1. g.ref_count \in [Modules -> Nat]
    BY <1>2, <1>3, <1>5, <1>6 DEF Sound, HwType
  <2>2. g.channel \in [Slots -> [port : Ports \cup {NoPort}, started : BOOLEAN]]
    BY <1>1, <1>6 DEF Sound, HwType, Idle
  <2>3. g \in [initialized : BOOLEAN, owner : [Slots -> Cores \cup {NoCore}],
               channel : [Slots -> [port : Ports \cup {NoPort}, started : BOOLEAN]],
               node_in_use : SUBSET Ports, ref_count : [Modules -> Nat],
               standby : SUBSET Ports]
    BY <1>1, <1>2, <1>5, <2>1, <2>2, <1>6
       DEF Sound, HwType, TC3xxClose, ReleaseNode, ReleaseModule, PowerOff, SetStandby, Idle
  <2>4. QED
    BY <2>3 DEF HwType
<1>8. CountsNodes(g)
  <2>1. SUFFICES ASSUME NEW k \in Modules
                 PROVE  g.ref_count[k] = Cardinality(NodesOf(g, k))
    BY DEF CountsNodes
  <2>2. CASE k = m
    <3>1. NodesOf(g, k) = NodesOf(h, m) \ {p}
      BY <1>6, <2>2 DEF NodesOf
    <3>2. Cardinality(NodesOf(h, m) \ {p}) = Cardinality(NodesOf(h, m)) - 1
      BY <1>4, Removal
    <3>2a. Cardinality(NodesOf(g, k)) = Cardinality(NodesOf(h, m)) - 1
      BY <3>1, <3>2
    <3>3. g.ref_count[k] = h.ref_count[m] - 1
      BY <1>6, <1>2, <2>2 DEF Sound, HwType
    <3>4. QED
      BY <3>2a, <3>3, <1>3
  <2>3. CASE k # m
    <3>1. NodesOf(g, k) = NodesOf(h, k)
      BY <1>6, <2>3 DEF NodesOf
    <3>2. g.ref_count[k] = h.ref_count[k]
      BY <1>6, <1>2, <2>3 DEF Sound, HwType
    <3>3. QED
      BY <3>1, <3>2 DEF Sound, Accounts, CountsNodes
  <2>4. QED
    BY <2>2, <2>3
<1> HIDE DEF g
<1>9. \A j \in Slots : g.channel[j] = IF j = i THEN Idle ELSE h.channel[j]
  BY <1>6, <1>1 DEF Sound, HwType
<1>10. \A j \in Slots : IsOpen(g, j) => j # i /\ IsOpen(h, j) /\ g.channel[j] = h.channel[j]
  BY <1>9 DEF IsOpen, Idle
<1>11. \A j \in Slots : IsOpen(g, j) => g.channel[j].port \in g.node_in_use
  BY <1>1, <1>6, <1>10 DEF Sound, Accounts
<1>12. \A j, k \in Slots :
          IsOpen(g, j) /\ g.channel[j].port = g.channel[k].port => j = k
  BY <1>9, <1>10 DEF Sound, Accounts, IsOpen, Idle
<1>13. QED
  BY <1>7, <1>8, <1>11, <1>12 DEF Sound, Accounts, g

\* A node that was free is reserved and counted once; a failure takes it back.
LEMMA OpenIsSound ==
    ASSUME NEW h, Sound(h), NEW i \in Slots, h.channel[i] = Idle,
           NEW p \in Ports, NEW fault \in OpenFaults
    PROVE  Sound(TC3xxOpen(h, i, p, fault))
<1> DEFINE m == ModuleOf[p]
           g == [AcquireModule(Reserve(h, p), p) EXCEPT
                    !.channel[i] = [port |-> p, started |-> FALSE]]
<1>1. CASE fault = "CONFIG" \/ ~NodeFree(h, p)
  BY <1>1 DEF TC3xxOpen
<1>2. CASE ~(fault = "CONFIG" \/ ~NodeFree(h, p)) /\ fault = "POWER"
  <2>1. TC3xxOpen(h, i, p, fault) = UndoOpen(Reserve(h, p), p)
    BY <1>2 DEF TC3xxOpen
  <2>2. p \notin h.node_in_use
    BY <1>2 DEF NodeFree
  <2>3. (h.node_in_use \cup {p}) \ {p} = h.node_in_use
    BY <2>2
  <2>4. UndoOpen(Reserve(h, p), p) = h
    BY <2>3 DEF UndoOpen, Reserve, ReleaseNode, Sound, HwType
  <2>5. QED
    BY <2>1, <2>4
<1>3. CASE ~(fault = "CONFIG" \/ ~NodeFree(h, p)) /\ fault # "POWER"
  <2>1. TC3xxOpen(h, i, p, fault) = g
    BY <1>3 DEF TC3xxOpen
  <2>2. p \notin h.node_in_use
    BY <1>3 DEF NodeFree
  <2>3. m \in Modules
    BY SocketAssumption
  <2>4. h.ref_count[m] \in Nat
    BY <2>3 DEF Sound, HwType
  <2>5. /\ g.node_in_use = h.node_in_use \cup {p}
        /\ g.ref_count = [h.ref_count EXCEPT ![m] = @ + 1]
        /\ g.channel = [h.channel EXCEPT ![i] = [port |-> p, started |-> FALSE]]
    BY DEF Sound, HwType, AcquireModule, Reserve
  <2>6. HwType(g)
    <3>1. [h.ref_count EXCEPT ![m] = @ + 1] \in [Modules -> Nat]
      BY <2>3, <2>4 DEF Sound, HwType
    <3>2. [h.channel EXCEPT ![i] = [port |-> p, started |-> FALSE]]
              \in [Slots -> [port : Ports \cup {NoPort}, started : BOOLEAN]]
      BY DEF Sound, HwType
    <3>3. g = [h EXCEPT !.node_in_use = h.node_in_use \cup {p},
                        !.ref_count = [h.ref_count EXCEPT ![m] = @ + 1],
                        !.channel = [h.channel EXCEPT ![i] = [port |-> p, started |-> FALSE]]]
      BY DEF Sound, HwType, AcquireModule, Reserve
    <3>4. ASSUME NEW n \in SUBSET Ports, NEW r \in [Modules -> Nat],
                 NEW ch \in [Slots -> [port : Ports \cup {NoPort}, started : BOOLEAN]]
          PROVE  HwType([h EXCEPT !.node_in_use = n, !.ref_count = r, !.channel = ch])
      BY DEF Sound, HwType
    <3>5. h.node_in_use \cup {p} \in SUBSET Ports
      BY DEF Sound, HwType
    <3>6. QED
      BY <3>1, <3>2, <3>3, <3>4, <3>5
  <2>7. CountsNodes(g)
    <3>1. SUFFICES ASSUME NEW k \in Modules
                   PROVE  g.ref_count[k] = Cardinality(NodesOf(g, k))
      BY DEF CountsNodes
    <3>2. h.ref_count[k] = Cardinality(NodesOf(h, k)) /\ h.ref_count[k] \in Nat
      BY DEF Sound, Accounts, CountsNodes, HwType
    <3>3. CASE k = m
      <4>1. NodesOf(g, k) = NodesOf(h, k) \cup {p}
        BY <2>5, <3>3 DEF NodesOf
      <4>2. p \notin NodesOf(h, k) /\ IsFiniteSet(NodesOf(h, k))
        BY <2>2, NodesFinite DEF NodesOf, Sound
      <4>3. Cardinality(NodesOf(h, k) \cup {p}) = Cardinality(NodesOf(h, k)) + 1
        BY <4>2, Addition
      <4>4. g.ref_count[k] = h.ref_count[k] + 1
        BY <2>3, <2>5, <3>3 DEF Sound, HwType
      <4>5. QED
        BY <4>1, <4>3, <4>4, <3>2
    <3>4. CASE k # m
      <4>1. NodesOf(g, k) = NodesOf(h, k)
        BY <2>5, <3>4 DEF NodesOf
      <4>2. g.ref_count[k] = h.ref_count[k]
        BY <2>3, <2>5, <3>4 DEF Sound, HwType
      <4>3. QED
        BY <4>1, <4>2, <3>2
    <3>5. QED
      BY <3>3, <3>4
  <2>8. \A j \in Slots : g.channel[j] = IF j = i THEN [port |-> p, started |-> FALSE]
                                       ELSE h.channel[j]
    BY <2>5 DEF Sound, HwType
  <2> HIDE DEF g
  <2>9. \A j \in Slots : IsOpen(g, j) => j = i \/ IsOpen(h, j)
    BY <2>8 DEF IsOpen
  <2>10. \A j \in Slots : IsOpen(g, j) => g.channel[j].port \in g.node_in_use
    BY <2>5, <2>8, <2>9 DEF Sound, Accounts
  <2>11. \A j \in Slots : j # i => g.channel[j].port # p
    <3>1. SUFFICES ASSUME NEW j \in Slots, j # i, g.channel[j].port = p PROVE FALSE
      OBVIOUS
    <3>2. h.channel[j].port = p /\ IsOpen(h, j)
      BY <3>1, <2>8, SocketAssumption DEF IsOpen
    <3>3. QED
      BY <3>2, <2>2 DEF Sound, Accounts
  <2>12. \A j, k \in Slots :
            IsOpen(g, j) /\ g.channel[j].port = g.channel[k].port => j = k
    <3>1. SUFFICES ASSUME NEW j \in Slots, NEW k \in Slots, IsOpen(g, j),
                          g.channel[j].port = g.channel[k].port
                   PROVE  j = k
      OBVIOUS
    <3>2. CASE j = i \/ k = i
      BY <3>1, <3>2, <2>8, <2>11
    <3>3. CASE j # i /\ k # i
      BY <3>1, <3>3, <2>8, <2>9 DEF Sound, Accounts
    <3>4. QED
      BY <3>2, <3>3
  <2>13. QED
    BY <2>1, <2>6, <2>7, <2>10, <2>12 DEF Sound, Accounts
<1>4. QED
  BY <1>1, <1>2, <1>3

LEMMA OpenPortIsSound ==
    ASSUME NEW h, Sound(h), NEW i \in Slots, NEW c \in Cores,
           NEW p \in Ports, NEW fault \in OpenFaults
    PROVE  Sound(OpenPort(h, i, c, p, fault))
<1> DEFINE h0 == [h EXCEPT !.owner[i] = c, !.channel[i] = Idle]
<1>1. HwType(h0)
  BY DEF Sound, HwType, Idle
<1>2. /\ h0.node_in_use = h.node_in_use
      /\ h0.ref_count = h.ref_count
      /\ h0.channel[i] = Idle
      /\ \A j \in Slots : h0.channel[j].port \in {h.channel[j].port, NoPort}
  BY DEF Sound, HwType, Idle
<1> HIDE DEF h0
<1>3. Sound(h0)
  BY <1>1, <1>2, ClosingIsSound
<1>4. Sound(TC3xxOpen(h0, i, p, fault))
  BY <1>2, <1>3, OpenIsSound
<1>5. Sound(ReleaseSlot(TC3xxOpen(h0, i, p, fault), i))
  BY <1>4, ReleaseSlotIsSound
<1>6. QED
  BY <1>4, <1>5 DEF OpenPort, h0

-----------------------------------------------------------------------------
IInv == TypeOK /\ NodeAccounting

\* The accounts of the hardware are one conjunct of the invariant.
LEMMA InvIsSound == IInv <=> TypeOK /\ Sound(hw)
BY DEF IInv, TypeOK, NodeAccounting, Sound, HwType, Accounts, CountsNodes, NodesOf

LEMMA InitInv == Init => IInv
<1> SUFFICES ASSUME Init PROVE TypeOK /\ Sound(hw)
  BY InvIsSound
<1>1. TypeOK
  BY SocketAssumption DEF Init, TypeOK, Idle, Closed, Unbound, Slots
<1>2. \A m \in Modules : NodesOf(hw, m) = {}
  BY DEF Init, NodesOf
<1>3. CountsNodes(hw)
  BY <1>2, FS_EmptySet DEF Init, CountsNodes
<1>4. \A i \in Slots : ~IsOpen(hw, i)
  BY DEF Init, IsOpen, Idle
<1>5. QED
  BY <1>1, <1>3, <1>4 DEF Sound, Accounts, TypeOK, HwType

\* A core found among the owners has a slot.
LEMMA SlotOfOwner ==
    ASSUME NEW h, NEW c \in Owners(h)
    PROVE  SlotOf(h, c) \in Slots
<1>1. \E i \in Slots : h.owner[i] = c
  BY DEF Owners
<1>2. QED
  BY <1>1 DEF SlotOf

\* After a reset, a core owns a slot only when the port it opened is open.
LEMMA OwnerIsOpen ==
    ASSUME NEW h, HwType(h), NEW i \in Slots, NEW s \in Cores, NEW p \in Ports,
           NEW fault \in OpenFaults,
           HwType(OpenPort(InitPlatform(h), i, s, p, fault)),
           s \in Owners(OpenPort(InitPlatform(h), i, s, p, fault))
    PROVE  IsOpen(OpenPort(InitPlatform(h), i, s, p, fault), i)
<1> DEFINE k == InitPlatform(h)
           h0 == [k EXCEPT !.owner[i] = s, !.channel[i] = Idle]
           h1 == TC3xxOpen(h0, i, p, fault)
<1>1. k.owner = [j \in Slots |-> NoCore]
  BY DEF HwType, InitPlatform, ClearSlots, BoardInit
<1>2. h0.owner = [k.owner EXCEPT ![i] = s]
  BY DEF HwType, InitPlatform, ClearSlots, BoardInit
<1>3. h1.owner = h0.owner
  BY DEF HwType, InitPlatform, ClearSlots, BoardInit, TC3xxOpen, UndoOpen, ReleaseNode,
         Reserve, AcquireModule
<1>4. SUFFICES ASSUME ~IsOpen(h1, i) PROVE FALSE
  BY DEF OpenPort
<1>5. OpenPort(k, i, s, p, fault) = ReleaseSlot(h1, i)
  BY <1>4 DEF OpenPort
<1>6. \A j \in Slots : ReleaseSlot(h1, i).owner[j] = NoCore
  <2>1. ReleaseSlot(h1, i).owner = [h1.owner EXCEPT ![i] = NoCore]
    BY DEF HwType, InitPlatform, ClearSlots, BoardInit, TC3xxOpen, UndoOpen, ReleaseNode,
           Reserve, AcquireModule, ReleaseSlot
  <2>2. h1.owner = [[j \in Slots |-> NoCore] EXCEPT ![i] = s]
    BY <1>1, <1>2, <1>3
  <2>3. QED
    BY <2>1, <2>2
<1>7. QED
  BY <1>5, <1>6 DEF Owners

\* TypeOK follows from the parts.
LEMMA StateType ==
    ASSUME Sound(hw'),
           core' \in [Cores -> [state : {"CLOSED", "OPENED", "STARTED"},
                                slot : Slots \cup {0}, port : Ports \cup {NoPort}]],
           socket' \in [Sockets -> [core : Cores \cup {NoCore}, owns : BOOLEAN]],
           is_open' \subseteq Wrapped, shared' \in BOOLEAN,
           unstopped' \subseteq Sockets, unslept' \subseteq Ports
    PROVE  IInv'
BY DEF IInv, TypeOK, NodeAccounting, Sound, HwType, Accounts, CountsNodes, NodesOf

LEMMA ClosePortIsSound ==
    ASSUME NEW h, Sound(h), NEW c \in Cores, Closable(h, c), NEW pin \in BOOLEAN
    PROVE  Sound(ClosePort(h, c, pin))
BY CloseIsSound, SlotOfOwner, ReleaseSlotIsSound DEF ClosePort, Closable

LEMMA NextInv == IInv /\ [Next]_vars => IInv'
<1> SUFFICES ASSUME IInv, [Next]_vars PROVE IInv'
  OBVIOUS
<1>0. TypeOK /\ Sound(hw)
  BY InvIsSound
<1>1. CASE UNCHANGED vars
  BY <1>0, <1>1 DEF vars, IInv, TypeOK, NodeAccounting, IsOpen
<1>2. CASE PlatformInit
  BY <1>0, <1>2, ResetIsSound, StateType DEF PlatformInit, TypeOK, Sharing
<1>3. CASE BoardInitFails
  <2>1. PICK P \in SUBSET Ports : hw' = [hw EXCEPT !.standby = @ \cup P]
    BY <1>3 DEF BoardInitFails
  <2>2. HwType(hw')
    BY <1>0, <2>1 DEF Sound, HwType
  <2>3. /\ hw'.node_in_use = hw.node_in_use
        /\ hw'.ref_count = hw.ref_count
        /\ hw'.channel = hw.channel
    BY <1>0, <2>1 DEF Sound, HwType
  <2>4. Sound(hw')
    BY <1>0, <2>2, <2>3, ClosingIsSound
  <2>5. QED
    BY <1>0, <1>3, <2>4, StateType DEF BoardInitFails, TypeOK, Sharing
<1>4. CASE PlatformDeinit
  BY <1>0, <1>4, ResetIsSound, StateType DEF PlatformDeinit, TypeOK, Sharing
<1>5. ASSUME NEW c \in AppCores, NEW p \in Ports, NEW fault \in OpenFaults,
             PlatformOpen(c, p, fault)
      PROVE  IInv'
  <2>1. PICK i \in Slots : /\ hw' = OpenPort(hw, i, c, p, fault)
                           /\ core' = [core EXCEPT ![c] = CoreAfterOpen(hw', i, c, p)]
    BY <1>5 DEF PlatformOpen
  <2>2. Sound(hw')
    BY <1>0, <2>1, OpenPortIsSound DEF Cores
  <2>3. CoreAfterOpen(hw', i, c, p) \in [state : {"CLOSED", "OPENED", "STARTED"},
                                         slot : Slots \cup {0}, port : Ports \cup {NoPort}]
    BY DEF CoreAfterOpen, Closed
  <2>4. core' \in [Cores -> [state : {"CLOSED", "OPENED", "STARTED"},
                             slot : Slots \cup {0}, port : Ports \cup {NoPort}]]
    BY <1>0, <2>1, <2>3 DEF TypeOK
  <2>5. QED
    BY <1>0, <1>5, <2>2, <2>4, StateType DEF PlatformOpen, TypeOK
<1>6. ASSUME NEW c \in AppCores, NEW pin \in BOOLEAN, PlatformClose(c, pin)
      PROVE  IInv'
  <2>1. Sound(hw')
    BY <1>0, <1>6, ClosePortIsSound DEF PlatformClose, Cores
  <2>2. core' \in [Cores -> [state : {"CLOSED", "OPENED", "STARTED"},
                             slot : Slots \cup {0}, port : Ports \cup {NoPort}]]
    BY <1>0, <1>6 DEF PlatformClose, TypeOK, Closed
  <2>3. unslept' \subseteq Ports
    BY <1>0, <1>6 DEF PlatformClose, Closable, IsOpen, TypeOK
  <2>4. QED
    BY <1>0, <1>6, <2>1, <2>2, <2>3, StateType DEF PlatformClose, TypeOK
<1>7. ASSUME NEW c \in Cores, CoreStart(c) \/ CoreStop(c)
      PROVE  IInv'
  <2>1. Sound(hw')
    BY <1>0, <1>7, StartStopIsSound DEF CoreStart, CoreStop
  <2>2. core' \in [Cores -> [state : {"CLOSED", "OPENED", "STARTED"},
                             slot : Slots \cup {0}, port : Ports \cup {NoPort}]]
    <3>1. PICK st \in {"OPENED", "STARTED"} : core' = [core EXCEPT ![c].state = st]
      BY <1>7 DEF CoreStart, CoreStop
    <3>2. [core[c] EXCEPT !.state = st] \in [state : {"CLOSED", "OPENED", "STARTED"},
                                            slot : Slots \cup {0}, port : Ports \cup {NoPort}]
      <4>1. core[c] \in [state : {"CLOSED", "OPENED", "STARTED"},
                         slot : Slots \cup {0}, port : Ports \cup {NoPort}]
        BY <1>0 DEF TypeOK
      <4>2. QED
        BY <4>1
    <3>3. core' = [core EXCEPT ![c] = [core[c] EXCEPT !.state = st]]
      BY <3>1, <1>0 DEF TypeOK
    <3>4. QED
      BY <3>2, <3>3, <1>0 DEF TypeOK
  <2>3. QED
    BY <1>0, <1>7, <2>1, <2>2, StateType DEF CoreStart, CoreStop, TypeOK
<1>8. ASSUME NEW s \in Sockets, NEW c \in AppCores, SocketBindCore(s, c)
      PROVE  IInv'
  BY <1>0, <1>8, StateType DEF SocketBindCore, TypeOK, Cores
<1>9. ASSUME NEW s \in Sockets, SocketUnbind(s)
      PROVE  IInv'
  BY <1>0, <1>9, StateType DEF SocketUnbind, TypeOK, Closed, Unbound, Cores
<1>10. ASSUME NEW s \in Sockets, NEW p \in Ports, NEW fault \in OpenFaults,
              SocketOpen(s, p, fault)
       PROVE  IInv'
  <2> DEFINE opened(i) == OpenPort(InitPlatform(hw), i, s, p, fault)
  <2>1. PICK i \in Slots : \/ OpenFails(s, opened(i))
                           \/ \E pin \in BOOLEAN : StartFails(s, opened(i), i, pin)
                           \/ OpenSucceeds(s, opened(i), i, p)
    BY <1>10 DEF SocketOpen
  <2> DEFINE h == opened(i)
  <2>2. /\ s \in Cores /\ shared' \in BOOLEAN
        /\ unstopped' \subseteq Sockets /\ unslept' \subseteq Ports
    BY <1>0, <1>10 DEF Cores, SocketOpen, Sharing, TypeOK
  <2>3. Sound(h)
    BY <1>0, <2>2, ResetIsSound, OpenPortIsSound
  <2>4. s \in Owners(h) => IsOpen(h, i)
    BY <1>0, <2>2, <2>3, OwnerIsOpen DEF Sound
  <2> HIDE DEF h
  <2>5. CASE OpenFails(s, h)
    BY <1>0, <2>2, <2>3, <2>5, ResetIsSound, StateType DEF OpenFails, TypeOK
  <2>6. ASSUME NEW pin \in BOOLEAN, StartFails(s, h, i, pin)
        PROVE  IInv'
    <3>1. Sound(ReleaseSlot(TC3xxClose(h, i, pin), i))
      BY <2>3, <2>4, <2>6, CloseIsSound, ReleaseSlotIsSound DEF StartFails
    <3>2. Sound(hw')
      BY <2>6, <3>1, ResetIsSound DEF StartFails
    <3>3. QED
      BY <1>0, <2>2, <2>6, <3>2, StateType DEF StartFails, TypeOK
  <2>7. CASE OpenSucceeds(s, h, i, p)
    <3>1. Sound(hw')
      BY <2>3, <2>4, <2>7, StartStopIsSound DEF OpenSucceeds
    <3>2. core' \in [Cores -> [state : {"CLOSED", "OPENED", "STARTED"},
                               slot : Slots \cup {0}, port : Ports \cup {NoPort}]]
      BY <1>0, <2>7 DEF OpenSucceeds, TypeOK
    <3>3. socket' \in [Sockets -> [core : Cores \cup {NoCore}, owns : BOOLEAN]]
      BY <1>0, <2>2, <2>7 DEF OpenSucceeds, TypeOK
    <3>4. is_open' \subseteq Wrapped
      BY <1>0, <2>7 DEF OpenSucceeds, TypeOK
    <3>5. QED
      BY <2>2, <3>1, <3>2, <3>3, <3>4, StateType
  <2>8. QED
    BY <2>1, <2>5, <2>6, <2>7 DEF h
<1>11. ASSUME NEW s \in Sockets, NEW pin \in BOOLEAN, NEW offPin \in BOOLEAN,
              SocketClose(s, pin, offPin)
       PROVE  IInv'
  <2> DEFINE h == AfterStop(s, pin)
             g == IF Closable(h, s) THEN ClosePort(h, s, offPin) ELSE h
  <2>1. s \in Cores
    BY DEF Cores
  <2>2. Sound(h)
    BY <1>0, StartStopIsSound DEF AfterStop, StopFails
  <2> HIDE DEF h
  <2>3. Sound(g)
    BY <2>1, <2>2, ClosePortIsSound
  <2>4. hw' = DeinitPlatform(g)
    BY <1>11 DEF SocketClose, h
  <2> HIDE DEF g
  <2>5. Sound(hw')
    BY <2>3, <2>4, ResetIsSound
  <2>6. core' \in [Cores -> [state : {"CLOSED", "OPENED", "STARTED"},
                             slot : Slots \cup {0}, port : Ports \cup {NoPort}]]
    BY <1>0, <1>11 DEF SocketClose, TypeOK, Closed
  <2>7. socket' \in [Sockets -> [core : Cores \cup {NoCore}, owns : BOOLEAN]]
    BY <1>0, <1>11 DEF SocketClose, TypeOK, Unbound
  <2>8. /\ is_open' \subseteq Wrapped /\ shared' \in BOOLEAN
        /\ unstopped' \subseteq Sockets /\ unslept' \subseteq Ports
    BY <1>0, <1>11 DEF SocketClose, TypeOK, Sharing
  <2>9. QED
    BY <2>5, <2>6, <2>7, <2>8, StateType
<1>12. QED
  BY <1>1, <1>2, <1>3, <1>4, <1>5, <1>6, <1>7, <1>8, <1>9, <1>10, <1>11 DEF Next

-----------------------------------------------------------------------------
(* Every reachable state is well typed: a slot, channel, node or count of  *)
(* the library never leaves its range, whatever calls are made.            *)
THEOREM TypeCorrect == Spec => []TypeOK
<1>1. IInv => TypeOK
  BY DEF IInv
<1>2. QED
  BY InitInv, NextInv, <1>1, PTL DEF Spec

(* No node is ever driven by two channels, and each module counts exactly  *)
(* its reserved nodes, so canTC3xxAcquireModule initialises a module only  *)
(* when none of its nodes runs.                                            *)
THEOREM AccountingTheorem == Spec => []NodeAccounting
<1>1. IInv => NodeAccounting
  BY DEF IInv
<1>2. QED
  BY InitInv, NextInv, <1>1, PTL DEF Spec

-----------------------------------------------------------------------------
(* What joins cores, slots, channels and nodes as long as nobody resets    *)
(* the platform under a channel; h and k stand for hw and core in the      *)
(* middle of a call.                                                       *)

CoreType == [Cores -> [state : {"CLOSED", "OPENED", "STARTED"},
                       slot : Slots \cup {0}, port : Ports \cup {NoPort}]]

\* The channel of a slot is that of the core which owns it.
SlotWired(h, k, i) ==
    IF h.owner[i] = NoCore THEN h.channel[i] = Idle
    ELSE /\ k[h.owner[i]].state # "CLOSED"
         /\ k[h.owner[i]].slot = i
         /\ h.channel[i].port = k[h.owner[i]].port
         /\ h.channel[i].started <=> k[h.owner[i]].state = "STARTED"

\* A core that is not closed owns a slot and its node, awake when it runs.
CoreWired(h, k, c) ==
    k[c].state # "CLOSED" =>
        /\ k[c].slot \in Slots
        /\ k[c].port \in h.node_in_use
        /\ h.owner[k[c].slot] = c
        /\ k[c].state = "STARTED" => k[c].port \notin h.standby

Wire(h, k) ==
    /\ \A i \in Slots : SlotWired(h, k, i)
    /\ \A c \in Cores : CoreWired(h, k, c)
    /\ \A q \in h.node_in_use :
           \E i \in Slots : h.owner[i] # NoCore /\ h.channel[i].port = q

Wired ==
    ~shared =>
        /\ Wire(hw, core)
        /\ \A s \in Sockets : socket[s].owns <=> core[s].state # "CLOSED"

\* Two cores that are not closed are on different ports.
LEMMA PortsDiffer ==
    ASSUME NEW h, Sound(h), NEW k, Wire(h, k), NEW c \in Cores, NEW d \in Cores, c # d,
           k[c].state # "CLOSED", k[d].state # "CLOSED"
    PROVE  k[c].port # k[d].port /\ k[c].slot # k[d].slot
<1>1. /\ k[c].slot \in Slots /\ h.owner[k[c].slot] = c
      /\ k[d].slot \in Slots /\ h.owner[k[d].slot] = d
      /\ k[c].port \in h.node_in_use
  BY DEF Wire, CoreWired
<1>2. c # NoCore /\ d # NoCore
  BY SocketAssumption
<1>3. h.channel[k[c].slot].port = k[c].port /\ h.channel[k[d].slot].port = k[d].port
  BY <1>1, <1>2 DEF Wire, SlotWired
<1>4. IsOpen(h, k[c].slot)
  BY <1>1, <1>3, SocketAssumption DEF IsOpen, Sound, HwType
<1>5. QED
  BY <1>1, <1>3, <1>4 DEF Sound, Accounts

\* Where no core is open, no node is reserved, and the other way round.
LEMMA AllClosed ==
    ASSUME NEW h, NEW k, HwType(h), Wire(h, k)
    PROVE  /\ (\A c \in Cores : k[c].state = "CLOSED") => h.node_in_use = {}
           /\ \A c \in Cores : c \in Owners(h) <=> k[c].state # "CLOSED"
<1>1. \A c \in Cores : c # NoCore
  BY SocketAssumption
<1>2. \A i \in Slots : h.owner[i] # NoCore => h.owner[i] \in Cores
  BY DEF HwType
<1>3. \A i \in Slots : h.owner[i] # NoCore => k[h.owner[i]].state # "CLOSED"
  BY DEF Wire, SlotWired
<1>4. (\A c \in Cores : k[c].state = "CLOSED") => h.node_in_use = {}
  BY <1>2, <1>3 DEF Wire
<1>5. ASSUME NEW c \in Cores PROVE c \in Owners(h) <=> k[c].state # "CLOSED"
  <2>1. c \in Owners(h) <=> \E i \in Slots : h.owner[i] = c
    BY <1>1 DEF Owners
  <2>2. k[c].state # "CLOSED" => \E i \in Slots : h.owner[i] = c
    BY DEF Wire, CoreWired
  <2>3. QED
    BY <1>1, <1>3, <2>1, <2>2
<1>6. QED
  BY <1>4, <1>5

LEMMA ResetIsWired ==
    ASSUME NEW h, HwType(h), h.node_in_use = {}, NEW k,
           \A c \in Cores : k[c].state = "CLOSED"
    PROVE  Wire(InitPlatform(h), k) /\ Wire(DeinitPlatform(h), k)
BY DEF HwType, InitPlatform, DeinitPlatform, ClearSlots, BoardInit, Wire, SlotWired, CoreWired

\* Opening wires the slot or leaves everything as it was.
LEMMA OpenIsWired ==
    ASSUME NEW h, Sound(h), NEW k \in CoreType, Wire(h, k), NEW i \in Slots,
           h.owner[i] = NoCore, NEW c \in Cores, k[c].state = "CLOSED",
           NEW p \in Ports, NEW fault \in OpenFaults,
           NEW g, g = OpenPort(h, i, c, p, fault)
    PROVE  /\ Wire(g, [k EXCEPT ![c] = CoreAfterOpen(g, i, c, p)])
           /\ c \in Owners(g) => IsOpen(g, i) /\ g.channel[i].port = p
<1> DEFINE h0 == [h EXCEPT !.owner[i] = c, !.channel[i] = Idle]
           h1 == TC3xxOpen(h0, i, p, fault)
<1>1. c # NoCore /\ p # NoPort
  BY SocketAssumption
<1>2. h.channel[i] = Idle
  BY DEF Wire, SlotWired
<1>3. HwType(h0)
  BY DEF Sound, HwType, Idle
<1>4. /\ h0.owner = [h.owner EXCEPT ![i] = c]
      /\ h0.channel = h.channel
      /\ h0.node_in_use = h.node_in_use
      /\ h0.standby = h.standby
  BY <1>2 DEF Sound, HwType
<1>5. CASE ~IsOpen(h1, i)
  <2>1. h1 = h0
    <3>1. CASE fault = "CONFIG" \/ ~NodeFree(h0, p)
      BY <3>1 DEF TC3xxOpen
    <3>2. CASE ~(fault = "CONFIG" \/ ~NodeFree(h0, p)) /\ fault = "POWER"
      <4>1. (h0.node_in_use \cup {p}) \ {p} = h0.node_in_use
        BY <3>2 DEF NodeFree
      <4>2. h1 = UndoOpen(Reserve(h0, p), p)
        BY <3>2 DEF TC3xxOpen
      <4> HIDE DEF h0, h1
      <4>3. QED
        BY <1>3, <4>1, <4>2 DEF UndoOpen, Reserve, ReleaseNode, HwType
    <3>3. CASE ~(fault = "CONFIG" \/ ~NodeFree(h0, p)) /\ fault # "POWER"
      <4>1. h1 = [AcquireModule(Reserve(h0, p), p) EXCEPT
                    !.channel[i] = [port |-> p, started |-> FALSE]]
        BY <3>3 DEF TC3xxOpen
      <4> HIDE DEF h0, h1
      <4>2. h1.channel[i].port = p
        BY <1>3, <4>1 DEF AcquireModule, Reserve, HwType
      <4>3. QED
        BY <1>1, <1>5, <4>2 DEF IsOpen
    <3>4. QED
      BY <3>1, <3>2, <3>3
  <2>2. g = ReleaseSlot(h0, i)
    BY <1>5, <2>1 DEF OpenPort
  <2> HIDE DEF h0, h1
  <2>3. /\ \A j \in Slots : g.owner[j] = h.owner[j] /\ g.channel[j] = h.channel[j]
        /\ g.node_in_use = h.node_in_use
        /\ g.standby = h.standby
    BY <1>2, <1>3, <1>4, <2>2 DEF ReleaseSlot, HwType, Sound
  <2>4. c \notin Owners(g)
    <3>1. c \notin Owners(h)
      BY AllClosed DEF Sound
    <3>2. QED
      BY <2>3, <3>1 DEF Owners
  <2>5. CoreAfterOpen(g, i, c, p) = Closed
    BY <2>4 DEF CoreAfterOpen
  <2>6. \A d \in Cores : /\ [k EXCEPT ![c] = Closed][d].state = k[d].state
                         /\ d # c => [k EXCEPT ![c] = Closed][d] = k[d]
    BY DEF CoreType, Closed
  <2>7. \A j \in Slots : h.owner[j] # c
    BY <1>1, <2>3, <2>4 DEF Owners
  <2>8. \A j \in Slots : h.owner[j] # NoCore => h.owner[j] \in Cores
    BY DEF Sound, HwType
  <2>9. Wire(g, [k EXCEPT ![c] = Closed])
    BY <2>3, <2>6, <2>7, <2>8 DEF Wire, SlotWired, CoreWired
  <2>10. QED
    BY <2>4, <2>5, <2>9
<1>6. CASE IsOpen(h1, i)
  <2>1. g = h1
    BY <1>6 DEF OpenPort
  <2>2. h1 = [AcquireModule(Reserve(h0, p), p) EXCEPT
                    !.channel[i] = [port |-> p, started |-> FALSE]]
    <3>1. ~IsOpen(h0, i)
      BY <1>2, <1>4 DEF IsOpen, Idle
    <3>2. ~IsOpen(UndoOpen(Reserve(h0, p), p), i)
      BY <1>2, <1>3, <1>4 DEF IsOpen, Idle, UndoOpen, Reserve, ReleaseNode, HwType
    <3>3. QED
      BY <1>6, <3>1, <3>2 DEF TC3xxOpen
  <2>3. p \notin h.node_in_use
    <3>1. h1 # h0
      <4>1. ~IsOpen(h0, i)
        BY <1>2, <1>4 DEF IsOpen, Idle
      <4> HIDE DEF h0, h1
      <4>2. QED
        BY <4>1, <1>6
    <3>2. NodeFree(h0, p)
      BY <3>1 DEF TC3xxOpen
    <3>3. QED
      BY <1>4, <3>2 DEF NodeFree
  <2> HIDE DEF h0, h1
  <2>4. /\ g.owner = [h.owner EXCEPT ![i] = c]
        /\ g.channel = [h.channel EXCEPT ![i] = [port |-> p, started |-> FALSE]]
        /\ g.node_in_use = h.node_in_use \cup {p}
        /\ g.standby = h.standby
    <3>1. /\ h1.owner = h0.owner
          /\ h1.channel = [h0.channel EXCEPT ![i] = [port |-> p, started |-> FALSE]]
          /\ h1.node_in_use = h0.node_in_use \cup {p}
          /\ h1.standby = h0.standby
      BY <1>3, <2>2 DEF AcquireModule, Reserve, HwType
    <3>2. QED
      BY <3>1, <1>4, <2>1
  <2>5. \A j \in Slots : /\ g.owner[j] = IF j = i THEN c ELSE h.owner[j]
                         /\ g.channel[j] = IF j = i THEN [port |-> p, started |-> FALSE]
                                           ELSE h.channel[j]
    BY <2>4 DEF Sound, HwType
  <2>6. CoreAfterOpen(g, i, c, p) = [state |-> "OPENED", slot |-> i, port |-> p]
    BY <1>1, <2>5 DEF CoreAfterOpen, Owners
  <2> DEFINE k1 == [k EXCEPT ![c] = [state |-> "OPENED", slot |-> i, port |-> p]]
  <2>7. \A d \in Cores : k1[d] = IF d = c THEN [state |-> "OPENED", slot |-> i, port |-> p]
                                 ELSE k[d]
    BY DEF CoreType
  <2> HIDE DEF k1
  <2>8. \A j \in Slots : h.owner[j] # NoCore => h.owner[j] \in Cores /\ h.owner[j] # c
    BY <1>1 DEF Sound, HwType, Wire, SlotWired
  <2>9. \A j \in Slots : SlotWired(g, k1, j)
    BY <1>1, <2>5, <2>7, <2>8 DEF Wire, SlotWired
  <2>10. \A d \in Cores : CoreWired(g, k1, d)
    <3>1. SUFFICES ASSUME NEW d \in Cores PROVE CoreWired(g, k1, d)
      OBVIOUS
    <3>2. CASE d = c
      BY <1>1, <2>4, <2>5, <2>7, <3>2 DEF CoreWired
    <3>3. CASE d # c
      <4>1. k1[d] = k[d] /\ CoreWired(h, k, d)
        BY <2>7, <3>3 DEF Wire
      <4>2. k[d].state # "CLOSED" => k[d].slot # i
        BY <4>1, SocketAssumption DEF CoreWired
      <4>3. QED
        BY <2>4, <2>5, <4>1, <4>2 DEF CoreWired
    <3>4. QED
      BY <3>2, <3>3
  <2>11. \A q \in g.node_in_use :
            \E j \in Slots : g.owner[j] # NoCore /\ g.channel[j].port = q
    <3>1. SUFFICES ASSUME NEW q \in g.node_in_use
                   PROVE  \E j \in Slots : g.owner[j] # NoCore /\ g.channel[j].port = q
      OBVIOUS
    <3>2. CASE q = p
      BY <1>1, <2>5, <3>2
    <3>3. CASE q \in h.node_in_use
      <4>1. PICK j \in Slots : h.owner[j] # NoCore /\ h.channel[j].port = q
        BY <3>3 DEF Wire
      <4>2. j # i
        BY <4>1
      <4>3. QED
        BY <2>5, <4>1, <4>2
    <3>4. QED
      BY <2>4, <3>2, <3>3
  <2>12. Wire(g, k1)
    BY <2>9, <2>10, <2>11 DEF Wire
  <2>13. IsOpen(g, i) /\ g.channel[i].port = p
    BY <1>1, <2>5 DEF IsOpen
  <2>14. QED
    BY <2>6, <2>12, <2>13 DEF k1
<1>7. QED
  BY <1>5, <1>6

\* Starting or stopping an open core changes its own transceiver only.
LEMMA StartStopIsWired ==
    ASSUME NEW h, Sound(h), NEW k \in CoreType, Wire(h, k), NEW c \in Cores,
           k[c].state # "CLOSED"
    PROVE  /\ Wire(TC3xxStart(h, k[c].slot), [k EXCEPT ![c].state = "STARTED"])
           /\ Wire(TC3xxStop(h, k[c].slot), [k EXCEPT ![c].state = "OPENED"])
<1> DEFINE i == k[c].slot
           p == k[c].port
<1>1. c # NoCore
  BY SocketAssumption
<1>2. i \in Slots /\ h.owner[i] = c /\ p \in h.node_in_use /\ h.channel[i].port = p
  BY <1>1 DEF Wire, CoreWired, SlotWired
<1>3. ASSUME NEW g, NEW st \in {"OPENED", "STARTED"}, NEW l,
             l = [k EXCEPT ![c].state = st],
             g.owner = h.owner, g.node_in_use = h.node_in_use,
             \A j \in Slots : g.channel[j].port = h.channel[j].port,
             \A j \in Slots : j # i => g.channel[j] = h.channel[j],
             g.channel[i].started = (st = "STARTED"),
             g.standby \subseteq IF st = "STARTED" THEN h.standby \ {p} ELSE h.standby \cup {p}
      PROVE  Wire(g, l)
  <2>1. \A d \in Cores : /\ l[d].slot = k[d].slot /\ l[d].port = k[d].port
                         /\ l[d].state = IF d = c THEN st ELSE k[d].state
    BY <1>3 DEF CoreType
  <2>2. \A j \in Slots : h.owner[j] # NoCore => h.owner[j] \in Cores
    BY DEF Sound, HwType
  <2>3. ASSUME NEW j \in Slots PROVE SlotWired(g, l, j)
    <3>1. CASE j = i
      <4>1. l[c].slot = i /\ l[c].port = p /\ l[c].state = st
        BY <2>1
      <4>2. g.owner[j] = c /\ g.channel[j].port = p
        BY <1>2, <1>3, <3>1
      <4>3. g.channel[j].started <=> l[c].state = "STARTED"
        <5>1. CASE st = "STARTED"
          BY <1>3, <3>1, <4>1, <5>1
        <5>2. CASE st = "OPENED"
          BY <1>3, <3>1, <4>1, <5>2
        <5>3. QED
          BY <1>3, <5>1, <5>2
      <4>4. st # "CLOSED"
        BY <1>3
      <4>5. QED
        BY <1>1, <3>1, <4>1, <4>2, <4>3, <4>4 DEF SlotWired
    <3>2. CASE j # i
      <4>1. h.owner[j] # c
        BY <1>1, <3>2 DEF Wire, SlotWired
      <4>2. SlotWired(h, k, j)
        BY DEF Wire
      <4>3. QED
        BY <1>3, <2>1, <2>2, <3>2, <4>1, <4>2 DEF SlotWired
    <3>3. QED
      BY <3>1, <3>2
  <2>4. ASSUME NEW d \in Cores PROVE CoreWired(g, l, d)
    <3>1. CoreWired(h, k, d)
      BY DEF Wire
    <3>2. CASE d = c
      BY <1>2, <1>3, <2>1, <3>1, <3>2 DEF CoreWired
    <3>3. CASE d # c
      <4>1. k[d].state # "CLOSED" => k[d].port # p
        BY <3>3, PortsDiffer
      <4>2. QED
        BY <1>3, <2>1, <3>1, <3>3, <4>1 DEF CoreWired
    <3>4. QED
      BY <3>2, <3>3
  <2>5. \A q \in g.node_in_use :
           \E j \in Slots : g.owner[j] # NoCore /\ g.channel[j].port = q
    BY <1>3 DEF Wire
  <2>6. QED
    BY <2>3, <2>4, <2>5 DEF Wire
<1>4. Wire(TC3xxStart(h, i), [k EXCEPT ![c].state = "STARTED"])
  <2>1. /\ TC3xxStart(h, i).owner = h.owner
        /\ TC3xxStart(h, i).node_in_use = h.node_in_use
        /\ \A j \in Slots : TC3xxStart(h, i).channel[j].port = h.channel[j].port
        /\ \A j \in Slots : j # i => TC3xxStart(h, i).channel[j] = h.channel[j]
        /\ TC3xxStart(h, i).channel[i].started = TRUE
        /\ TC3xxStart(h, i).standby = h.standby \ {p}
    BY <1>2 DEF Sound, HwType, TC3xxStart, SetStandby
  <2> DEFINE started == TC3xxStart(h, i).channel[i].started
  <2>2. started = ("STARTED" = "STARTED")
    BY <2>1
  <2> HIDE DEF started
  <2>3. QED
    BY <1>3, <2>1, <2>2 DEF started
<1>5. Wire(TC3xxStop(h, i), [k EXCEPT ![c].state = "OPENED"])
  <2>1. /\ TC3xxStop(h, i).owner = h.owner
        /\ TC3xxStop(h, i).node_in_use = h.node_in_use
        /\ \A j \in Slots : TC3xxStop(h, i).channel[j].port = h.channel[j].port
        /\ \A j \in Slots : j # i => TC3xxStop(h, i).channel[j] = h.channel[j]
        /\ TC3xxStop(h, i).channel[i].started = FALSE
        /\ TC3xxStop(h, i).standby = h.standby \cup {p}
    BY <1>2 DEF Sound, HwType, TC3xxStop, SetStandby
  <2> DEFINE started == TC3xxStop(h, i).channel[i].started
  <2>2. started = ("OPENED" = "STARTED")
    BY <2>1
  <2> HIDE DEF started
  <2>3. QED
    BY <1>3, <2>1, <2>2 DEF started
<1>6. QED
  BY <1>4, <1>5

\* What is left of the hardware when a core has been closed.
LEMMA CloseFields ==
    ASSUME NEW h, Sound(h), NEW i, IsOpen(h, i), NEW j \in Slots, NEW pin \in BOOLEAN,
           NEW g, g = ReleaseSlot(TC3xxClose(h, i, pin), j)
    PROVE  /\ g.owner = [h.owner EXCEPT ![j] = NoCore]
           /\ g.channel = [[h.channel EXCEPT ![i] = Idle] EXCEPT ![j] = Idle]
           /\ g.node_in_use = h.node_in_use \ {h.channel[i].port}
           /\ g.standby \subseteq h.standby \cup {h.channel[i].port}
<1> DEFINE h1 == TC3xxClose(h, i, pin)
<1>1. /\ h1.owner = h.owner
      /\ h1.channel = [h.channel EXCEPT ![i] = Idle]
      /\ h1.node_in_use = h.node_in_use \ {h.channel[i].port}
      /\ h1.standby \subseteq h.standby \cup {h.channel[i].port}
  BY DEF Sound, HwType, TC3xxClose, ReleaseNode, ReleaseModule, PowerOff, SetStandby
<1>2. HwType(h1)
  BY CloseIsSound DEF Sound
<1> HIDE DEF h1
<1>3. QED
  BY <1>1, <1>2 DEF ReleaseSlot, HwType, h1

LEMMA CloseFreesNode ==
    ASSUME NEW h, Sound(h), NEW i, IsOpen(h, i), NEW pin \in BOOLEAN
    PROVE  ReleaseSlot(TC3xxClose(h, i, pin), i).node_in_use
               = h.node_in_use \ {h.channel[i].port}
<1>1. i \in Slots
  BY DEF IsOpen
<1> DEFINE g == ReleaseSlot(TC3xxClose(h, i, pin), i)
<1>2. g = ReleaseSlot(TC3xxClose(h, i, pin), i)
  OBVIOUS
<1> HIDE DEF g
<1>3. /\ g.owner = [h.owner EXCEPT ![i] = NoCore]
      /\ g.channel = [[h.channel EXCEPT ![i] = Idle] EXCEPT ![i] = Idle]
      /\ g.node_in_use = h.node_in_use \ {h.channel[i].port}
      /\ g.standby \subseteq h.standby \cup {h.channel[i].port}
  BY <1>1, <1>2, CloseFields
<1>4. QED
  BY <1>3 DEF g

LEMMA CloseIsWired ==
    ASSUME NEW h, Sound(h), NEW k \in CoreType, Wire(h, k), NEW c \in Cores,
           k[c].state # "CLOSED", NEW pin \in BOOLEAN
    PROVE  /\ IsOpen(h, k[c].slot)
           /\ SlotOf(h, c) = k[c].slot
           /\ Wire(ReleaseSlot(TC3xxClose(h, k[c].slot, pin), k[c].slot), [k EXCEPT ![c] = Closed])
<1> DEFINE i == k[c].slot
           p == k[c].port
           g == ReleaseSlot(TC3xxClose(h, i, pin), i)
           l == [k EXCEPT ![c] = Closed]
<1>1. c # NoCore
  BY SocketAssumption
<1>2. i \in Slots /\ h.owner[i] = c /\ p \in h.node_in_use /\ h.channel[i].port = p
  BY <1>1 DEF Wire, CoreWired, SlotWired
<1>3. IsOpen(h, i)
  BY <1>2, SocketAssumption DEF IsOpen, Sound, HwType
<1>4. \A j \in Slots : h.owner[j] = c => j = i
  BY <1>1 DEF Wire, SlotWired
<1>5. SlotOf(h, c) = i
  BY <1>2, <1>4 DEF SlotOf
<1>6. /\ g.owner = [h.owner EXCEPT ![i] = NoCore]
      /\ g.channel = [[h.channel EXCEPT ![i] = Idle] EXCEPT ![i] = Idle]
      /\ g.node_in_use = h.node_in_use \ {p}
      /\ g.standby \subseteq h.standby \cup {p}
  BY <1>2, <1>3, CloseFields
<1>7. \A j \in Slots : /\ g.owner[j] = IF j = i THEN NoCore ELSE h.owner[j]
                       /\ g.channel[j] = IF j = i THEN Idle ELSE h.channel[j]
  BY <1>2, <1>6 DEF Sound, HwType
<1> HIDE DEF g
<1>8. \A d \in Cores : l[d] = IF d = c THEN Closed ELSE k[d]
  BY DEF CoreType
<1> HIDE DEF l
<1>9. \A j \in Slots : h.owner[j] # NoCore => h.owner[j] \in Cores
  BY DEF Sound, HwType
<1>10. \A j \in Slots : SlotWired(g, l, j)
  BY <1>4, <1>7, <1>8, <1>9 DEF Wire, SlotWired
<1>11. ASSUME NEW d \in Cores PROVE CoreWired(g, l, d)
  <2>1. CASE d = c
    BY <1>8, <2>1 DEF CoreWired, Closed
  <2>2. CASE d # c
    <3>1. k[d].state # "CLOSED" => k[d].port # p /\ k[d].slot # i
      BY <2>2, PortsDiffer
    <3>2. CoreWired(h, k, d) /\ l[d] = k[d]
      BY <1>8, <2>2 DEF Wire
    <3>3. QED
      BY <1>6, <1>7, <3>1, <3>2 DEF CoreWired
  <2>3. QED
    BY <2>1, <2>2
<1>12. ASSUME NEW q \in g.node_in_use
       PROVE  \E j \in Slots : g.owner[j] # NoCore /\ g.channel[j].port = q
  <2>1. q \in h.node_in_use /\ q # p
    BY <1>6
  <2>2. PICK j \in Slots : h.owner[j] # NoCore /\ h.channel[j].port = q
    BY <2>1 DEF Wire
  <2>3. j # i
    BY <1>2, <2>1, <2>2
  <2>4. QED
    BY <1>7, <2>2, <2>3
<1>13. Wire(g, l)
  BY <1>10, <1>11, <1>12 DEF Wire
<1>14. QED
  BY <1>3, <1>5, <1>13 DEF g, l

LEMMA InitWired == Init => Wired
BY SocketAssumption DEF Init, Wired, Wire, SlotWired, CoreWired, Idle, Closed, Unbound, Cores

\* A reset that nobody is hurt by finds no core open.
LEMMA ResetKeepsWired ==
    ASSUME IInv, Wired, ~shared, Owners(hw) = {}
    PROVE  hw.node_in_use = {} /\ \A c \in Cores : core[c].state = "CLOSED"
<1>1. HwType(hw) /\ Wire(hw, core)
  BY InvIsSound DEF Wired, Sound
<1>2. QED
  BY <1>1, AllClosed

LEMMA NextWired == IInv /\ Wired /\ [Next]_vars => Wired'
<1> SUFFICES ASSUME IInv, Wired, [Next]_vars, ~shared' PROVE Wired'
  BY DEF Wired
<1>0. /\ TypeOK /\ Sound(hw) /\ HwType(hw)
      /\ core \in CoreType
  BY InvIsSound DEF TypeOK, CoreType, Sound
<1>1. CASE UNCHANGED vars
  BY <1>1 DEF vars, Wired, Wire, SlotWired, CoreWired
<1>a. ASSUME ~shared
      PROVE  Wire(hw, core) /\ \A s \in Sockets : socket[s].owns <=> core[s].state # "CLOSED"
  BY <1>a DEF Wired
<1>2. CASE PlatformInit \/ PlatformDeinit
  <2>1. ~shared /\ Owners(hw) = {}
    BY <1>2 DEF PlatformInit, PlatformDeinit, Sharing
  <2>2. Wire(hw', core)
    BY <1>0, <1>2, <2>1, ResetKeepsWired, ResetIsWired DEF PlatformInit, PlatformDeinit
  <2>3. QED
    BY <1>a, <1>2, <2>1, <2>2 DEF PlatformInit, PlatformDeinit, Wired
<1>3. CASE BoardInitFails
  <2>1. ~shared /\ Owners(hw) = {}
    BY <1>3 DEF BoardInitFails, Sharing
  <2>2. \A c \in Cores : core[c].state = "CLOSED"
    BY <2>1, ResetKeepsWired
  <2>3. /\ hw'.owner = hw.owner /\ hw'.channel = hw.channel
        /\ hw'.node_in_use = hw.node_in_use
    BY <1>0, <1>3 DEF BoardInitFails, HwType
  <2>4. Wire(hw', core)
    BY <1>a, <2>1, <2>2, <2>3 DEF Wire, SlotWired, CoreWired
  <2>5. QED
    BY <1>a, <1>3, <2>1, <2>4 DEF BoardInitFails, Wired
<1>4. ASSUME NEW c \in AppCores, NEW p \in Ports, NEW fault \in OpenFaults,
             PlatformOpen(c, p, fault)
      PROVE  Wired'
  <2>1. PICK i \in Slots : /\ Allocates(hw, i)
                           /\ hw' = OpenPort(hw, i, c, p, fault)
                           /\ core' = [core EXCEPT ![c] = CoreAfterOpen(hw', i, c, p)]
    BY <1>4 DEF PlatformOpen
  <2>2. ~shared /\ c \in Cores /\ hw.owner[i] = NoCore
    BY <1>4, <2>1 DEF PlatformOpen, Cores, Allocates
  <2>3. core[c].state = "CLOSED"
    BY <1>0, <1>4, <1>a, <2>2, AllClosed DEF PlatformOpen, MayOpen
  <2>4. Wire(hw', core')
    BY <1>0, <1>a, <2>1, <2>2, <2>3, OpenIsWired
  <2>5. \A s \in Sockets : core'[s] = core[s]
    BY <1>0, <2>1, SocketAssumption DEF CoreType, Cores
  <2>6. QED
    BY <1>a, <1>4, <2>2, <2>4, <2>5 DEF PlatformOpen, Wired
<1>5. ASSUME NEW c \in AppCores, NEW pin \in BOOLEAN, PlatformClose(c, pin)
      PROVE  Wired'
  <2>1. ~shared /\ c \in Cores /\ core[c].state # "CLOSED"
    BY <1>5 DEF PlatformClose, Cores, Closable
  <2>2. Wire(hw', core')
    BY <1>0, <1>5, <1>a, <2>1, CloseIsWired DEF PlatformClose, ClosePort
  <2>3. \A s \in Sockets : core'[s] = core[s]
    BY <1>0, <1>5, SocketAssumption DEF PlatformClose, CoreType, Cores
  <2>4. QED
    BY <1>a, <1>5, <2>1, <2>2, <2>3 DEF PlatformClose, Wired
<1>6. ASSUME NEW c \in Cores, CoreStart(c) \/ CoreStop(c)
      PROVE  Wired'
  <2>1. ~shared /\ core[c].state # "CLOSED" /\ socket' = socket
    BY <1>6 DEF CoreStart, CoreStop
  <2>2. \/ /\ hw' = TC3xxStart(hw, core[c].slot)
           /\ core' = [core EXCEPT ![c].state = "STARTED"]
        \/ /\ hw' = TC3xxStop(hw, core[c].slot)
           /\ core' = [core EXCEPT ![c].state = "OPENED"]
    BY <1>6 DEF CoreStart, CoreStop
  <2>3. Wire(hw', core')
    <3>1. /\ Wire(TC3xxStart(hw, core[c].slot), [core EXCEPT ![c].state = "STARTED"])
          /\ Wire(TC3xxStop(hw, core[c].slot), [core EXCEPT ![c].state = "OPENED"])
      BY <1>0, <1>a, <2>1, StartStopIsWired
    <3>2. QED
      BY <2>2, <3>1
  <2>4. \A d \in Cores : core'[d].state # "CLOSED" <=> core[d].state # "CLOSED"
    BY <1>0, <1>6 DEF CoreStart, CoreStop, CoreType
  <2>5. QED
    BY <1>a, <2>1, <2>4, <2>3 DEF Wired, Cores
<1>7. ASSUME NEW s \in Sockets, NEW c \in AppCores, SocketBindCore(s, c)
      PROVE  Wired'
  <2>1. \A t \in Sockets : socket'[t].owns = socket[t].owns
    BY <1>0, <1>7 DEF SocketBindCore, TypeOK
  <2>2. QED
    BY <1>a, <1>7, <2>1 DEF SocketBindCore, Wired
<1>8. ASSUME NEW s \in Sockets, SocketUnbind(s)
      PROVE  Wired'
  <2>1. ~shared /\ hw' = hw /\ ~socket[s].owns /\ s \in Cores
    BY <1>8 DEF SocketUnbind, Cores
  <2>2. core[s].state = "CLOSED"
    BY <1>a, <2>1
  <2>3. \A d \in Cores : /\ core'[d].state = core[d].state
                         /\ core[d].state # "CLOSED" => core'[d] = core[d]
    BY <1>0, <1>8, <2>2 DEF SocketUnbind, Closed, CoreType
  <2>4. \A i \in Slots : hw.owner[i] # NoCore => hw.owner[i] \in Cores
    BY <1>0 DEF HwType
  <2>5. Wire(hw', core')
    BY <1>a, <2>1, <2>3, <2>4 DEF Wire, SlotWired, CoreWired
  <2>6. \A t \in Sockets : socket'[t].owns <=> socket[t].owns
    BY <1>0, <1>8, <2>1 DEF SocketUnbind, TypeOK, Unbound
  <2>7. QED
    BY <1>a, <2>1, <2>3, <2>5, <2>6 DEF Wired, Cores
<1>9. ASSUME NEW s \in Sockets, NEW p \in Ports, NEW fault \in OpenFaults,
              SocketOpen(s, p, fault)
       PROVE  Wired'
  <2> DEFINE opened(i) == OpenPort(InitPlatform(hw), i, s, p, fault)
  <2>1. PICK i \in Slots : /\ Allocates(InitPlatform(hw), i)
                           /\ \/ OpenFails(s, opened(i))
                              \/ \E pin \in BOOLEAN : StartFails(s, opened(i), i, pin)
                              \/ OpenSucceeds(s, opened(i), i, p)
    BY <1>9 DEF SocketOpen
  <2> DEFINE h == opened(i)
             k == [core EXCEPT ![s] = CoreAfterOpen(h, i, s, p)]
  <2>2. s \in Cores /\ ~shared /\ Owners(hw) \subseteq {s} /\ ~socket[s].owns
    <3>1. Sharing({s}) /\ socket[s] = Unbound
      BY <1>9 DEF SocketOpen, SocketMayOpen
    <3>2. ~shared /\ Owners(hw) \ {s} = {}
      BY <3>1 DEF Sharing
    <3>3. s \in Cores
      BY DEF Cores
    <3>4. ~socket[s].owns
      BY <3>1 DEF Unbound
    <3>5. QED
      BY <3>2, <3>3, <3>4
  <2>3. Owners(hw) = {}
    BY <1>0, <1>a, <2>2, AllClosed
  <2>4. hw.node_in_use = {} /\ \A c \in Cores : core[c].state = "CLOSED"
    BY <2>2, <2>3, ResetKeepsWired
  <2>5. Sound(InitPlatform(hw)) /\ Wire(InitPlatform(hw), core)
    BY <1>0, <2>4, ResetIsSound, ResetIsWired
  <2>6. InitPlatform(hw).owner[i] = NoCore
    BY <2>1 DEF Allocates
  <2>7. Wire(h, k) /\ (s \in Owners(h) => IsOpen(h, i) /\ h.channel[i].port = p)
    BY <1>0, <2>2, <2>4, <2>5, <2>6, OpenIsWired
  <2>8. Sound(h)
    BY <2>2, <2>5, OpenPortIsSound
  <2> HIDE DEF h
  <2>9. k \in CoreType
    BY <1>0, <2>2 DEF CoreAfterOpen, CoreType, Closed
  <2>10. \A c \in Cores : k[c] = IF c = s THEN CoreAfterOpen(h, i, s, p) ELSE core[c]
    BY <1>0 DEF CoreType
  <2>11. \A t \in Sockets : ~socket[t].owns
    BY <1>a, <2>2, <2>4 DEF Cores
  <2>12. ASSUME hw'.node_in_use = {}, NEW g, HwType(g), g.node_in_use = {},
                hw' = DeinitPlatform(g), core' = core, socket' = socket
         PROVE  Wired'
    <3>1. Wire(hw', core)
      BY <2>4, <2>12, ResetIsWired
    <3>2. QED
      BY <2>4, <2>11, <2>12, <3>1 DEF Wired, Cores
  <2>13. \A g : HwType(g) => DeinitPlatform(g).node_in_use = g.node_in_use
    BY DEF DeinitPlatform, ClearSlots, HwType
  <2>14. CASE OpenFails(s, h)
    <3>1. \A c \in Cores : k[c].state = "CLOSED"
      BY <2>4, <2>10, <2>14 DEF OpenFails, CoreAfterOpen, Closed
    <3>2. h.node_in_use = {} /\ HwType(h)
      BY <2>7, <2>8, <3>1, AllClosed DEF Sound
    <3>3. QED
      BY <2>12, <2>13, <2>14, <3>2 DEF OpenFails
  <2>15. ASSUME s \in Owners(h)
         PROVE  /\ k[s] = [state |-> "OPENED", slot |-> i, port |-> p]
                /\ h.node_in_use = {p}
    <3>1. k[s] = [state |-> "OPENED", slot |-> i, port |-> p]
      BY <2>2, <2>10, <2>15 DEF CoreAfterOpen
    <3>2. p \in h.node_in_use
      BY <2>2, <2>7, <3>1 DEF Wire, CoreWired
    <3>3. ASSUME NEW q \in h.node_in_use PROVE q = p
      <4>1. PICK j \in Slots : h.owner[j] # NoCore /\ h.channel[j].port = q
        BY <2>7 DEF Wire
      <4>2. h.owner[j] \in Cores /\ k[h.owner[j]].state # "CLOSED"
        BY <2>7, <2>8, <4>1 DEF Sound, HwType, Wire, SlotWired
      <4>3. h.owner[j] = s
        BY <2>4, <2>10, <4>2
      <4>4. QED
        BY <2>7, <3>1, <4>1, <4>3 DEF Wire, SlotWired
    <3>4. QED
      BY <3>1, <3>2, <3>3
  <2>16. ASSUME NEW pin \in BOOLEAN, StartFails(s, h, i, pin)
         PROVE  Wired'
    <3> DEFINE g == ReleaseSlot(TC3xxClose(h, i, pin), i)
    <3>1. s \in Owners(h)
      BY <2>16 DEF StartFails
    <3>2. g.node_in_use = h.node_in_use \ {h.channel[i].port}
      BY <2>7, <2>8, <3>1, CloseFreesNode
    <3>3. g.node_in_use = {}
      BY <2>7, <2>15, <3>1, <3>2
    <3>4. HwType(g)
      BY <2>7, <2>8, <3>1, CloseIsSound, ReleaseSlotIsSound DEF Sound
    <3>5. hw' = DeinitPlatform(g) /\ core' = core /\ socket' = socket
      BY <2>16 DEF StartFails
    <3> HIDE DEF g
    <3>6. QED
      BY <2>12, <2>13, <3>3, <3>4, <3>5
  <2>17. CASE OpenSucceeds(s, h, i, p)
    <3>1. s \in Owners(h)
      BY <2>17 DEF OpenSucceeds
    <3>2. k[s] = [state |-> "OPENED", slot |-> i, port |-> p]
      BY <2>15, <3>1
    <3>3. Wire(TC3xxStart(h, k[s].slot), [k EXCEPT ![s].state = "STARTED"])
      <4>1. k[s].state # "CLOSED"
        BY <3>2
      <4> HIDE DEF k
      <4>2. QED
        BY <2>2, <2>7, <2>8, <2>9, <4>1, StartStopIsWired
    <3>4. core' = [k EXCEPT ![s].state = "STARTED"]
      <4>1. core' = [core EXCEPT ![s] = [state |-> "STARTED", slot |-> i, port |-> p]]
        BY <2>17 DEF OpenSucceeds
      <4>2. [k[s] EXCEPT !.state = "STARTED"] = [state |-> "STARTED", slot |-> i, port |-> p]
        BY <3>2
      <4>3. [k EXCEPT ![s].state = "STARTED"] = [k EXCEPT ![s] = [k[s] EXCEPT !.state = "STARTED"]]
        BY <2>2, <2>9 DEF CoreType
      <4>4. QED
        BY <1>0, <2>2, <4>1, <4>2, <4>3 DEF CoreType
    <3>5. hw' = TC3xxStart(h, k[s].slot)
      BY <2>17, <3>2 DEF OpenSucceeds
    <3>6. socket' = [socket EXCEPT ![s] = [core |-> s, owns |-> TRUE]]
      BY <2>17 DEF OpenSucceeds
    <3>7. core' = [core EXCEPT ![s] = [state |-> "STARTED", slot |-> i, port |-> p]]
      BY <2>17 DEF OpenSucceeds
    <3>8. \A t \in Sockets : socket'[t].owns <=> core'[t].state # "CLOSED"
      BY <1>0, <2>2, <2>4, <2>11, <3>6, <3>7 DEF TypeOK, CoreType, Cores
    <3>9. QED
      BY <3>3, <3>4, <3>5, <3>8 DEF Wired
  <2>18. QED
    BY <2>1, <2>14, <2>16, <2>17 DEF h
<1>10. ASSUME NEW s \in Sockets, NEW pin \in BOOLEAN, NEW offPin \in BOOLEAN,
              SocketClose(s, pin, offPin)
       PROVE  Wired'
  <2> DEFINE i == core[s].slot
             h == AfterStop(s, pin)
             g == ClosePort(h, s, offPin)
  <2>1. s \in Cores /\ ~shared /\ Owners(hw) \subseteq {s} /\ socket[s].owns
    BY <1>10 DEF Cores, SocketClose, Sharing
  <2>2. Wire(hw, core) /\ core[s].state # "CLOSED"
    BY <1>a, <2>1
  <2>3. IsOpen(hw, i) /\ SlotOf(hw, s) = i
    BY <1>0, <2>1, <2>2, CloseIsWired
  <2>4. \A c \in Cores : c # s => core[c].state = "CLOSED"
    BY <1>0, <2>1, <2>2, AllClosed
  <2>5. hw.node_in_use \subseteq {core[s].port} /\ hw.channel[i].port = core[s].port
    <3>1. ASSUME NEW q \in hw.node_in_use PROVE q = core[s].port
      <4>1. PICK j \in Slots : hw.owner[j] # NoCore /\ hw.channel[j].port = q
        BY <2>2 DEF Wire
      <4>2. hw.owner[j] \in Cores /\ core[hw.owner[j]].state # "CLOSED"
        BY <1>0, <2>2, <4>1 DEF HwType, Wire, SlotWired
      <4>3. hw.owner[j] = s
        BY <2>4, <4>2
      <4>4. QED
        BY <2>2, <4>1, <4>3 DEF Wire, SlotWired
    <3>2. hw.channel[i].port = core[s].port
      BY <2>1, <2>2, SocketAssumption DEF Wire, CoreWired, SlotWired
    <3>3. QED
      BY <3>1, <3>2
  <2>6. Sound(h) /\ h.owner = hw.owner /\ h.node_in_use = hw.node_in_use
        /\ h.channel[i].port = hw.channel[i].port
    <3>1. i \in Slots
      BY <2>3 DEF IsOpen
    <3>2. /\ TC3xxStop(hw, i).owner = hw.owner
          /\ TC3xxStop(hw, i).node_in_use = hw.node_in_use
          /\ TC3xxStop(hw, i).channel[i].port = hw.channel[i].port
      BY <1>0, <3>1 DEF TC3xxStop, SetStandby, HwType
    <3>3. QED
      BY <1>0, <2>3, <3>2, StartStopIsSound DEF AfterStop
  <2> HIDE DEF h
  <2>7. IsOpen(h, i)
    BY <2>3, <2>6 DEF IsOpen
  <2>8. s \in Owners(h) /\ SlotOf(h, s) = i
    <3>1. s \in Owners(hw)
      BY <1>0, <2>1, <2>2, AllClosed
    <3>2. QED
      BY <2>3, <2>6, <3>1 DEF Owners, SlotOf
  <2>9. Closable(h, s)
    BY <2>2, <2>7, <2>8 DEF Closable
  <2>10. hw' = DeinitPlatform(g)
    BY <1>10, <2>9 DEF SocketClose, h
  <2>11. g = ReleaseSlot(TC3xxClose(h, i, offPin), i)
    BY <2>8 DEF ClosePort
  <2>12. HwType(g)
    BY <2>1, <2>6, <2>9, ClosePortIsSound DEF Sound
  <2> HIDE DEF g
  <2>13. g.node_in_use = {}
    <3>1. i \in Slots
      BY <2>3 DEF IsOpen
    <3>2. g.node_in_use = h.node_in_use \ {h.channel[i].port}
      BY <2>6, <2>7, <2>11, CloseFreesNode
    <3>3. QED
      BY <2>5, <2>6, <3>2
  <2>14. core' = [core EXCEPT ![s] = Closed] /\ socket' = [socket EXCEPT ![s] = Unbound]
    BY <1>10 DEF SocketClose
  <2>15. \A c \in Cores : core'[c].state = "CLOSED"
    BY <1>0, <2>4, <2>14 DEF CoreType, Closed
  <2>16. Wire(hw', core')
    BY <2>10, <2>12, <2>13, <2>15, ResetIsWired
  <2>17. \A t \in Sockets : ~socket'[t].owns
    <3>1. \A t \in Sockets : t # s => ~socket[t].owns
      BY <1>a, <2>1, <2>4 DEF Cores
    <3>2. QED
      BY <1>0, <2>14, <3>1 DEF TypeOK, Unbound
  <2>18. QED
    BY <2>15, <2>16, <2>17 DEF Wired, Cores
<1>11. QED
  BY <1>1, <1>2, <1>3, <1>4, <1>5, <1>6, <1>7, <1>8, <1>9, <1>10 DEF Next

-----------------------------------------------------------------------------
(* As long as the platform is not reset under somebody's channel, whatever *)
(* is reserved belongs to an open core, whichever call has failed.         *)
THEOREM NothingLeaksTheorem == Spec => []NothingLeaks
<1>1. IInv /\ Wired => NothingLeaks
  <2>1. SUFFICES ASSUME IInv, Wired, ~shared
                 PROVE  /\ hw.node_in_use = {core[c].port : c \in Owners(hw)}
                        /\ Owners(hw) = {c \in Cores : core[c].state # "CLOSED"}
    BY DEF NothingLeaks
  <2>2. HwType(hw) /\ Wire(hw, core)
    BY <2>1, InvIsSound DEF Wired, Sound
  <2>3. Owners(hw) \subseteq Cores
    BY <2>2 DEF HwType, Owners
  <2>4. Owners(hw) = {c \in Cores : core[c].state # "CLOSED"}
    BY <2>2, <2>3, AllClosed
  <2>5. \A c \in Owners(hw) : core[c].port \in hw.node_in_use
    BY <2>2, <2>4 DEF Wire, CoreWired
  <2>6. \A q \in hw.node_in_use : \E c \in Owners(hw) : q = core[c].port
    <3>1. SUFFICES ASSUME NEW q \in hw.node_in_use
                   PROVE  \E c \in Owners(hw) : q = core[c].port
      OBVIOUS
    <3>2. PICK i \in Slots : hw.owner[i] # NoCore /\ hw.channel[i].port = q
      BY <2>2 DEF Wire
    <3>3. hw.owner[i] \in Owners(hw)
      BY <3>2 DEF Owners
    <3>4. core[hw.owner[i]].port = q
      BY <2>2, <3>2 DEF Wire, SlotWired
    <3>5. QED
      BY <3>3, <3>4
  <2>7. QED
    BY <2>4, <2>5, <2>6
<1>2. QED
  BY InitInv, NextInv, InitWired, NextWired, <1>1, PTL DEF Spec

\* A transceiver nobody has started is in standby, or its power-off failed.
Asleep ==
    ~shared /\ hw.initialized => \A p \in Ports :
        \/ p \in hw.standby \cup unslept
        \/ \E c \in Cores : core[c].state = "STARTED" /\ core[c].port = p

\* The open channel of a core that is not closed, and what its stop and close leave.
LEMMA StandbyFields ==
    ASSUME IInv, Wired, ~shared, NEW c \in Cores, core[c].state # "CLOSED",
           NEW pin \in BOOLEAN
    PROVE  /\ IsOpen(hw, core[c].slot)
           /\ hw.channel[core[c].slot].port = core[c].port /\ core[c].port \in Ports
           /\ TC3xxStart(hw, core[c].slot).standby = hw.standby \ {core[c].port}
           /\ TC3xxStop(hw, core[c].slot).standby = hw.standby \cup {core[c].port}
           /\ ClosePort(hw, c, pin).standby
                = IF pin THEN hw.standby \cup {core[c].port} ELSE hw.standby
<1> DEFINE i == core[c].slot
           p == core[c].port
<1>1. HwType(hw) /\ Sound(hw) /\ Wire(hw, core)
  BY InvIsSound DEF Wired, Sound
<1>2. i \in Slots /\ hw.owner[i] = c /\ p \in hw.node_in_use
  BY <1>1 DEF Wire, CoreWired
<1>3. hw.channel[i].port = p /\ p \in Ports
  BY <1>1, <1>2, SocketAssumption DEF Wire, SlotWired, HwType
<1>4. IsOpen(hw, i)
  BY <1>2, <1>3, SocketAssumption DEF IsOpen
<1>5. /\ TC3xxStart(hw, i).standby = hw.standby \ {p}
      /\ TC3xxStop(hw, i).standby = hw.standby \cup {p}
  BY <1>1, <1>2, <1>3 DEF TC3xxStart, TC3xxStop, SetStandby, HwType
<1>6. \A j : ReleaseSlot(TC3xxClose(hw, i, pin), j).standby
               = IF pin THEN hw.standby \cup {p} ELSE hw.standby
  BY <1>1, <1>2, <1>3
     DEF ReleaseSlot, TC3xxClose, ReleaseNode, ReleaseModule, PowerOff, SetStandby, HwType
<1>7. QED
  BY <1>3, <1>4, <1>5, <1>6 DEF ClosePort

LEMMA InitAsleep == Init => Asleep
BY DEF Init, Asleep

LEMMA NextAsleep == IInv /\ Wired /\ Asleep /\ [Next]_vars => Asleep'
<1> DEFINE Runs(k, p) == \E c \in Cores : k[c].state = "STARTED" /\ k[c].port = p
<1> SUFFICES ASSUME IInv, Wired, Asleep, [Next]_vars, ~shared', hw'.initialized,
                    NEW q \in Ports
             PROVE  q \in hw'.standby \cup unslept' \/ Runs(core', q)
  BY DEF Asleep
<1>0. /\ TypeOK /\ HwType(hw) /\ Sound(hw) /\ core \in CoreType
      /\ \A c \in AppCores : c \in Cores
      /\ \A s \in Sockets : s \in Cores
  BY InvIsSound DEF TypeOK, CoreType, Sound, Cores
<1>a. ASSUME ~shared, hw.initialized
      PROVE  q \in hw.standby \cup unslept \/ Runs(core, q)
  BY <1>a DEF Asleep
<1>1. CASE UNCHANGED vars
  BY <1>1, <1>a DEF vars
<1>2. CASE PlatformInit
  BY <1>0, <1>2 DEF PlatformInit, InitPlatform, ClearSlots, BoardInit, HwType
<1>3. CASE BoardInitFails
  <2>1. hw'.initialized = hw.initialized /\ hw.standby \subseteq hw'.standby
    BY <1>0, <1>3 DEF BoardInitFails, HwType
  <2>2. QED
    BY <1>3, <1>a, <2>1 DEF BoardInitFails, Sharing
<1>4. \A g : HwType(g) => ~DeinitPlatform(g).initialized
  BY DEF DeinitPlatform, ClearSlots, HwType
<1>5. CASE PlatformDeinit
  BY <1>0, <1>4, <1>5 DEF PlatformDeinit
<1>6. ASSUME NEW c \in AppCores, NEW p \in Ports, NEW fault \in OpenFaults,
             PlatformOpen(c, p, fault)
      PROVE  q \in hw'.standby \cup unslept' \/ Runs(core', q)
  <2>1. PICK i \in Slots : /\ hw' = OpenPort(hw, i, c, p, fault)
                           /\ core' = [core EXCEPT ![c] = CoreAfterOpen(hw', i, c, p)]
    BY <1>6 DEF PlatformOpen
  <2>2. ~shared /\ unslept' = unslept /\ hw.initialized
    BY <1>6 DEF PlatformOpen, MayOpen
  <2>3. core[c].state = "CLOSED"
    BY <1>0, <1>6, <2>2, AllClosed DEF PlatformOpen, MayOpen, Wired
  <2>4. hw'.standby = hw.standby
    BY <1>0, <2>1 DEF OpenPort, TC3xxOpen, UndoOpen, ReleaseNode, Reserve, AcquireModule,
                      ReleaseSlot, HwType
  <2>5. \A d \in Cores : d # c => core'[d] = core[d]
    BY <1>0, <2>1 DEF CoreType
  <2>6. QED
    BY <1>a, <2>2, <2>3, <2>4, <2>5
<1>7. ASSUME NEW c \in AppCores, NEW pin \in BOOLEAN, PlatformClose(c, pin)
      PROVE  q \in hw'.standby \cup unslept' \/ Runs(core', q)
  <2>1. /\ ~shared /\ c \in Cores /\ core[c].state # "CLOSED"
        /\ hw' = ClosePort(hw, c, pin)
        /\ core' = [core EXCEPT ![c] = Closed]
        /\ unslept' = IF pin THEN unslept ELSE unslept \cup {hw.channel[core[c].slot].port}
    BY <1>0, <1>7 DEF PlatformClose, Closable
  <2>2. /\ hw'.standby = IF pin THEN hw.standby \cup {core[c].port} ELSE hw.standby
        /\ hw.channel[core[c].slot].port = core[c].port
    BY <2>1, StandbyFields
  <2>3. hw'.initialized = hw.initialized
    BY <1>0, <2>1 DEF ClosePort, ReleaseSlot, TC3xxClose, ReleaseNode, ReleaseModule,
                      PowerOff, SetStandby, HwType
  <2>4. \A d \in Cores : d # c => core'[d] = core[d]
    BY <1>0, <2>1 DEF CoreType
  <2>5. CASE q = core[c].port
    BY <2>1, <2>2, <2>5
  <2>6. CASE q # core[c].port
    BY <1>a, <2>1, <2>2, <2>3, <2>4, <2>6
  <2>7. QED
    BY <2>5, <2>6
<1>8. ASSUME NEW c \in Cores, CoreStart(c) \/ CoreStop(c)
      PROVE  q \in hw'.standby \cup unslept' \/ Runs(core', q)
  <2>1. /\ ~shared /\ core[c].state # "CLOSED" /\ unslept' = unslept
    BY <1>8 DEF CoreStart, CoreStop
  <2>2. /\ hw.channel[core[c].slot].port = core[c].port
        /\ TC3xxStart(hw, core[c].slot).standby = hw.standby \ {core[c].port}
        /\ TC3xxStop(hw, core[c].slot).standby = hw.standby \cup {core[c].port}
    BY <2>1, StandbyFields
  <2>3. hw'.initialized = hw.initialized
    BY <1>0, <1>8 DEF CoreStart, CoreStop, TC3xxStart, TC3xxStop, SetStandby, HwType
  <2>4. CASE CoreStart(c)
    <3>1. \A d \in Cores : core'[d].port = core[d].port
      BY <1>0, <2>4 DEF CoreStart, CoreType
    <3>2. \A d \in Cores : core[d].state = "STARTED" \/ d = c => core'[d].state = "STARTED"
      BY <1>0, <2>4 DEF CoreStart, CoreType
    <3>3. hw'.standby = hw.standby \ {core[c].port}
      BY <2>2, <2>4 DEF CoreStart
    <3>4. QED
      BY <1>a, <2>1, <2>3, <3>1, <3>2, <3>3
  <2>5. CASE CoreStop(c)
    <3>1. \A d \in Cores : d # c => core'[d] = core[d]
      BY <1>0, <2>5 DEF CoreStop, CoreType
    <3>2. hw'.standby = hw.standby \cup {core[c].port}
      BY <2>2, <2>5 DEF CoreStop
    <3>3. QED
      BY <1>a, <2>1, <2>3, <3>1, <3>2
  <2>6. QED
    BY <1>8, <2>4, <2>5
<1>9. ASSUME NEW s \in Sockets, \/ SocketUnbind(s)
                                \/ \E c \in AppCores : SocketBindCore(s, c)
      PROVE  q \in hw'.standby \cup unslept' \/ Runs(core', q)
  <2>1. ~shared /\ hw' = hw /\ unslept' = unslept
    BY <1>9 DEF SocketUnbind, SocketBindCore
  <2>2. CASE core' = core
    BY <1>a, <2>1, <2>2
  <2>3. CASE SocketUnbind(s)
    <3>1. core[s].state = "CLOSED"
      BY <2>1, <2>3 DEF SocketUnbind, Wired
    <3>2. \A d \in Cores : d # s => core'[d] = core[d]
      BY <1>0, <2>3 DEF SocketUnbind, CoreType
    <3>3. QED
      BY <1>a, <2>1, <3>1, <3>2
  <2>4. QED
    BY <1>9, <2>2, <2>3 DEF SocketBindCore
<1>10. ASSUME NEW s \in Sockets, NEW p \in Ports, NEW fault \in OpenFaults,
              SocketOpen(s, p, fault)
       PROVE  q \in hw'.standby \cup unslept' \/ Runs(core', q)
  <2> DEFINE opened(i) == OpenPort(InitPlatform(hw), i, s, p, fault)
  <2>1. PICK i \in Slots : \/ OpenFails(s, opened(i))
                           \/ \E pin \in BOOLEAN : StartFails(s, opened(i), i, pin)
                           \/ OpenSucceeds(s, opened(i), i, p)
    BY <1>10 DEF SocketOpen
  <2> DEFINE h == opened(i)
  <2>2. Sound(h)
    BY <1>0, ResetIsSound, OpenPortIsSound
  <2>3. s \in Owners(h) => IsOpen(h, i)
    BY <1>0, <2>2, OwnerIsOpen, ResetIsSound DEF Sound
  <2>4. h.standby = Ports
    BY <1>0 DEF OpenPort, TC3xxOpen, UndoOpen, ReleaseNode, Reserve, AcquireModule,
                ReleaseSlot, InitPlatform, ClearSlots, BoardInit, HwType
  <2>5. h.channel[i].port \in {p, NoPort}
    BY <1>0 DEF OpenPort, TC3xxOpen, UndoOpen, ReleaseNode, Reserve, AcquireModule,
                ReleaseSlot, InitPlatform, ClearSlots, BoardInit, HwType, Idle
  <2> HIDE DEF h
  <2>6. ~OpenFails(s, h)
    BY <1>4, <2>2 DEF OpenFails, Sound
  <2>7. ASSUME NEW pin \in BOOLEAN PROVE ~StartFails(s, h, i, pin)
    <3>1. SUFFICES ASSUME s \in Owners(h), StartFails(s, h, i, pin) PROVE FALSE
      BY DEF StartFails
    <3>2. Sound(ReleaseSlot(TC3xxClose(h, i, pin), i))
      BY <2>2, <2>3, <3>1, CloseIsSound, ReleaseSlotIsSound
    <3>3. QED
      BY <1>4, <3>1, <3>2 DEF StartFails, Sound
  <2>8. CASE OpenSucceeds(s, h, i, p)
    <3>1. s \in Owners(h) /\ hw' = TC3xxStart(h, i)
      BY <2>8 DEF OpenSucceeds
    <3>2. h.channel[i].port = p
      BY <2>3, <2>5, <3>1 DEF IsOpen
    <3>3. hw'.standby = Ports \ {p}
      BY <2>2, <2>4, <3>1, <3>2 DEF TC3xxStart, SetStandby, Sound, HwType
    <3>4. core'[s] = [state |-> "STARTED", slot |-> i, port |-> p]
      BY <1>0, <2>8 DEF OpenSucceeds, CoreType
    <3>5. QED
      BY <1>0, <3>3, <3>4
  <2>9. QED
    BY <2>1, <2>6, <2>7, <2>8 DEF h
<1>11. ASSUME NEW s \in Sockets, NEW pin \in BOOLEAN, NEW offPin \in BOOLEAN,
              SocketClose(s, pin, offPin)
       PROVE  FALSE
  <2> DEFINE h == AfterStop(s, pin)
             g == IF Closable(h, s) THEN ClosePort(h, s, offPin) ELSE h
  <2>1. Sound(h)
    BY <1>0, StartStopIsSound DEF AfterStop, StopFails
  <2> HIDE DEF h
  <2>2. Sound(g)
    BY <1>0, <2>1, ClosePortIsSound
  <2>3. hw' = DeinitPlatform(g)
    BY <1>11 DEF SocketClose, h
  <2> HIDE DEF g
  <2>4. QED
    BY <1>4, <2>2, <2>3 DEF Sound
<1>12. QED
  BY <1>1, <1>2, <1>3, <1>5, <1>6, <1>7, <1>8, <1>9, <1>10, <1>11 DEF Next

(* As long as the platform is not reset under somebody's channel, a started *)
(* core has a running channel on its own port with the transceiver awake,   *)
(* and a transceiver nobody has started sleeps, unless its power-off failed. *)
THEOREM StartedCoreTheorem == Spec => []StartedCoreIsWired
<1>1. IInv /\ Wired /\ Asleep => StartedCoreIsWired
  <2>1. SUFFICES ASSUME IInv, Wired, Asleep, ~shared,
                        NEW c \in Cores, core[c].state = "STARTED"
                 PROVE  /\ hw.channel[core[c].slot] = [port |-> core[c].port, started |-> TRUE]
                        /\ core[c].port \notin hw.standby
    BY DEF StartedCoreIsWired, Asleep
  <2>2. HwType(hw) /\ Wire(hw, core)
    BY <2>1, InvIsSound DEF Wired, Sound
  <2>3. core[c].slot \in Slots /\ hw.owner[core[c].slot] = c /\ core[c].port \notin hw.standby
    BY <2>1, <2>2 DEF Wire, CoreWired
  <2>4. SlotWired(hw, core, core[c].slot) /\ c # NoCore
    BY <2>2, <2>3, SocketAssumption DEF Wire
  <2>5. hw.channel[core[c].slot].port = core[c].port /\ hw.channel[core[c].slot].started
    BY <2>1, <2>3, <2>4 DEF SlotWired
  <2>6. hw.channel[core[c].slot] \in [port : Ports \cup {NoPort}, started : BOOLEAN]
    BY <2>2, <2>3 DEF HwType
  <2>7. QED
    BY <2>3, <2>5, <2>6
<1>2. QED
  BY InitInv, NextInv, InitWired, NextWired, InitAsleep, NextAsleep, <1>1, PTL DEF Spec

-----------------------------------------------------------------------------
\* What a call does to the flags, in the terms of WrapperFollowsSocket.
Follows(open, stuck) ==
    /\ open \cup stuck \subseteq is_open /\ open \cap stuck = {}
    /\ ~shared => is_open = open \cup stuck

(* The flag of a wrapper is that of its socket, but for the wrappers whose *)
(* channel could not be stopped: the wiring keeps CANCoreStop and the      *)
(* close from failing for another reason than a pin, as long as the        *)
(* platform is not reset under somebody's channel.                         *)
THEOREM WrapperTheorem == Spec => []WrapperFollowsSocket
<1> DEFINE Open == {s \in Wrapped : socket[s].owns}
           Stuck == Wrapped \cap unstopped
<1>0. WrapperFollowsSocket <=> Follows(Open, Stuck)
  BY DEF WrapperFollowsSocket, Follows
<1>1. Init => WrapperFollowsSocket
  BY SocketAssumption DEF Init, Unbound, WrapperFollowsSocket
<1>2. ASSUME IInv, Wired, WrapperFollowsSocket, [Next]_vars
      PROVE  WrapperFollowsSocket'
  <2>1. TypeOK /\ Sound(hw) /\ core \in CoreType /\ Wrapped \subseteq Sockets
    BY <1>2, InvIsSound, SocketAssumption DEF TypeOK, CoreType
  <2>2. ASSUME is_open' = is_open, ~shared' => ~shared, unstopped' = unstopped,
               \A s \in Sockets : socket'[s].owns <=> socket[s].owns
        PROVE  WrapperFollowsSocket'
    <3>1. Open' = Open /\ Stuck' = Stuck
      BY <2>1, <2>2
    <3>2. QED
      BY <1>0, <1>2, <2>2, <3>1 DEF Follows, WrapperFollowsSocket
  <2>3. CASE UNCHANGED vars
    BY <2>2, <2>3 DEF vars
  <2>4. CASE PlatformInit \/ BoardInitFails \/ PlatformDeinit
    BY <2>2, <2>4 DEF PlatformInit, BoardInitFails, PlatformDeinit, Sharing
  <2>5. ASSUME NEW c \in Cores, \/ CoreStart(c) \/ CoreStop(c)
                                \/ \E pin \in BOOLEAN : PlatformClose(c, pin)
                                \/ \E p \in Ports, fault \in OpenFaults : PlatformOpen(c, p, fault)
        PROVE  WrapperFollowsSocket'
    BY <2>2, <2>5 DEF CoreStart, CoreStop, PlatformClose, PlatformOpen
  <2>6. ASSUME NEW s \in Sockets, \/ SocketUnbind(s)
                                  \/ \E c \in AppCores : SocketBindCore(s, c)
        PROVE  WrapperFollowsSocket'
    <3>1. \A t \in Sockets : socket'[t].owns <=> socket[t].owns
      BY <2>1, <2>6 DEF SocketUnbind, SocketBindCore, Unbound, TypeOK
    <3>2. QED
      BY <2>2, <2>6, <3>1 DEF SocketUnbind, SocketBindCore
  <2>7. ASSUME NEW s \in Sockets, NEW p \in Ports, NEW fault \in OpenFaults,
               SocketOpen(s, p, fault)
        PROVE  WrapperFollowsSocket'
    <3>1. (~shared' => ~shared) /\ unstopped' = unstopped /\ s \notin is_open
      BY <2>7 DEF SocketOpen, Sharing, SocketMayOpen
    <3>2. CASE is_open' = is_open /\ socket' = socket
      BY <2>2, <3>1, <3>2
    <3>3. CASE /\ is_open' = is_open \cup ({s} \cap Wrapped)
               /\ socket' = [socket EXCEPT ![s] = [core |-> s, owns |-> TRUE]]
      <4>1. \A t \in Sockets : socket'[t].owns <=> (t = s \/ socket[t].owns)
        BY <2>1, <3>3 DEF TypeOK
      <4>2. Open' = Open \cup ({s} \cap Wrapped) /\ Stuck' = Stuck
        BY <2>1, <3>1, <4>1
      <4> HIDE DEF Open, Stuck
      <4>3. s \notin Stuck
        BY <1>0, <1>2, <3>1 DEF Follows
      <4>4. Follows(Open, Stuck)'
        BY <1>0, <1>2, <3>1, <3>3, <4>2, <4>3 DEF Follows
      <4>5. QED
        BY <4>4 DEF Follows, WrapperFollowsSocket, Open, Stuck
    <3>4. QED
      BY <2>7, <3>2, <3>3 DEF SocketOpen, OpenFails, StartFails, OpenSucceeds
  <2>8. ASSUME NEW s \in Sockets, NEW pin \in BOOLEAN, NEW offPin \in BOOLEAN,
               SocketClose(s, pin, offPin)
        PROVE  WrapperFollowsSocket'
    <3>1. /\ s \in Cores /\ socket[s].owns /\ (~shared' => ~shared)
          /\ socket' = [socket EXCEPT ![s] = Unbound]
      BY <2>8 DEF SocketClose, Sharing, Cores
    <3>2. \A t \in Sockets : socket'[t].owns <=> (t # s /\ socket[t].owns)
      BY <2>1, <3>1 DEF TypeOK, Unbound
    <3>3. Open' = Open \ {s}
      BY <2>1, <3>2
    <3>4. s \in Wrapped <=> s \in Open
      BY <3>1
    <3>5. ASSUME ~shared PROVE StopFails(s, pin) \/ CloseOk(s, pin)
      <4>1. Wire(hw, core) /\ core[s].state # "CLOSED"
        BY <1>2, <3>1, <3>5 DEF Wired
      <4>2. IsOpen(hw, core[s].slot)
        BY <2>1, <3>1, <4>1, CloseIsWired
      <4>3. s \in Owners(hw)
        BY <2>1, <3>1, <4>1, AllClosed DEF Sound
      <4>4. QED
        BY <4>1, <4>2, <4>3 DEF CloseOk, Closable
    <3>6. CASE StopFails(s, pin)
      <4>1. is_open' = is_open /\ Stuck' = Stuck \cup ({s} \cap Wrapped)
        BY <2>8, <3>6 DEF SocketClose, CloseOk
      <4> HIDE DEF Open, Stuck
      <4>2. Follows(Open, Stuck)'
        BY <1>0, <1>2, <3>1, <3>3, <3>4, <4>1 DEF Follows
      <4>3. QED
        BY <4>2 DEF Follows, WrapperFollowsSocket, Open, Stuck
    <3>7. CASE ~StopFails(s, pin)
      <4>1. /\ Stuck' = Stuck
            /\ is_open' = IF CloseOk(s, pin) THEN is_open \ {s} ELSE is_open
        BY <2>8, <3>7 DEF SocketClose
      <4>2. s \in Wrapped \/ s \notin is_open
        BY <2>1 DEF TypeOK
      <4> HIDE DEF Open, Stuck
      <4>3. Follows(Open, Stuck)'
        BY <1>0, <1>2, <3>1, <3>3, <3>4, <3>5, <3>7, <4>1, <4>2 DEF Follows
      <4>4. QED
        BY <4>3 DEF Follows, WrapperFollowsSocket, Open, Stuck
    <3>8. QED
      BY <3>6, <3>7
  <2>9. QED
    BY <1>2, <2>3, <2>4, <2>5, <2>6, <2>7, <2>8 DEF Next, Cores
<1>3. QED
  BY InitInv, NextInv, InitWired, NextWired, <1>1, <1>2, PTL DEF Spec

-----------------------------------------------------------------------------
(* Exclusive ports.  The wiring above is lost when one user resets the     *)
(* platform under another; what survives is that an open core's node stays *)
(* reserved, that no two cores are on one port, and that a slot with an    *)
(* owner is the one the owner was opened on.                               *)

Distinct(k) ==
    \A c, d \in Cores : k[c].port \in Ports /\ k[c].port = k[d].port => c = d

\* h and k stand for hw and core in the middle of a call.
Held(h, k) ==
    /\ \A c \in Cores : k[c].port \in Ports => k[c].port \in h.node_in_use
    /\ Distinct(k)
    /\ \A i \in Slots : h.owner[i] # NoCore /\ k[h.owner[i]].state # "CLOSED" =>
           /\ k[h.owner[i]].slot = i
           /\ h.channel[i].port = k[h.owner[i]].port

-----------------------------------------------------------------------------
(* The holders of the ports.                                               *)

\* HolderOf for a map k of cores.
Holder(k, p) ==
    IF \E c \in Cores : k[c].port = p THEN CHOOSE c \in Cores : k[c].port = p
    ELSE NoCore

LEMMA HolderIs ==
    ASSUME NEW k, Distinct(k), NEW p \in Ports
    PROVE  /\ \A c \in Cores : Holder(k, p) = c <=> k[c].port = p
           /\ (\A c \in Cores : k[c].port # p) => Holder(k, p) = NoCore
           /\ Holder(k, p) \in Cores \cup {NoCore}
<1>1. CASE \E c \in Cores : k[c].port = p
  <2>1. Holder(k, p) \in Cores /\ k[Holder(k, p)].port = p
    BY <1>1 DEF Holder
  <2>2. QED
    BY <1>1, <2>1 DEF Distinct
<1>2. CASE ~ \E c \in Cores : k[c].port = p
  BY <1>2, SocketAssumption DEF Holder
<1>3. QED
  BY <1>1, <1>2

\* One core changes its port at most: it leaves it or comes to one that is free.
PortStep(k, l) ==
    \/ \A d \in Cores : l[d].port = k[d].port
    \/ \E c \in Cores :
           /\ \A d \in Cores \ {c} : l[d].port = k[d].port
           /\ \/ l[c].port \notin Ports
              \/ \A d \in Cores : k[d].port # l[c].port

LEMMA PortStepIsStep ==
    ASSUME Distinct(core), Distinct(core'), PortStep(core, core')
    PROVE  [Exclusive!Next]_[p \in Ports |-> HolderOf(p)]
<1> DEFINE holder == [p \in Ports |-> HolderOf(p)]
<1>1. \A p \in Ports : HolderOf(p) = Holder(core, p) /\ HolderOf(p)' = Holder(core', p)
  BY DEF HolderOf, Holder
<1>2. \A p \in Ports : /\ \A c \in Cores : Holder(core, p) = c <=> core[c].port = p
                       /\ (\A c \in Cores : core[c].port # p) => Holder(core, p) = NoCore
                       /\ Holder(core, p) \in Cores \cup {NoCore}
  BY HolderIs
<1>3. \A p \in Ports : /\ \A c \in Cores : Holder(core', p) = c <=> core'[c].port = p
                       /\ (\A c \in Cores : core'[c].port # p) => Holder(core', p) = NoCore
                       /\ Holder(core', p) \in Cores \cup {NoCore}
  BY HolderIs
<1>4. NoCore \notin Cores
  BY SocketAssumption
<1>5. /\ holder = [p \in Ports |-> Holder(core, p)]
      /\ holder' = [p \in Ports |-> Holder(core', p)]
  BY <1>1
<1>6. CASE \A d \in Cores : core'[d].port = core[d].port
  <2>1. \A p \in Ports : Holder(core', p) = Holder(core, p)
    BY <1>2, <1>3, <1>6
  <2>2. holder' = holder
    BY <1>5, <2>1
  <2>3. QED
    BY <2>2
<1>7. ASSUME NEW c \in Cores, \A d \in Cores \ {c} : core'[d].port = core[d].port,
             core'[c].port \notin Ports
      PROVE  Exclusive!Next
  <2>1. \A p \in Ports :
            Holder(core', p) = IF Holder(core, p) = c THEN NoCore ELSE Holder(core, p)
    BY <1>2, <1>3, <1>4, <1>7
  <2>2. Exclusive!GiveBack(c)
    BY <1>5, <2>1 DEF Exclusive!GiveBack
  <2>3. QED
    BY <2>2 DEF Exclusive!Next
<1>8. ASSUME NEW c \in Cores, \A d \in Cores \ {c} : core'[d].port = core[d].port,
             core'[c].port \in Ports, \A d \in Cores : core[d].port # core'[c].port
      PROVE  Exclusive!Next
  <2> DEFINE p == core'[c].port
  <2>1. holder[p] = NoCore
    BY <1>2, <1>5, <1>8
  <2>2. \A q \in Ports :
            Holder(core', q) = IF q = p THEN c
                               ELSE IF Holder(core, q) = c THEN NoCore ELSE Holder(core, q)
    <3>1. SUFFICES ASSUME NEW q \in Ports
                   PROVE  Holder(core', q) = IF q = p THEN c
                               ELSE IF Holder(core, q) = c THEN NoCore ELSE Holder(core, q)
      OBVIOUS
    <3>2. CASE q = p
      BY <1>3, <1>8, <3>2
    <3>3. CASE q # p
      BY <1>2, <1>3, <1>4, <1>8, <3>3
    <3>4. QED
      BY <3>2, <3>3
  <2>3. Exclusive!Take(c, p)
    BY <1>5, <2>1, <2>2 DEF Exclusive!Take
  <2>4. QED
    BY <1>8, <2>3 DEF Exclusive!Next
<1>9. QED
  BY <1>6, <1>7, <1>8 DEF PortStep

-----------------------------------------------------------------------------
(* What each operation of the hardware leaves of the claims of the cores.  *)

LEMMA ResetKeepsHeld ==
    ASSUME NEW h, HwType(h), NEW k, Held(h, k)
    PROVE  /\ Held(InitPlatform(h), k)
           /\ Held(DeinitPlatform(h), k)
           /\ InitPlatform(h).node_in_use = h.node_in_use
           /\ Owners(InitPlatform(h)) = {}
<1>1. ASSUME NEW g, g \in {InitPlatform(h), DeinitPlatform(h)}
      PROVE  g.node_in_use = h.node_in_use /\ g.owner = [i \in Slots |-> NoCore]
  BY <1>1 DEF HwType, InitPlatform, DeinitPlatform, ClearSlots, BoardInit
<1>2. ASSUME NEW g, g.node_in_use = h.node_in_use, g.owner = [i \in Slots |-> NoCore]
      PROVE  Held(g, k) /\ Owners(g) = {}
  BY <1>2 DEF Held, Owners
<1>3. QED
  BY <1>1, <1>2

\* A core that is closed gives up its claim.
LEMMA ForgettingKeepsHeld ==
    ASSUME NEW h, HwType(h), NEW k \in CoreType, Held(h, k), NEW c \in Cores
    PROVE  Held(h, [k EXCEPT ![c] = Closed])
<1> DEFINE l == [k EXCEPT ![c] = Closed]
<1>1. \A d \in Cores : l[d] = IF d = c THEN Closed ELSE k[d]
  BY DEF CoreType
<1>2. Closed.port \notin Ports /\ Closed.state = "CLOSED"
  BY SocketAssumption DEF Closed
<1>3. \A i \in Slots : h.owner[i] # NoCore => h.owner[i] \in Cores
  BY DEF HwType
<1> HIDE DEF l
<1>4. Distinct(l)
  BY <1>1, <1>2 DEF Held, Distinct
<1>5. Held(h, l)
  BY <1>1, <1>2, <1>3, <1>4 DEF Held
<1>6. QED
  BY <1>5 DEF l

\* Starting and stopping touch no claim.
LEMMA RunningKeepsHeld ==
    ASSUME NEW h, HwType(h), NEW k, Held(h, k), NEW i \in Slots
    PROVE  Held(TC3xxStart(h, i), k) /\ Held(TC3xxStop(h, i), k)
<1>1. ASSUME NEW g, g \in {TC3xxStart(h, i), TC3xxStop(h, i)}
      PROVE  /\ g.node_in_use = h.node_in_use
             /\ g.owner = h.owner
             /\ \A j \in Slots : g.channel[j].port = h.channel[j].port
  <2>1. /\ g.node_in_use = h.node_in_use
        /\ g.owner = h.owner
        /\ \E b \in BOOLEAN : g.channel = [h.channel EXCEPT ![i].started = b]
    BY <1>1 DEF HwType, TC3xxStart, TC3xxStop, SetStandby
  <2>2. ASSUME NEW b \in BOOLEAN, NEW j \in Slots
        PROVE  [h.channel EXCEPT ![i].started = b][j].port = h.channel[j].port
    BY DEF HwType
  <2>3. QED
    BY <2>1, <2>2
<1>2. ASSUME NEW g, g.node_in_use = h.node_in_use, g.owner = h.owner,
             \A j \in Slots : g.channel[j].port = h.channel[j].port
      PROVE  Held(g, k)
  BY <1>2 DEF Held
<1>3. QED
  BY <1>1, <1>2

\* Only the state of cores is changed, and not to or from "CLOSED".
Runs(k, l) ==
    \A d \in Cores : /\ l[d].port = k[d].port
                     /\ l[d].slot = k[d].slot
                     /\ l[d].state = "CLOSED" <=> k[d].state = "CLOSED"

LEMMA StateKeepsHeld ==
    ASSUME NEW h, HwType(h), NEW k, Held(h, k), NEW l, Runs(k, l)
    PROVE  Held(h, l)
<1>1. \A i \in Slots : h.owner[i] # NoCore => h.owner[i] \in Cores
  BY DEF HwType
<1>2. Distinct(l)
  BY DEF Held, Distinct, Runs
<1>3. QED
  BY <1>1, <1>2 DEF Held, Runs

LEMMA StateRuns ==
    ASSUME NEW k \in CoreType, NEW c \in Cores, k[c].state # "CLOSED"
    PROVE  /\ Runs(k, [k EXCEPT ![c].state = "STARTED"])
           /\ Runs(k, [k EXCEPT ![c].state = "OPENED"])
<1>1. ASSUME NEW run \in {"OPENED", "STARTED"}
      PROVE  Runs(k, [k EXCEPT ![c].state = run])
  <2> DEFINE l == [k EXCEPT ![c].state = run]
  <2>1. \A d \in Cores : l[d] = IF d = c THEN [k[c] EXCEPT !.state = run] ELSE k[d]
    BY DEF CoreType
  <2>2. /\ [k[c] EXCEPT !.state = run].port = k[c].port
        /\ [k[c] EXCEPT !.state = run].slot = k[c].slot
        /\ [k[c] EXCEPT !.state = run].state = run
    BY DEF CoreType
  <2> HIDE DEF l
  <2>3. Runs(k, l)
    BY <2>1, <2>2 DEF Runs
  <2>4. QED
    BY <2>3 DEF l
<1>2. QED
  BY <1>1

\* A core closes the channel it was opened on, and its own node with it.
LEMMA ClosingKeepsHeld ==
    ASSUME NEW h, Sound(h), NEW k \in CoreType, Held(h, k), NEW c \in Cores,
           c \in Owners(h), k[c].state # "CLOSED", IsOpen(h, k[c].slot), NEW pin \in BOOLEAN
    PROVE  Held(ReleaseSlot(TC3xxClose(h, k[c].slot, pin), SlotOf(h, c)), [k EXCEPT ![c] = Closed])
<1> DEFINE i == k[c].slot
           l == [k EXCEPT ![c] = Closed]
           g == ReleaseSlot(TC3xxClose(h, i, pin), SlotOf(h, c))
<1>1. c # NoCore
  BY SocketAssumption
<1>2. \E j \in Slots : h.owner[j] = c
  BY DEF Owners
<1>3. SlotOf(h, c) \in Slots /\ h.owner[SlotOf(h, c)] = c
  BY <1>2 DEF SlotOf
<1>4. SlotOf(h, c) = i /\ i \in Slots /\ h.channel[i].port = k[c].port
  BY <1>1, <1>3 DEF Held
<1>5. k[c].port \in Ports
  BY <1>4 DEF IsOpen, CoreType
<1>6. /\ g.owner = [h.owner EXCEPT ![i] = NoCore]
      /\ g.channel = [[h.channel EXCEPT ![i] = Idle] EXCEPT ![i] = Idle]
      /\ g.node_in_use = h.node_in_use \ {k[c].port}
  BY <1>4, CloseFields
<1>7. \A j \in Slots : /\ g.owner[j] = IF j = i THEN NoCore ELSE h.owner[j]
                       /\ j # i => g.channel[j] = h.channel[j]
  BY <1>4, <1>6 DEF Sound, HwType
<1>8. Held(h, l) /\ \A d \in Cores : l[d] = IF d = c THEN Closed ELSE k[d]
  BY ForgettingKeepsHeld DEF Sound, CoreType
<1>9. \A d \in Cores : l[d].port \in Ports => l[d].port # k[c].port
  BY <1>5, <1>8, SocketAssumption DEF Held, Distinct, Closed
<1> HIDE DEF g, l
<1>10. \A d \in Cores : l[d].port \in Ports => l[d].port \in g.node_in_use
  BY <1>6, <1>8, <1>9 DEF Held
<1>11. Held(g, l)
  BY <1>7, <1>8, <1>10 DEF Held
<1>12. QED
  BY <1>11 DEF g, l

\* Opening takes a free node and the slot, or nothing.
LEMMA OpenFields ==
    ASSUME NEW h, HwType(h), NEW i \in Slots, NEW c \in Cores, NEW p \in Ports,
           NEW fault \in OpenFaults, NEW g, g = OpenPort(h, i, c, p, fault)
    PROVE  \/ /\ g.owner = [h.owner EXCEPT ![i] = c]
              /\ \A j \in Slots : j # i => g.channel[j] = h.channel[j]
              /\ g.channel[i].port = p
              /\ g.node_in_use = h.node_in_use \cup {p}
              /\ p \notin h.node_in_use
           \/ /\ g.owner = [h.owner EXCEPT ![i] = NoCore]
              /\ \A j \in Slots : j # i => g.channel[j] = h.channel[j]
              /\ g.node_in_use = h.node_in_use
<1> DEFINE h0 == [h EXCEPT !.owner[i] = c, !.channel[i] = Idle]
           h1 == TC3xxOpen(h0, i, p, fault)
<1>1. /\ HwType(h0)
      /\ h0.owner = [h.owner EXCEPT ![i] = c]
      /\ h0.channel = [h.channel EXCEPT ![i] = Idle]
      /\ h0.node_in_use = h.node_in_use
  BY DEF HwType, Idle
<1> HIDE DEF h0
<1>2. CASE fault = "NONE" /\ p \notin h.node_in_use
  <2>1. h1 = [AcquireModule(Reserve(h0, p), p) EXCEPT
                  !.channel[i] = [port |-> p, started |-> FALSE]]
    BY <1>1, <1>2 DEF TC3xxOpen, NodeFree
  <2>2. /\ h1.owner = h0.owner
        /\ h1.channel = [h0.channel EXCEPT ![i] = [port |-> p, started |-> FALSE]]
        /\ h1.node_in_use = h0.node_in_use \cup {p}
    BY <1>1, <2>1 DEF HwType, AcquireModule, Reserve
  <2> HIDE DEF h1
  <2>3. \A j \in Slots : h1.channel[j] = IF j = i THEN [port |-> p, started |-> FALSE]
                                         ELSE h.channel[j]
    BY <1>1, <2>2 DEF HwType
  <2>4. IsOpen(h1, i)
    BY <2>3, SocketAssumption DEF IsOpen
  <2>5. g = h1
    BY <2>4 DEF OpenPort, h0, h1
  <2>6. QED
    BY <1>1, <1>2, <2>2, <2>3, <2>5
<1>3. CASE ~(fault = "NONE" /\ p \notin h.node_in_use)
  <2>1. h1 \in {h0, UndoOpen(Reserve(h0, p), p)}
        /\ (p \in h.node_in_use => h1 = h0)
    BY <1>1, <1>3 DEF TC3xxOpen, NodeFree, OpenFaults
  <2>2. /\ h1.owner = h0.owner
        /\ h1.channel = h0.channel
        /\ h1.node_in_use = h0.node_in_use
        /\ HwType(h1)
    <3>1. CASE h1 = h0
      BY <1>1, <3>1
    <3>2. CASE h1 # h0
      <4>1. h1 = [h0 EXCEPT !.node_in_use = (@ \cup {p}) \ {p}] /\ p \notin h0.node_in_use
        BY <1>1, <2>1, <3>2 DEF UndoOpen, Reserve, ReleaseNode, HwType
      <4>2. (h0.node_in_use \cup {p}) \ {p} = h0.node_in_use
        BY <4>1
      <4>3. QED
        BY <1>1, <4>1, <4>2 DEF HwType
    <3>3. QED
      BY <3>1, <3>2
  <2> HIDE DEF h1
  <2>3. ~IsOpen(h1, i)
    BY <1>1, <2>2 DEF IsOpen, Idle, HwType
  <2>4. g = ReleaseSlot(h1, i)
    BY <2>3 DEF OpenPort, h0, h1
  <2>5. /\ g.owner = [h1.owner EXCEPT ![i] = NoCore]
        /\ g.channel = [h1.channel EXCEPT ![i] = Idle]
        /\ g.node_in_use = h1.node_in_use
    BY <2>2, <2>4 DEF ReleaseSlot, HwType
  <2>6. \A j \in Slots : j # i => g.channel[j] = h.channel[j]
    BY <1>1, <2>2, <2>5 DEF HwType
  <2>7. g.owner = [h.owner EXCEPT ![i] = NoCore]
    BY <1>1, <2>2, <2>5 DEF HwType
  <2>8. QED
    BY <1>1, <2>2, <2>5, <2>6, <2>7
<1>4. QED
  BY <1>2, <1>3

\* A core comes to a port that nobody holds, or to none.
LEMMA OpeningKeepsHeld ==
    ASSUME NEW h, HwType(h), NEW k \in CoreType, Held(h, k), NEW i \in Slots,
           NEW c \in Cores, c \notin Owners(h), NEW p \in Ports, NEW fault \in OpenFaults,
           NEW g, g = OpenPort(h, i, c, p, fault)
    PROVE  /\ Held(g, [k EXCEPT ![c] = CoreAfterOpen(g, i, c, p)])
           /\ PortStep(k, [k EXCEPT ![c] = CoreAfterOpen(g, i, c, p)])
           /\ h.node_in_use \subseteq g.node_in_use
           /\ c \in Owners(g) => g.node_in_use \ {p} = h.node_in_use /\ g.channel[i].port = p
<1> DEFINE l == [k EXCEPT ![c] = CoreAfterOpen(g, i, c, p)]
<1>0. c # NoCore /\ \A d \in Cores : l[d] = IF d = c THEN CoreAfterOpen(g, i, c, p) ELSE k[d]
  BY SocketAssumption DEF CoreType
<1>a. \A j \in Slots : h.owner[j] \in Cores \cup {NoCore} /\ h.owner[j] # c
  BY <1>0 DEF HwType, Owners
<1> HIDE DEF l
<1>1. CASE /\ g.owner = [h.owner EXCEPT ![i] = c]
           /\ \A j \in Slots : j # i => g.channel[j] = h.channel[j]
           /\ g.channel[i].port = p
           /\ g.node_in_use = h.node_in_use \cup {p}
           /\ p \notin h.node_in_use
  <2>1. \A j \in Slots : g.owner[j] = IF j = i THEN c ELSE h.owner[j]
    BY <1>1 DEF HwType
  <2>2. c \in Owners(g)
    BY <1>0, <2>1 DEF Owners
  <2>3. l[c] = [state |-> "OPENED", slot |-> i, port |-> p]
    BY <1>0, <2>2 DEF CoreAfterOpen
  <2>4. \A d \in Cores : k[d].port # p
    BY <1>1 DEF Held
  <2>5. Distinct(l)
    BY <1>0, <2>3, <2>4 DEF Held, Distinct
  <2>6. \A d \in Cores : l[d].port \in Ports => l[d].port \in g.node_in_use
    BY <1>0, <1>1, <2>3 DEF Held
  <2>7. ASSUME NEW j \in Slots, g.owner[j] # NoCore, l[g.owner[j]].state # "CLOSED"
        PROVE  l[g.owner[j]].slot = j /\ g.channel[j].port = l[g.owner[j]].port
    <3>1. CASE j = i
      BY <1>1, <2>1, <2>3, <3>1
    <3>2. CASE j # i
      BY <1>0, <1>a, <1>1, <2>1, <2>7, <3>2 DEF Held
    <3>3. QED
      BY <3>1, <3>2
  <2>8. Held(g, l)
    BY <2>5, <2>6, <2>7 DEF Held
  <2>9. PortStep(k, l)
    BY <1>0, <2>3, <2>4 DEF PortStep
  <2>10. QED
    BY <1>1, <2>8, <2>9 DEF l
<1>2. CASE /\ g.owner = [h.owner EXCEPT ![i] = NoCore]
           /\ \A j \in Slots : j # i => g.channel[j] = h.channel[j]
           /\ g.node_in_use = h.node_in_use
  <2>1. \A j \in Slots : g.owner[j] = IF j = i THEN NoCore ELSE h.owner[j]
    BY <1>2 DEF HwType
  <2>2. c \notin Owners(g)
    BY <1>0, <1>a, <2>1 DEF Owners
  <2>3. l = [k EXCEPT ![c] = Closed]
    BY <2>2 DEF l, CoreAfterOpen
  <2>4. Held(h, l)
    BY <2>3, ForgettingKeepsHeld
  <2>5. Held(g, l)
    BY <1>2, <2>1, <2>4 DEF Held
  <2>6. l[c].port \notin Ports
    BY <1>0, <2>2, SocketAssumption DEF CoreAfterOpen, Closed
  <2>7. PortStep(k, l)
    BY <1>0, <2>6 DEF PortStep
  <2>8. QED
    BY <1>2, <2>2, <2>5, <2>7 DEF l
<1>3. QED
  BY <1>1, <1>2, OpenFields

-----------------------------------------------------------------------------
(* Every call is a step of CanPorts, or changes no holder.                 *)

LEMMA InitHeld == Init => Held(hw, core)
BY SocketAssumption DEF Init, Held, Distinct, Closed

\* What a core that is closed, whoever closes it, does to the holders.
LEMMA ForgettingIsStep ==
    ASSUME NEW k \in CoreType, NEW c \in Cores
    PROVE  PortStep(k, [k EXCEPT ![c] = Closed])
<1> DEFINE l == [k EXCEPT ![c] = Closed]
<1>1. l[c].port \notin Ports /\ \A d \in Cores \ {c} : l[d] = k[d]
  BY SocketAssumption DEF CoreType, Closed
<1> HIDE DEF l
<1>2. PortStep(k, l)
  BY <1>1 DEF PortStep
<1>3. QED
  BY <1>2 DEF l

LEMMA NextHeld ==
    ASSUME IInv, Held(hw, core), [Next]_vars
    PROVE  Held(hw', core') /\ PortStep(core, core')
<1>0. TypeOK /\ Sound(hw) /\ HwType(hw) /\ core \in CoreType
  BY InvIsSound DEF TypeOK, CoreType, Sound
<1>a. ASSUME core' = core PROVE PortStep(core, core')
  BY <1>a DEF PortStep
<1>1. CASE UNCHANGED vars
  BY <1>1, <1>a DEF vars
<1>2. CASE PlatformInit \/ PlatformDeinit
  BY <1>0, <1>2, <1>a, ResetKeepsHeld DEF PlatformInit, PlatformDeinit
<1>3. CASE BoardInitFails
  <2>1. hw'.node_in_use = hw.node_in_use /\ hw'.owner = hw.owner /\ hw'.channel = hw.channel
    BY <1>0, <1>3 DEF BoardInitFails, HwType
  <2>2. core' = core
    BY <1>3 DEF BoardInitFails
  <2>3. QED
    BY <1>a, <2>1, <2>2 DEF Held
<1>4. ASSUME NEW c \in AppCores, NEW p \in Ports, NEW fault \in OpenFaults,
             PlatformOpen(c, p, fault)
      PROVE  Held(hw', core') /\ PortStep(core, core')
  <2>1. PICK i \in Slots : /\ hw' = OpenPort(hw, i, c, p, fault)
                           /\ core' = [core EXCEPT ![c] = CoreAfterOpen(hw', i, c, p)]
    BY <1>4 DEF PlatformOpen
  <2>2. c \in Cores /\ c \notin Owners(hw)
    BY <1>4 DEF PlatformOpen, MayOpen, Cores
  <2>3. QED
    BY <1>0, <2>1, <2>2, OpeningKeepsHeld
<1>5. ASSUME NEW c \in AppCores, NEW pin \in BOOLEAN, PlatformClose(c, pin)
      PROVE  Held(hw', core') /\ PortStep(core, core')
  <2>1. c \in Cores /\ c \in Owners(hw) /\ core[c].state # "CLOSED" /\ IsOpen(hw, core[c].slot)
    BY <1>5 DEF PlatformClose, Cores, Closable
  <2>2. /\ hw' = ReleaseSlot(TC3xxClose(hw, core[c].slot, pin), SlotOf(hw, c))
        /\ core' = [core EXCEPT ![c] = Closed]
    BY <1>5 DEF PlatformClose, ClosePort
  <2>3. QED
    BY <1>0, <2>1, <2>2, ClosingKeepsHeld, ForgettingIsStep
<1>6. ASSUME NEW c \in Cores, CoreStart(c) \/ CoreStop(c)
      PROVE  Held(hw', core') /\ PortStep(core, core')
  <2>1. core[c].state # "CLOSED" /\ core[c].slot \in Slots
    BY <1>6 DEF CoreStart, CoreStop, IsOpen
  <2>2. Runs(core, core')
    BY <1>0, <1>6, <2>1, StateRuns DEF CoreStart, CoreStop
  <2>3. Held(hw', core) /\ HwType(hw')
    <3>1. Held(hw', core)
      BY <1>0, <1>6, <2>1, RunningKeepsHeld DEF CoreStart, CoreStop
    <3>2. HwType(hw')
      BY NextInv, InvIsSound DEF TypeOK, IInv, HwType
    <3>3. QED
      BY <3>1, <3>2
  <2>4. Held(hw', core')
    BY <2>2, <2>3, StateKeepsHeld
  <2>5. QED
    BY <2>2, <2>4 DEF PortStep, Runs
<1>7. ASSUME NEW s \in Sockets, NEW c \in AppCores, SocketBindCore(s, c)
      PROVE  Held(hw', core') /\ PortStep(core, core')
  BY <1>7, <1>a DEF SocketBindCore
<1>8. ASSUME NEW s \in Sockets, SocketUnbind(s)
      PROVE  Held(hw', core') /\ PortStep(core, core')
  BY <1>0, <1>8, ForgettingKeepsHeld, ForgettingIsStep DEF SocketUnbind, Cores
<1>9. ASSUME NEW s \in Sockets, NEW p \in Ports, NEW fault \in OpenFaults,
             SocketOpen(s, p, fault)
      PROVE  Held(hw', core') /\ PortStep(core, core')
  <2> DEFINE h0 == InitPlatform(hw)
             opened(i) == OpenPort(h0, i, s, p, fault)
  <2>1. PICK i \in Slots : \/ OpenFails(s, opened(i))
                           \/ \E pin \in BOOLEAN : StartFails(s, opened(i), i, pin)
                           \/ OpenSucceeds(s, opened(i), i, p)
    BY <1>9 DEF SocketOpen
  <2> DEFINE h == opened(i)
             k == [core EXCEPT ![s] = CoreAfterOpen(h, i, s, p)]
  <2>2. s \in Cores
    BY DEF Cores
  <2>3. Held(h0, core) /\ Sound(h0) /\ HwType(h0) /\ Owners(h0) = {} /\ h0.node_in_use = hw.node_in_use
    BY <1>0, ResetKeepsHeld, ResetIsSound DEF Sound
  <2>4. Sound(h) /\ HwType(h)
    BY <2>2, <2>3, OpenPortIsSound DEF Sound
  <2>5. s \notin Owners(h0) /\ h = OpenPort(h0, i, s, p, fault)
    BY <2>3
  <2> HIDE DEF h0, h
  <2>6. /\ Held(h, k)
        /\ PortStep(core, k)
        /\ h0.node_in_use \subseteq h.node_in_use
        /\ s \in Owners(h) => h.node_in_use \ {p} = h0.node_in_use /\ h.channel[i].port = p
    BY <1>0, <2>2, <2>3, <2>5, OpeningKeepsHeld
  <2>7. ASSUME NEW g, HwType(g), hw.node_in_use \subseteq g.node_in_use,
               hw' = DeinitPlatform(g), core' = core
        PROVE  Held(hw', core') /\ PortStep(core, core')
    <3>1. hw'.node_in_use = g.node_in_use /\ hw'.owner = [j \in Slots |-> NoCore]
      BY <2>7 DEF DeinitPlatform, ClearSlots, HwType
    <3>2. QED
      BY <1>a, <2>7, <3>1 DEF Held
  <2>8. CASE OpenFails(s, h)
    BY <2>3, <2>4, <2>6, <2>7, <2>8 DEF OpenFails
  <2>9. ASSUME NEW pin \in BOOLEAN, StartFails(s, h, i, pin)
        PROVE  Held(hw', core') /\ PortStep(core, core')
    <3> DEFINE g == ReleaseSlot(TC3xxClose(h, i, pin), i)
    <3>1. s \in Owners(h) /\ hw' = DeinitPlatform(g) /\ core' = core
      BY <2>9 DEF StartFails
    <3>2. IsOpen(h, i)
      BY <2>6, <3>1, SocketAssumption DEF IsOpen
    <3>3. g.node_in_use = hw.node_in_use
      <4>1. g.node_in_use = h.node_in_use \ {h.channel[i].port}
        BY <2>4, <3>2, CloseFreesNode
      <4>2. QED
        BY <2>3, <2>6, <3>1, <4>1
    <3>4. HwType(g)
      BY <2>4, <3>2, CloseIsSound, ReleaseSlotIsSound DEF Sound
    <3> HIDE DEF g
    <3>5. QED
      BY <2>7, <3>1, <3>3, <3>4
  <2>10. CASE OpenSucceeds(s, h, i, p)
    <3>1. /\ s \in Owners(h) /\ hw' = TC3xxStart(h, i)
          /\ core' = [core EXCEPT ![s] = [state |-> "STARTED", slot |-> i, port |-> p]]
      BY <2>10 DEF OpenSucceeds
    <3>2. k = [core EXCEPT ![s] = [state |-> "OPENED", slot |-> i, port |-> p]]
      BY <3>1 DEF CoreAfterOpen
    <3>3. k \in CoreType /\ k[s] = [state |-> "OPENED", slot |-> i, port |-> p]
      BY <1>0, <2>2, <3>2 DEF CoreType
    <3>4. Runs(k, core')
      <4>1. \A d \in Cores : core'[d] = IF d = s THEN [state |-> "STARTED", slot |-> i, port |-> p]
                                        ELSE k[d]
        BY <1>0, <3>1, <3>2 DEF CoreType
      <4> HIDE DEF k
      <4>2. QED
        BY <3>3, <4>1 DEF Runs
    <3> HIDE DEF k
    <3>5. Held(hw', k)
      BY <2>4, <2>6, <3>1, RunningKeepsHeld
    <3>6. HwType(hw')
      BY NextInv, InvIsSound DEF TypeOK, IInv, HwType
    <3>7. Held(hw', core')
      BY <3>4, <3>5, <3>6, StateKeepsHeld
    <3>8. QED
      BY <2>6, <3>4, <3>7 DEF PortStep, Runs
  <2>11. QED
    BY <2>1, <2>8, <2>9, <2>10 DEF h
<1>10. ASSUME NEW s \in Sockets, NEW pin \in BOOLEAN, NEW offPin \in BOOLEAN,
              SocketClose(s, pin, offPin)
       PROVE  Held(hw', core') /\ PortStep(core, core')
  <2> DEFINE h == AfterStop(s, pin)
             g == IF Closable(h, s) THEN ClosePort(h, s, offPin) ELSE h
  <2>1. s \in Cores /\ hw' = DeinitPlatform(g) /\ core' = [core EXCEPT ![s] = Closed]
    BY <1>10 DEF SocketClose, Cores
  <2>2. Held(h, core) /\ Sound(h)
    <3>1. CASE h = hw
      BY <1>0, <3>1
    <3>2. CASE h # hw
      <4>1. h = TC3xxStop(hw, core[s].slot) /\ IsOpen(hw, core[s].slot)
        BY <3>2 DEF AfterStop, StopFails
      <4>2. core[s].slot \in Slots
        BY <4>1 DEF IsOpen
      <4>3. QED
        BY <1>0, <4>1, <4>2, RunningKeepsHeld, StartStopIsSound
    <3>3. QED
      BY <3>1, <3>2
  <2> HIDE DEF h
  <2>3. Held(g, core') /\ HwType(g)
    <3>1. CASE Closable(h, s)
      <4>1. g = ReleaseSlot(TC3xxClose(h, core[s].slot, offPin), SlotOf(h, s))
        BY <3>1 DEF ClosePort
      <4>2. s \in Owners(h) /\ core[s].state # "CLOSED" /\ IsOpen(h, core[s].slot)
        BY <3>1 DEF Closable
      <4>3. Held(ReleaseSlot(TC3xxClose(h, core[s].slot, offPin), SlotOf(h, s)),
                 [core EXCEPT ![s] = Closed])
        BY <1>0, <2>1, <2>2, <4>2, ClosingKeepsHeld
      <4>4. HwType(g)
        BY <2>1, <2>2, <3>1, ClosePortIsSound DEF Sound
      <4> HIDE DEF g
      <4>5. QED
        BY <2>1, <4>1, <4>3, <4>4
    <3>2. CASE ~Closable(h, s)
      BY <1>0, <2>1, <2>2, <3>2, ForgettingKeepsHeld DEF Sound
    <3>3. QED
      BY <3>1, <3>2
  <2> HIDE DEF g
  <2>4. Held(hw', core')
    BY <2>1, <2>3, ResetKeepsHeld
  <2>5. QED
    BY <1>0, <2>1, <2>4, ForgettingIsStep
<1>11. QED
  BY <1>1, <1>2, <1>3, <1>4, <1>5, <1>6, <1>7, <1>8, <1>9, <1>10 DEF Next

(* Whatever is opened, closed, reset or fails, a port is never held by two *)
(* cores, and a core takes a port only when nobody holds it.               *)
THEOREM PortsTheorem == Spec => ImplementsPorts
<1>1. Init => Exclusive!Init
  BY SocketAssumption DEF Init, Exclusive!Init, HolderOf, Closed
<1>2. ASSUME IInv, Held(hw, core), [Next]_vars
      PROVE  [Exclusive!Next]_[p \in Ports |-> HolderOf(p)]
  BY <1>2, NextHeld, PortStepIsStep DEF Held
<1>3. IInv /\ Held(hw, core) /\ [Next]_vars => Held(hw, core)'
  BY NextHeld
<1>4. QED
  BY InitInv, NextInv, InitHeld, <1>1, <1>2, <1>3, PTL
     DEF Spec, ImplementsPorts, Exclusive!Spec
=============================================================================
