--------------------------- MODULE CanLinkProofs ----------------------------
(***************************************************************************)
(* Types of the CAN link, the round trip of its payloads, and the proof    *)
(* that each direction implements LossyLink, for all commands and views.   *)
(***************************************************************************)
EXTENDS CanLink, Sequences, SequenceTheorems, TLAPS

LEMMA BitIsByte == \A b \in BOOLEAN : Bit(b) \in 0..1 /\ (Bit(b) = 1 <=> b)
  BY DEF Bit

LEMMA Divide ==
  ASSUME NEW k \in Nat \ {0}, NEW q \in Nat, NEW r \in 0..(k - 1)
  PROVE  (k * q + r) \div k = q /\ (k * q + r) % k = r
  OBVIOUS

LEMMA UnpackTypes ==
  ASSUME NEW b \in Byte
  PROVE  UnpackStatus(b) \in StatusSet /\ UnpackCommand(b) \in CommandSet
  <1>1. b % 4 \in Field /\ (b \div 4) % 4 \in Field /\ (b \div 2) % 4 \in Field
                        /\ (b \div 8) % 4 \in Field
    BY DEF Byte, Field
  <1> QED BY <1>1 DEF UnpackStatus, UnpackCommand, StatusSet, CommandSet, IsSet

LEMMA PackCommandType ==
  ASSUME NEW c \in CommandSet
  PROVE  PackCommand(c) \in Byte
  BY BitIsByte DEF PackCommand, CommandSet, Field, Byte

LEMMA PackStatusType ==
  ASSUME NEW s \in StatusSet
  PROVE  PackStatus(s) \in Byte
  BY BitIsByte DEF PackStatus, StatusSet, Field, Byte

(* The door decodes the command that the driver has packed.                *)
THEOREM CommandRoundTrip ==
  ASSUME NEW c \in CommandSet
  PROVE  UnpackCommand(PackCommand(c)) = c
  <1> DEFINE b == PackCommand(c)
             m == Bit(c.manual)  e == Bit(c.emergency)  r == Bit(c.reset)
  <1>1. /\ c.door \in 0..3 /\ c.ramp \in 0..3
        /\ m \in 0..1 /\ e \in 0..1 /\ r \in 0..1
        /\ b = c.door + 4 * c.ramp + 16 * m + 32 * e + 64 * r
    BY BitIsByte DEF CommandSet, Field, PackCommand
  <1>2. b % 4 = c.door /\ (b \div 4) % 4 = c.ramp
    <2>1. b = 4 * (c.ramp + 4 * m + 8 * e + 16 * r) + c.door
      BY ONLY <1>1
    <2>2. b \div 4 = 4 * (m + 2 * e + 4 * r) + c.ramp /\ b % 4 = c.door
      BY ONLY <2>1, <1>1, Divide
    <2> QED BY ONLY <2>2, <1>1, Divide
  <1>3. /\ (b \div 16) % 2 = m
        /\ (b \div 32) % 2 = e
        /\ (b \div 64) % 2 = r
    <2>1. b \div 16 = 2 * (e + 2 * r) + m
      <3>1. b = 16 * (m + 2 * e + 4 * r) + (c.door + 4 * c.ramp)
        BY ONLY <1>1
      <3> QED BY ONLY <3>1, <1>1, Divide
    <2>2. b \div 32 = 2 * r + e
      <3>1. b = 32 * (e + 2 * r) + (c.door + 4 * c.ramp + 16 * m)
        BY ONLY <1>1
      <3> QED BY ONLY <3>1, <1>1, Divide
    <2>3. b \div 64 = r
      <3>1. b = 64 * r + (c.door + 4 * c.ramp + 16 * m + 32 * e)
        BY ONLY <1>1
      <3> QED BY ONLY <3>1, <1>1, Divide
    <2> QED BY ONLY <2>1, <2>2, <2>3, <1>1, Divide
  <1>4. /\ IsSet(b, 16) = c.manual
        /\ IsSet(b, 32) = c.emergency
        /\ IsSet(b, 64) = c.reset
    <2>1. c.manual \in BOOLEAN /\ c.emergency \in BOOLEAN /\ c.reset \in BOOLEAN
      BY DEF CommandSet
    <2> HIDE DEF b
    <2> QED BY <1>3, <2>1, BitIsByte DEF IsSet
  <1>5. c = [door |-> c.door, ramp |-> c.ramp, manual |-> c.manual,
             emergency |-> c.emergency, reset |-> c.reset]
    BY DEF CommandSet
  <1> QED BY <1>2, <1>4, <1>5 DEF UnpackCommand

(* The driver decodes the status that the door has packed.                 *)
THEOREM StatusRoundTrip ==
  ASSUME NEW s \in StatusSet
  PROVE  UnpackStatus(PackStatus(s)) = s
  <1> DEFINE b == PackStatus(s)
             p == Bit(s.pinch)  f == Bit(s.fault)  t == Bit(s.toggle)
  <1>1. /\ s.door \in 0..3 /\ s.ramp \in 0..3
        /\ p \in 0..1 /\ f \in 0..1 /\ t \in 0..1
        /\ b = p + 2 * s.door + 8 * s.ramp + 32 * f + 64 * t
    BY BitIsByte DEF StatusSet, Field, PackStatus
  <1>2. (b \div 2) % 4 = s.door /\ (b \div 8) % 4 = s.ramp
    <2>1. b \div 2 = 4 * (s.ramp + 4 * f + 8 * t) + s.door
      <3>1. b = 2 * (s.door + 4 * s.ramp + 16 * f + 32 * t) + p
        BY ONLY <1>1
      <3> QED BY ONLY <3>1, <1>1, Divide
    <2>2. b \div 8 = 4 * (f + 2 * t) + s.ramp
      <3>1. b = 8 * (s.ramp + 4 * f + 8 * t) + (p + 2 * s.door)
        BY ONLY <1>1
      <3> QED BY ONLY <3>1, <1>1, Divide
    <2> QED BY ONLY <2>1, <2>2, <1>1, Divide
  <1>3. /\ (b \div 1) % 2 = p
        /\ (b \div 32) % 2 = f
        /\ (b \div 64) % 2 = t
    <2>1. b \div 1 = 2 * (s.door + 4 * s.ramp + 16 * f + 32 * t) + p
      BY ONLY <1>1
    <2>2. b \div 32 = 2 * t + f
      <3>1. b = 32 * (f + 2 * t) + (p + 2 * s.door + 8 * s.ramp)
        BY ONLY <1>1
      <3> QED BY ONLY <3>1, <1>1, Divide
    <2>3. b \div 64 = t
      <3>1. b = 64 * t + (p + 2 * s.door + 8 * s.ramp + 32 * f)
        BY ONLY <1>1
      <3> QED BY ONLY <3>1, <1>1, Divide
    <2> QED BY ONLY <2>1, <2>2, <2>3, <1>1, Divide
  <1>4. /\ IsSet(b, 1) = s.pinch
        /\ IsSet(b, 32) = s.fault
        /\ IsSet(b, 64) = s.toggle
    <2>1. s.pinch \in BOOLEAN /\ s.fault \in BOOLEAN /\ s.toggle \in BOOLEAN
      BY DEF StatusSet
    <2> HIDE DEF b
    <2> QED BY <1>3, <2>1, BitIsByte DEF IsSet
  <1>5. s = [pinch |-> s.pinch, door |-> s.door, ramp |-> s.ramp,
             fault |-> s.fault, toggle |-> s.toggle]
    BY DEF StatusSet
  <1> QED BY <1>2, <1>4, <1>5 DEF UnpackStatus

-----------------------------------------------------------------------------
LEMMA PublishedType ==
  ASSUME NEW v \in Views, NEW on \in BOOLEAN
  PROVE  Published(v, on) \in StatusSet
  BY LinkAssumption DEF Published, StatusSet, ViewSet

LEMMA UnpackedType ==
  ASSUME NEW b \in Byte
  PROVE  /\ Unpack("DRIVER", b) \in StatusSet
         /\ Unpack("DOOR", b) \in CommandSet
  BY UnpackTypes DEF Unpack

LEMMA SentType ==
  ASSUME tx \in [ECU -> Byte \cup {NoFrame}], NEW n \in ECU, NEW b \in Byte
  PROVE  Sent(n, b) \in [ECU -> Byte \cup {NoFrame}]
  BY DEF Sent

LEMMA InitType == Init => TypeOK
  <1> SUFFICES ASSUME Init PROVE TypeOK
    OBVIOUS
  <1>1. 0 \in Byte
    BY DEF Byte
  <1> QED BY <1>1, UnpackedType DEF Init, TypeOK, ECU, Unheard

LEMMA StepType == TypeOK /\ [Next]_vars => TypeOK'
  <1> SUFFICES ASSUME TypeOK, [Next]_vars PROVE TypeOK'
    OBVIOUS
  <1>1. ASSUME NEW c \in Commands, SendCommand(c) PROVE TypeOK'
    <2>1. PackCommand(c) \in Byte
      BY LinkAssumption, PackCommandType
    <2>2. tx' \in [ECU -> Byte \cup {NoFrame}]
      BY <1>1, <2>1, SentType DEF SendCommand, TypeOK, ECU
    <2> QED BY <1>1, <2>2 DEF SendCommand, TypeOK
  <1>2. CASE PublishStatus
    <2>1. toggle' \in BOOLEAN
      BY <1>2 DEF PublishStatus
    <2>2. PackStatus(Published(view, toggle')) \in Byte
      BY <2>1, PublishedType, PackStatusType DEF TypeOK
    <2>3. tx' \in [ECU -> Byte \cup {NoFrame}]
      BY <1>2, <2>2, SentType DEF PublishStatus, TypeOK, ECU
    <2> QED BY <1>2, <2>1, <2>3 DEF PublishStatus, TypeOK
  <1>3. ASSUME NEW n \in ECU, Poll(n) PROVE TypeOK'
    <2>1. rx[n] \in Byte
      BY <1>3 DEF Poll, TypeOK
    <2>2. Unpack(n, rx[n]) \in StatusSet \cup CommandSet
      BY <2>1, UnpackedType DEF ECU
    <2>3. CASE n = "DRIVER"
      <3>1. Unpack(n, rx[n]) \in StatusSet
        BY <2>1, <2>3, UnpackedType
      <3> QED BY <1>3, <2>2, <2>3, <3>1 DEF Poll, TypeOK, ECU
    <2>4. CASE n = "DOOR"
      <3>1. Unpack(n, rx[n]) \in CommandSet
        BY <2>1, <2>4, UnpackedType
      <3> QED BY <1>3, <2>2, <2>4, <3>1 DEF Poll, TypeOK, ECU
    <2> QED BY <2>3, <2>4 DEF ECU
  <1>4. ASSUME NEW v \in Views, Observe(v) PROVE TypeOK'
    BY <1>4 DEF Observe, TypeOK
  <1>5. ASSUME NEW n \in ECU, Transmit(n) PROVE TypeOK'
    BY <1>5 DEF Transmit, TypeOK, ECU, Peer
  <1>6. ASSUME NEW n \in ECU, TransmitUnheard(n) PROVE TypeOK'
    BY <1>6 DEF TransmitUnheard, TypeOK
  <1>7. ASSUME NEW n \in ECU, BusOff(n) \/ Recover(n) PROVE TypeOK'
    BY <1>7 DEF BusOff, Recover, TypeOK
  <1>8. ASSUME NEW n \in ECU, PowerLoss(n) PROVE TypeOK'
    BY <1>8 DEF PowerLoss, TypeOK
  <1>9. ASSUME NEW n \in ECU, Start(n) PROVE TypeOK'
    <2>1. 0 \in Byte
      BY DEF Byte
    <2>2. power' \in [ECU -> {"OFF", "NOCAN", "ON", "BUSOFF"}]
      BY <1>9 DEF Start, TypeOK
    <2>3. toggle' \in BOOLEAN
      BY <1>9 DEF Start, TypeOK
    <2>4. CASE n = "DRIVER"
      BY <1>9, <2>1, <2>2, <2>3, <2>4, UnpackedType DEF Start, TypeOK, ECU, Unheard
    <2>5. CASE n = "DOOR"
      BY <1>9, <2>1, <2>2, <2>3, <2>5, UnpackedType DEF Start, TypeOK, ECU, Unheard
    <2> QED BY <1>9, <2>4, <2>5 DEF ECU
  <1>10. CASE UNCHANGED vars
    BY <1>10 DEF vars, TypeOK
  <1> QED BY <1>1, <1>2, <1>3, <1>4, <1>5, <1>6, <1>7, <1>8, <1>9, <1>10
          DEF Next, PollStatus, PollCommand, ECU

(* Buffers hold payload bytes and the snapshots legal states.              *)
THEOREM TypeCorrect == Spec => []TypeOK
  BY InitType, StepType, PTL DEF Spec

-----------------------------------------------------------------------------
(* Refinement.  Drop and Line are constant operators, so that what a step  *)
(* does to the frames in flight is a fact about two buffers.               *)

Drop(q, i) == [j \in 1..(Len(q) - 1) |-> IF j < i THEN q[j] ELSE q[j + 1]]

LEMMA DropOne ==
  ASSUME NEW a
  PROVE  Drop(<<a>>, 1) = <<>>
  BY DEF Drop

LEMMA DropTwo ==
  ASSUME NEW a, NEW b
  PROVE  Drop(<<a, b>>, 1) = <<b>> /\ Drop(<<a, b>>, 2) = <<a>>
  BY DEF Drop

LEMMA AppendToOne ==
  ASSUME NEW x, NEW y
  PROVE  Append(<<x>>, y) = <<x, y>>
  <1>1. /\ Append(<<x>>, y) \in Seq({x, y}) /\ Len(Append(<<x>>, y)) = 2
        /\ Append(<<x>>, y)[1] = x /\ Append(<<x>>, y)[2] = y
    <2>1. <<x>> \in Seq({x, y}) /\ y \in {x, y} /\ Len(<<x>>) = 1 /\ <<x>>[1] = x
      OBVIOUS
    <2> DEFINE s == <<x>>
    <2> HIDE DEF s
    <2> QED BY <2>1, AppendProperties DEF s
  <1>2. /\ <<x, y>> \in Seq({x, y}) /\ Len(<<x, y>>) = 2
        /\ <<x, y>>[1] = x /\ <<x, y>>[2] = y
    OBVIOUS
  <1> DEFINE u == Append(<<x>>, y)  t == <<x, y>>
  <1> HIDE DEF u, t
  <1>3. /\ u \in Seq({x, y}) /\ t \in Seq({x, y})
        /\ Len(u) = 2 /\ Len(t) = 2 /\ u[1] = t[1] /\ u[2] = t[2]
    BY <1>1, <1>2 DEF u, t
  <1>4. \A i \in 1..2 : i = 1 \/ i = 2
    OBVIOUS
  <1>5. u = t
    BY <1>3, <1>4, SeqEqual
  <1> QED BY <1>5 DEF u, t

LEMMA LineGrows ==
  ASSUME NEW n, NEW a, NEW b, b # NoFrame
  PROVE  Line(n, a, b) = Append(Line(n, a, NoFrame), Unpack(n, b))
  <1> DEFINE x == Unpack(n, a)  y == Unpack(n, b)
  <1>1. Append(<<>>, y) = <<y>>
    OBVIOUS
  <1> QED BY <1>1, AppendToOne DEF Line

LEMMA LineTaken ==
  ASSUME NEW n, NEW a, NEW b, a # NoFrame
  PROVE  /\ Line(n, a, b) # <<>>
         /\ Line(n, a, b)[1] = Unpack(n, a)
         /\ Line(n, NoFrame, b) = Drop(Line(n, a, b), 1)
         /\ 1 \in 1..Len(Line(n, a, b))
  BY DropOne, DropTwo DEF Line

LEMMA LineLoses ==
  ASSUME NEW n, NEW a, NEW b, b # NoFrame
  PROVE  \E i \in 1..Len(Line(n, a, b)) : Line(n, a, NoFrame) = Drop(Line(n, a, b), i)
  BY DropOne, DropTwo DEF Line

LEMMA LineMoves ==
  ASSUME NEW n, NEW b, b # NoFrame
  PROVE  Line(n, b, NoFrame) = Line(n, NoFrame, b)
  BY DEF Line

-----------------------------------------------------------------------------
(* What a step of the system does to the direction towards the ECU n.      *)

StatusStep == [StatusLink!Next]_<<InFlight("DRIVER"), snapshot["DRIVER"], updated["DRIVER"]>>
CommandStep == [CommandLink!Next]_<<InFlight("DOOR"), snapshot["DOOR"], updated["DOOR"]>>

LEMMA StatusLinkStep == TypeOK /\ [Next]_vars => StatusStep
  <1> SUFFICES ASSUME TypeOK, [Next]_vars PROVE StatusStep
    OBVIOUS
  <1> DEFINE q == InFlight("DRIVER")
             Same == UNCHANGED <<snapshot["DRIVER"], updated["DRIVER"]>>
  <1>a. q = Line("DRIVER", rx["DRIVER"], tx["DOOR"])
        /\ q' = Line("DRIVER", rx'["DRIVER"], tx'["DOOR"])
    BY DEF InFlight, Peer
  <1>b. ASSUME rx'["DRIVER"] = rx["DRIVER"], tx'["DOOR"] = tx["DOOR"], Same
        PROVE  StatusStep
    BY <1>a, <1>b DEF StatusStep
  <1>c. ASSUME \E i \in 1..Len(q) : q' = Drop(q, i), Same
        PROVE  StatusStep
    BY <1>c DEF StatusStep, StatusLink!Next, StatusLink!Lose, StatusLink!Without, Drop
  <1>1. ASSUME NEW c \in Commands, SendCommand(c) PROVE StatusStep
    <2>1. tx'["DOOR"] = tx["DOOR"]
      BY <1>1 DEF SendCommand, Sent
    <2> QED BY <1>1, <1>b, <2>1 DEF SendCommand
  <1>2. CASE PublishStatus
    <2> DEFINE s == Published(view, toggle')
    <2>1. toggle' \in BOOLEAN /\ s \in Statuses /\ s \in StatusSet
      <3>1. toggle' \in BOOLEAN /\ view \in Views
        BY <1>2 DEF PublishStatus, TypeOK
      <3> QED BY <3>1, PublishedType DEF Statuses
    <2>2. PackStatus(s) # NoFrame /\ Unpack("DRIVER", PackStatus(s)) = s
      BY <2>1, PackStatusType, StatusRoundTrip, LinkAssumption DEF Unpack
    <2>3. CASE tx["DOOR"] # NoFrame
      <3>1. tx' = tx
        BY <1>2, <2>3 DEF PublishStatus, Sent
      <3> QED BY <1>2, <1>b, <3>1 DEF PublishStatus
    <2>4. CASE tx["DOOR"] = NoFrame
      <3>1. tx'["DOOR"] = PackStatus(s)
        BY <1>2, <2>4 DEF PublishStatus, Sent, TypeOK, ECU
      <3>2. q' = Append(q, s)
        BY <1>a, <1>2, <2>2, <2>4, <3>1, LineGrows DEF PublishStatus
      <3> HIDE DEF s, q
      <3>3. StatusLink!Send(s)
        BY <1>2, <3>2 DEF StatusLink!Send, PublishStatus, q
      <3> QED BY <2>1, <3>3 DEF StatusStep, StatusLink!Next
    <2> QED BY <2>3, <2>4
  <1>3. CASE PollStatus
    <2>1. /\ rx["DRIVER"] # NoFrame /\ rx'["DRIVER"] = NoFrame /\ tx' = tx
          /\ snapshot'["DRIVER"] = [received |-> TRUE,
                                    value |-> Unpack("DRIVER", rx["DRIVER"])]
          /\ updated'["DRIVER"] = ~updated["DRIVER"]
      BY <1>3 DEF PollStatus, Poll, TypeOK, ECU
    <2>2. q # <<>> /\ q[1] = Unpack("DRIVER", rx["DRIVER"]) /\ q' = Drop(q, 1)
      BY <1>a, <2>1, LineTaken
    <2>3. StatusLink!Take
      BY <2>1, <2>2 DEF StatusLink!Take, StatusLink!Without, Drop
    <2> QED BY <2>3 DEF StatusStep, StatusLink!Next
  <1>4. CASE PollCommand
    <2>1. rx'["DRIVER"] = rx["DRIVER"] /\ tx' = tx /\ Same
      BY <1>4 DEF PollCommand, Poll, TypeOK, ECU
    <2> QED BY <1>b, <2>1
  <1>5. ASSUME NEW v \in Views, Observe(v) PROVE StatusStep
    BY <1>5, <1>b DEF Observe
  <1>6. ASSUME NEW n \in ECU, Transmit(n) PROVE StatusStep
    <2>1. CASE n = "DRIVER"
      <3>1. rx'["DRIVER"] = rx["DRIVER"] /\ tx'["DOOR"] = tx["DOOR"]
        BY <1>6, <2>1 DEF Transmit, Peer, TypeOK, ECU
      <3> QED BY <1>6, <1>b, <3>1 DEF Transmit
    <2>2. CASE n = "DOOR"
      <3>1. /\ tx["DOOR"] # NoFrame /\ tx'["DOOR"] = NoFrame
            /\ \/ rx'["DRIVER"] = tx["DOOR"]
               \/ rx["DRIVER"] # NoFrame /\ rx' = rx
        BY <1>6, <2>2 DEF Transmit, Peer, TypeOK, ECU
      <3>2. CASE rx["DRIVER"] = NoFrame
        BY <1>6, <1>a, <3>1, <3>2, LineMoves DEF Transmit, StatusStep
      <3>3. CASE rx["DRIVER"] # NoFrame /\ rx' = rx
        BY <1>6, <1>a, <1>c, <3>1, <3>3, LineLoses DEF Transmit
      <3>4. CASE rx["DRIVER"] # NoFrame /\ rx'["DRIVER"] = tx["DOOR"]
        <4>1. q' = Drop(q, 1) /\ 1 \in 1..Len(q)
          BY <1>a, <3>1, <3>4, LineMoves, LineTaken
        <4> QED BY <1>6, <1>c, <4>1 DEF Transmit
      <3> QED BY <3>1, <3>2, <3>3, <3>4
    <2> QED BY <2>1, <2>2 DEF ECU
  <1>7. ASSUME NEW n \in ECU, TransmitUnheard(n) PROVE StatusStep
    <2>1. CASE n = "DRIVER"
      BY <1>7, <1>b, <2>1 DEF TransmitUnheard
    <2>2. CASE n = "DOOR"
      <3>1. tx["DOOR"] # NoFrame /\ tx'["DOOR"] = NoFrame /\ rx' = rx /\ Same
        BY <1>7, <2>2 DEF TransmitUnheard, TypeOK, ECU
      <3> QED BY <1>a, <1>c, <3>1, LineLoses
    <2> QED BY <2>1, <2>2 DEF ECU
  <1>8. ASSUME NEW n \in ECU, BusOff(n) \/ Recover(n) PROVE StatusStep
    BY <1>8, <1>b DEF BusOff, Recover
  <1>9. ASSUME NEW n \in ECU, PowerLoss(n) PROVE StatusStep
    <2>1. CASE n = "DRIVER" /\ rx["DRIVER"] # NoFrame
      <3>1. rx'["DRIVER"] = NoFrame /\ tx'["DOOR"] = tx["DOOR"] /\ Same
        BY <1>9, <2>1 DEF PowerLoss, TypeOK, ECU
      <3> QED BY <1>a, <1>c, <2>1, <3>1, LineTaken
    <2>2. CASE n = "DOOR" /\ tx["DOOR"] # NoFrame
      <3>1. tx'["DOOR"] = NoFrame /\ rx'["DRIVER"] = rx["DRIVER"] /\ Same
        BY <1>9, <2>2 DEF PowerLoss, TypeOK, ECU
      <3> QED BY <1>a, <1>c, <2>2, <3>1, LineLoses
    <2>3. CASE \/ n = "DRIVER" /\ rx["DRIVER"] = NoFrame
               \/ n = "DOOR" /\ tx["DOOR"] = NoFrame
      <3>1. rx'["DRIVER"] = rx["DRIVER"] /\ tx'["DOOR"] = tx["DOOR"] /\ Same
        BY <1>9, <2>3 DEF PowerLoss, TypeOK, ECU
      <3> QED BY <1>b, <3>1
    <2> QED BY <2>1, <2>2, <2>3 DEF ECU
  <1>10. ASSUME NEW n \in ECU, Start(n) PROVE StatusStep
    <2>1. CASE n = "DRIVER"
      <3>1. snapshot'["DRIVER"] = Unheard("DRIVER") /\ q' = q /\ updated' = updated
        BY <1>a, <1>10, <2>1 DEF Start, TypeOK, ECU
      <3> QED BY <3>1 DEF StatusStep, StatusLink!Next, StatusLink!Forget
    <2>2. CASE n = "DOOR"
      BY <1>10, <1>b, <2>2 DEF Start
    <2> QED BY <2>1, <2>2 DEF ECU
  <1>11. CASE UNCHANGED vars
    BY <1>11, <1>b DEF vars
  <1> QED BY <1>1, <1>2, <1>3, <1>4, <1>5, <1>6, <1>7, <1>8, <1>9, <1>10, <1>11 DEF Next

LEMMA CommandLinkStep == TypeOK /\ [Next]_vars => CommandStep
  <1> SUFFICES ASSUME TypeOK, [Next]_vars PROVE CommandStep
    OBVIOUS
  <1> DEFINE q == InFlight("DOOR")
             Same == UNCHANGED <<snapshot["DOOR"], updated["DOOR"]>>
  <1>a. q = Line("DOOR", rx["DOOR"], tx["DRIVER"])
        /\ q' = Line("DOOR", rx'["DOOR"], tx'["DRIVER"])
    BY DEF InFlight, Peer
  <1>b. ASSUME rx'["DOOR"] = rx["DOOR"], tx'["DRIVER"] = tx["DRIVER"], Same
        PROVE  CommandStep
    BY <1>a, <1>b DEF CommandStep
  <1>c. ASSUME \E i \in 1..Len(q) : q' = Drop(q, i), Same
        PROVE  CommandStep
    BY <1>c DEF CommandStep, CommandLink!Next, CommandLink!Lose, CommandLink!Without, Drop
  <1>1. ASSUME NEW c \in Commands, SendCommand(c) PROVE CommandStep
    <2>1. c \in CommandSet
      BY LinkAssumption
    <2>2. PackCommand(c) # NoFrame /\ Unpack("DOOR", PackCommand(c)) = c
      BY <2>1, PackCommandType, CommandRoundTrip, LinkAssumption DEF Unpack
    <2>3. CASE tx["DRIVER"] # NoFrame
      <3>1. tx' = tx
        BY <1>1, <2>3 DEF SendCommand, Sent
      <3> QED BY <1>1, <1>b, <3>1 DEF SendCommand
    <2>4. CASE tx["DRIVER"] = NoFrame
      <3>1. tx'["DRIVER"] = PackCommand(c)
        BY <1>1, <2>4 DEF SendCommand, Sent, TypeOK, ECU
      <3>2. q' = Append(q, c)
        BY <1>a, <1>1, <2>2, <2>4, <3>1, LineGrows DEF SendCommand
      <3> HIDE DEF q
      <3>3. CommandLink!Send(c)
        BY <1>1, <3>2 DEF CommandLink!Send, SendCommand, q
      <3> QED BY <3>3 DEF CommandStep, CommandLink!Next
    <2> QED BY <2>3, <2>4
  <1>2. CASE PublishStatus
    <2>1. tx'["DRIVER"] = tx["DRIVER"]
      BY <1>2 DEF PublishStatus, Sent
    <2> QED BY <1>2, <1>b, <2>1 DEF PublishStatus
  <1>3. CASE PollCommand
    <2>1. /\ rx["DOOR"] # NoFrame /\ rx'["DOOR"] = NoFrame /\ tx' = tx
          /\ snapshot'["DOOR"] = [received |-> TRUE,
                                    value |-> Unpack("DOOR", rx["DOOR"])]
          /\ updated'["DOOR"] = ~updated["DOOR"]
      BY <1>3 DEF PollCommand, Poll, TypeOK, ECU
    <2>2. q # <<>> /\ q[1] = Unpack("DOOR", rx["DOOR"]) /\ q' = Drop(q, 1)
      BY <1>a, <2>1, LineTaken
    <2>3. CommandLink!Take
      BY <2>1, <2>2 DEF CommandLink!Take, CommandLink!Without, Drop
    <2> QED BY <2>3 DEF CommandStep, CommandLink!Next
  <1>4. CASE PollStatus
    <2>1. rx'["DOOR"] = rx["DOOR"] /\ tx' = tx /\ Same
      BY <1>4 DEF PollStatus, Poll, TypeOK, ECU
    <2> QED BY <1>b, <2>1
  <1>5. ASSUME NEW v \in Views, Observe(v) PROVE CommandStep
    BY <1>5, <1>b DEF Observe
  <1>6. ASSUME NEW n \in ECU, Transmit(n) PROVE CommandStep
    <2>1. CASE n = "DOOR"
      <3>1. rx'["DOOR"] = rx["DOOR"] /\ tx'["DRIVER"] = tx["DRIVER"]
        BY <1>6, <2>1 DEF Transmit, Peer, TypeOK, ECU
      <3> QED BY <1>6, <1>b, <3>1 DEF Transmit
    <2>2. CASE n = "DRIVER"
      <3>1. /\ tx["DRIVER"] # NoFrame /\ tx'["DRIVER"] = NoFrame
            /\ \/ rx'["DOOR"] = tx["DRIVER"]
               \/ rx["DOOR"] # NoFrame /\ rx' = rx
        BY <1>6, <2>2 DEF Transmit, Peer, TypeOK, ECU
      <3>2. CASE rx["DOOR"] = NoFrame
        BY <1>6, <1>a, <3>1, <3>2, LineMoves DEF Transmit, CommandStep
      <3>3. CASE rx["DOOR"] # NoFrame /\ rx' = rx
        BY <1>6, <1>a, <1>c, <3>1, <3>3, LineLoses DEF Transmit
      <3>4. CASE rx["DOOR"] # NoFrame /\ rx'["DOOR"] = tx["DRIVER"]
        <4>1. q' = Drop(q, 1) /\ 1 \in 1..Len(q)
          BY <1>a, <3>1, <3>4, LineMoves, LineTaken
        <4> QED BY <1>6, <1>c, <4>1 DEF Transmit
      <3> QED BY <3>1, <3>2, <3>3, <3>4
    <2> QED BY <2>1, <2>2 DEF ECU
  <1>7. ASSUME NEW n \in ECU, TransmitUnheard(n) PROVE CommandStep
    <2>1. CASE n = "DOOR"
      BY <1>7, <1>b, <2>1 DEF TransmitUnheard
    <2>2. CASE n = "DRIVER"
      <3>1. tx["DRIVER"] # NoFrame /\ tx'["DRIVER"] = NoFrame /\ rx' = rx /\ Same
        BY <1>7, <2>2 DEF TransmitUnheard, TypeOK, ECU
      <3> QED BY <1>a, <1>c, <3>1, LineLoses
    <2> QED BY <2>1, <2>2 DEF ECU
  <1>8. ASSUME NEW n \in ECU, BusOff(n) \/ Recover(n) PROVE CommandStep
    BY <1>8, <1>b DEF BusOff, Recover
  <1>9. ASSUME NEW n \in ECU, PowerLoss(n) PROVE CommandStep
    <2>1. CASE n = "DOOR" /\ rx["DOOR"] # NoFrame
      <3>1. rx'["DOOR"] = NoFrame /\ tx'["DRIVER"] = tx["DRIVER"] /\ Same
        BY <1>9, <2>1 DEF PowerLoss, TypeOK, ECU
      <3> QED BY <1>a, <1>c, <2>1, <3>1, LineTaken
    <2>2. CASE n = "DRIVER" /\ tx["DRIVER"] # NoFrame
      <3>1. tx'["DRIVER"] = NoFrame /\ rx'["DOOR"] = rx["DOOR"] /\ Same
        BY <1>9, <2>2 DEF PowerLoss, TypeOK, ECU
      <3> QED BY <1>a, <1>c, <2>2, <3>1, LineLoses
    <2>3. CASE \/ n = "DOOR" /\ rx["DOOR"] = NoFrame
               \/ n = "DRIVER" /\ tx["DRIVER"] = NoFrame
      <3>1. rx'["DOOR"] = rx["DOOR"] /\ tx'["DRIVER"] = tx["DRIVER"] /\ Same
        BY <1>9, <2>3 DEF PowerLoss, TypeOK, ECU
      <3> QED BY <1>b, <3>1
    <2> QED BY <2>1, <2>2, <2>3 DEF ECU
  <1>10. ASSUME NEW n \in ECU, Start(n) PROVE CommandStep
    <2>1. CASE n = "DOOR"
      <3>1. snapshot'["DOOR"] = Unheard("DOOR") /\ q' = q /\ updated' = updated
        BY <1>a, <1>10, <2>1 DEF Start, TypeOK, ECU
      <3> QED BY <3>1 DEF CommandStep, CommandLink!Next, CommandLink!Forget
    <2>2. CASE n = "DRIVER"
      BY <1>10, <1>b, <2>2 DEF Start
    <2> QED BY <2>1, <2>2 DEF ECU
  <1>11. CASE UNCHANGED vars
    BY <1>11, <1>b DEF vars
  <1> QED BY <1>1, <1>2, <1>3, <1>4, <1>5, <1>6, <1>7, <1>8, <1>9, <1>10, <1>11 DEF Next

(* Both directions of the link implement LossyLink: what an ECU takes was  *)
(* packed by the other one, is taken once, and in the order sent.          *)
THEOREM LinkImplementsLossyLink == Spec => ImplementsLossyLink
  <1>1. Init => StatusLink!Init /\ CommandLink!Init
    BY DEF Init, StatusLink!Init, CommandLink!Init, InFlight, Line, ECU, Peer
  <1>2. TypeOK /\ [Next]_vars => StatusStep /\ CommandStep
    BY StatusLinkStep, CommandLinkStep
  <1> QED BY <1>1, <1>2, TypeCorrect, PTL
          DEF Spec, ImplementsLossyLink, StatusLink!Spec, CommandLink!Spec,
              StatusStep, CommandStep
=============================================================================
