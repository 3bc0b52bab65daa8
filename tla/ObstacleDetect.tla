--------------------------- MODULE ObstacleDetect ---------------------------
(***************************************************************************)
(* The obstacle sensor of the door ECU: one ultrasonic measurement at a    *)
(* time, shared by ObstacleDetect_Service, which the loop calls in every   *)
(* poll, and two interrupts, the timer's that ends the trigger pulse and   *)
(* that of the echo line.  The sensor answers the falling edge of the      *)
(* trigger with an echo whose length tells the distance.                   *)
(*                                                                         *)
(* A tick is longer than the trigger pulse, than an interrupt waits, and   *)
(* than the sensor takes to raise its echo.                                *)
(***************************************************************************)
EXTENDS Integers

CONSTANTS
    Timeout,   \* g_obstacleEchoTimeoutTicks
    Period,    \* g_obstacleMeasurePeriodTicks
    Threshold, \* length of the echo of OBSTACLE_THRESHOLD_CM
    Echoes,    \* lengths of an echo; the longest means that none came back
    MaxGap     \* ticks from the start of one call of Service to that of the next

ASSUME ObstacleAssumption ==
    /\ Timeout \in Nat /\ Period \in Nat /\ Threshold \in Nat /\ MaxGap \in Nat
    /\ Echoes \subseteq Nat \ {0}
    /\ \E e \in Echoes : e <= Threshold
    /\ \E e \in Echoes : e > Threshold
    /\ Threshold <= Timeout
    /\ Timeout + 2 * MaxGap < Period

VARIABLES
    pc,                                   \* the next step of Service
    state, detected, valid, pulse_ready,  \* g_obstacleDetectState
    pulse_ticks,
    sinceRise,  \* ticks since rise_tick, while the echo is awaited to end
    sinceKick,  \* ticks since last_kick_tick, which measure_start_tick equals
    gap,        \* ticks since Service has read now_tick
    trig,       \* the trigger pin
    cmp,        \* the timer's compare: set by the initialisation, then due while the
                \* first measurement starts; armed for the end of a pulse; or off
    echo,       \* the sensor: quiet, about to raise its echo line, or holding it high
    echoLeft,   \* ticks until the echo ends
    echoIrq,    \* an edge of the echo line waits for its interrupt
    near,       \* something is within the threshold
    own         \* ghost: length of the echo asked for since the kick, 0 if none

service == <<detected, valid, pulse_ready, pulse_ticks>>
clocks == <<sinceRise, sinceKick, gap>>
sensor == <<echo, echoLeft, echoIrq, own>>
vars == <<pc, state, service, clocks, trig, cmp, sensor, near>>

Init ==
    /\ pc = "call"
    /\ state = "IDLE" /\ detected = FALSE /\ valid = FALSE
    /\ pulse_ready = FALSE /\ pulse_ticks = 0
    /\ sinceRise = 0 /\ sinceKick = 0 /\ gap = 0
    /\ trig = FALSE /\ cmp = "INITIAL"
    /\ echo = "QUIET" /\ echoLeft = 0 /\ echoIrq = FALSE
    /\ near \in BOOLEAN
    /\ own = 0

-----------------------------------------------------------------------------
(* The sensor and its surroundings.                                        *)

\* A falling trigger makes a sensor at rest send a ping.
Ping ==
    \E length \in {e \in Echoes : (e <= Threshold) = near} :
        /\ echo' = "BURST"
        /\ echoLeft' = length
        /\ own' = length
        /\ UNCHANGED echoIrq

\* IfxPort_setPinLow of the trigger.  A pulse that has been cut short may go unnoticed.
LowerTrigger(cutShort) ==
    /\ trig' = FALSE
    /\ \/ trig /\ echo = "QUIET" /\ Ping
       \/ (~trig \/ echo # "QUIET" \/ cutShort) /\ UNCHANGED sensor

RaiseEcho ==
    /\ echo = "BURST"
    /\ echo' = "HIGH"
    /\ echoIrq' = TRUE
    /\ UNCHANGED <<pc, state, service, clocks, trig, cmp, echoLeft, own, near>>

LowerEcho ==
    /\ echo = "HIGH"
    /\ echoLeft = 0
    /\ echo' = "QUIET"
    /\ echoIrq' = TRUE
    /\ UNCHANGED <<pc, state, service, clocks, trig, cmp, echoLeft, own, near>>

ObstacleMoves ==
    /\ near' = ~near
    /\ UNCHANGED <<pc, state, service, clocks, trig, cmp, sensor>>

-----------------------------------------------------------------------------
(* The interrupts.                                                         *)

\* The initialisation sets its compare a little after it has read last_kick_tick.
TrigDue == cmp \in {"ARMED", "DUE"} \/ (cmp = "INITIAL" /\ sinceKick >= Period)

obstacleDetectTrigIsr ==
    /\ TrigDue
    /\ cmp' = "OFF"
    /\ LowerTrigger(cmp = "DUE")
    /\ state' = IF state = "TRIG_HIGH" THEN "WAIT_RISE" ELSE state
    /\ UNCHANGED <<pc, service, clocks, near>>

EchoRises ==
    /\ echo = "HIGH"
    /\ state' = IF state = "WAIT_RISE" THEN "WAIT_FALL" ELSE state
    /\ sinceRise' = IF state = "WAIT_RISE" THEN 0 ELSE sinceRise
    /\ UNCHANGED <<pulse_ready, pulse_ticks>>

EchoFalls ==
    /\ echo # "HIGH"
    /\ pulse_ready' = (pulse_ready \/ state = "WAIT_FALL")
    /\ pulse_ticks' = IF state = "WAIT_FALL" THEN sinceRise ELSE pulse_ticks
    /\ UNCHANGED <<state, sinceRise>>

obstacleDetectEchoIsr ==
    /\ echoIrq
    /\ echoIrq' = FALSE
    /\ EchoRises \/ EchoFalls
    /\ UNCHANGED <<pc, detected, valid, sinceKick, gap, trig, cmp, echo, echoLeft, own, near>>

-----------------------------------------------------------------------------
(* ObstacleDetect_Service.  The interrupts may come between its steps, and *)
(* time may pass there: now_tick is then the time it started at.           *)

StartService ==
    /\ pc = "call"
    /\ gap' = 0
    /\ pc' = IF pulse_ready THEN "pulse" ELSE "timeout"
    /\ UNCHANGED <<state, service, sinceRise, sinceKick, trig, cmp, sensor, near>>

\* obstacleDetectProcessPulse, up to the return to the idle state.
JudgePulse ==
    /\ pc = "pulse"
    /\ pulse_ready' = FALSE
    /\ valid' = TRUE
    /\ detected' = (pulse_ticks <= Threshold)
    /\ pc' = "judged"
    /\ UNCHANGED <<state, pulse_ticks, clocks, trig, cmp, sensor, near>>

\* Mutant: the measurement is not over.
MutEndPulse ==
    /\ pc = "judged"
    /\ pc' = "timeout"
    /\ UNCHANGED <<state, service, clocks, trig, cmp, sensor, near>>

EndPulse ==
    /\ pc = "judged"
    /\ state' = "IDLE"
    /\ pc' = "timeout"
    /\ UNCHANGED <<service, clocks, trig, cmp, sensor, near>>

\* Mutant: a trigger pulse that has not ended is not looked at.
MutTimedOut == state \in {"WAIT_RISE", "WAIT_FALL"} /\ sinceKick - gap > Timeout

TimedOut == state # "IDLE" /\ sinceKick - gap > Timeout

\* Mutant: the last verdict stays valid.
MutAbort ==
    /\ pc = "timeout"
    /\ TimedOut
    /\ LowerTrigger(FALSE)
    /\ pulse_ready' = FALSE
    /\ pc' = "aborted"
    /\ UNCHANGED <<state, detected, valid, pulse_ticks, clocks, cmp, near>>

\* Mutant: what has been detected stays, though no longer valid.
MutAbortKeepsDetected ==
    /\ pc = "timeout"
    /\ TimedOut
    /\ LowerTrigger(FALSE)
    /\ valid' = FALSE
    /\ pulse_ready' = FALSE
    /\ pc' = "aborted"
    /\ UNCHANGED <<state, detected, pulse_ticks, clocks, cmp, near>>

Abort ==
    /\ pc = "timeout"
    /\ TimedOut
    /\ LowerTrigger(FALSE)
    /\ valid' = FALSE
    /\ detected' = FALSE
    /\ pulse_ready' = FALSE
    /\ pc' = "aborted"
    /\ UNCHANGED <<state, pulse_ticks, clocks, cmp, near>>

EndAbort ==
    /\ pc = "aborted"
    /\ state' = "IDLE"
    /\ pc' = "period"
    /\ UNCHANGED <<service, clocks, trig, cmp, sensor, near>>

NotTimedOut ==
    /\ pc = "timeout"
    /\ ~TimedOut
    /\ pc' = "period"
    /\ UNCHANGED <<state, service, clocks, trig, cmp, sensor, near>>

\* Mutant: one tick late.
MutKickDue == state = "IDLE" /\ sinceKick - gap > Period

KickDue == state = "IDLE" /\ sinceKick - gap >= Period

NoKick ==
    /\ pc = "period"
    /\ ~KickDue
    /\ pc' = "call"
    /\ UNCHANGED <<state, service, clocks, trig, cmp, sensor, near>>

Kick ==
    /\ pc = "period"
    /\ KickDue
    /\ sinceKick' = gap
    /\ sinceRise' = 0
    /\ pulse_ticks' = 0
    /\ pulse_ready' = FALSE
    /\ state' = "TRIG_HIGH"
    /\ own' = 0
    /\ cmp' = IF cmp = "INITIAL" THEN "DUE" ELSE cmp
    /\ pc' = "pin"
    /\ UNCHANGED <<detected, valid, gap, trig, echo, echoLeft, echoIrq, near>>

RaiseTrigger ==
    /\ pc = "pin"
    /\ trig' = TRUE
    /\ pc' = "arm"
    /\ UNCHANGED <<state, service, clocks, cmp, sensor, near>>

\* obstacleDetectArmTrigCompare.  The compare value is counted from now_tick: when
\* Service has been held up for longer than the pulse, the timer has passed it.
Arm(missed) ==
    /\ pc = "arm"
    /\ gap > 0 => missed
    /\ cmp' = IF missed THEN "OFF" ELSE "ARMED"
    /\ pc' = "call"
    /\ UNCHANGED <<state, service, clocks, trig, sensor, near>>

ObstacleDetect_Service ==
    \/ StartService \/ JudgePulse \/ EndPulse
    \/ Abort \/ EndAbort \/ NotTimedOut
    \/ NoKick \/ Kick \/ RaiseTrigger
    \/ \E missed \in BOOLEAN : Arm(missed)

Tick ==
    /\ gap < MaxGap
    /\ ~TrigDue /\ ~echoIrq
    /\ echo # "BURST" /\ ~(echo = "HIGH" /\ echoLeft = 0)
    /\ sinceKick' = sinceKick + 1
    /\ gap' = gap + 1
    /\ sinceRise' = IF state = "WAIT_FALL" THEN sinceRise + 1 ELSE sinceRise
    /\ echoLeft' = IF echo = "HIGH" THEN echoLeft - 1 ELSE echoLeft
    /\ UNCHANGED <<pc, state, service, trig, cmp, echo, echoIrq, own, near>>

Interrupt == obstacleDetectTrigIsr \/ obstacleDetectEchoIsr
Sensor == RaiseEcho \/ LowerEcho

Next == ObstacleDetect_Service \/ Interrupt \/ Sensor \/ ObstacleMoves \/ Tick

Spec == Init /\ [][Next]_vars

\* The loop is endless, interrupts are served, the sensor answers and time passes.
FairSpec ==
    Spec /\ WF_vars(ObstacleDetect_Service) /\ WF_vars(Interrupt) /\ WF_vars(Sensor)
         /\ WF_vars(Tick)

-----------------------------------------------------------------------------
(* Properties.                                                             *)

\* The longest a measurement may last, and the time between two of them.
MeasureBound == Timeout + 2 * MaxGap
PeriodBound == Period + 2 * MaxGap - 1

TypeOK ==
    /\ pc \in {"call", "pulse", "judged", "timeout", "aborted", "period", "pin", "arm"}
    /\ state \in {"IDLE", "TRIG_HIGH", "WAIT_RISE", "WAIT_FALL"}
    /\ detected \in BOOLEAN /\ valid \in BOOLEAN /\ pulse_ready \in BOOLEAN
    /\ pulse_ticks \in 0..MeasureBound
    /\ sinceRise \in 0..MeasureBound
    /\ sinceKick \in 0..PeriodBound
    /\ gap \in 0..MaxGap
    /\ trig \in BOOLEAN
    /\ cmp \in {"INITIAL", "DUE", "ARMED", "OFF"}
    /\ echo \in {"QUIET", "BURST", "HIGH"}
    /\ echoLeft \in Nat
    /\ echoIrq \in BOOLEAN
    /\ near \in BOOLEAN
    /\ own \in Echoes \cup {0}

(* Between two measurements a valid verdict is that of the last ping: it   *)
(* is not one that was kept, nor one made of the edges of two echoes or of *)
(* an echo that a measurement given up has left behind.                    *)
VerdictIsOfLastPing ==
    state = "IDLE" /\ valid => own # 0 /\ (detected <=> own <= Threshold)

(* A measurement ends, and its trigger pin goes low again, although the    *)
(* echo stays out, the compare is missed, or the loop comes late.          *)
MeasurementEnds ==
    state # "IDLE" \/ trig => sinceKick <= MeasureBound

(* An obstacle that stays is reported in every poll from some time on,     *)
(* unless compares go on being missed: each miss clears the verdict.       *)
StayingObstacleIsSeen ==
    (<>[]near /\ <>[][~Arm(TRUE)]_vars) => <>[]detected

(* An obstacle that has gone is in the end no longer reported, misses or   *)
(* not.                                                                    *)
GoneObstacleIsForgotten == <>[]~near => <>[]~detected
=============================================================================
