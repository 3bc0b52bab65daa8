------------------------ MODULE ObstacleDetectProofs ------------------------
(***************************************************************************)
(* The inductive invariant of the obstacle measurement, for all time-outs, *)
(* periods, echo lengths and gaps between two polls that satisfy           *)
(* ObstacleAssumption.                                                     *)
(***************************************************************************)
EXTENDS ObstacleDetect, TLAPS

\* The time since the kick as the running call of Service knows it.
Age == sinceKick - gap

\* Up to its time-out test a call may find a measurement that the last one left in time.
Early == pc \in {"pulse", "judged", "timeout", "aborted"}

Clocks ==
    /\ gap <= sinceKick
    /\ Age <= IF Early \/ pc = "period" THEN Period - 1 + MaxGap ELSE Period - 1
    /\ state # "IDLE" \/ trig => Age <= IF Early THEN Timeout + MaxGap ELSE Timeout
    /\ state = "WAIT_FALL" => sinceRise <= sinceKick
    /\ echo = "BURST" \/ (echo = "HIGH" /\ echoIrq) => sinceKick <= MeasureBound

\* The trigger pin is high only in a measurement that has not asked for its echo.
Trigger ==
    /\ trig => own = 0 /\ state # "IDLE"
    /\ pc \in {"pin", "arm"} => state # "IDLE"
    /\ pc = "pin" => own = 0 /\ ~trig
    /\ pc = "aborted" => ~trig /\ ~valid

\* The echo that is measured is the one asked for since the kick.
EchoIsOwn ==
    /\ echo = "BURST" \/ (echo = "HIGH" /\ echoIrq) => own # 0 /\ echoLeft = own
    /\ state = "WAIT_FALL" =>
         /\ own # 0
         /\ echo # "BURST"
         /\ echo = "HIGH" => ~echoIrq /\ sinceRise + echoLeft = own
         /\ echo = "QUIET" /\ echoIrq => sinceRise = own

PulseIsOwn ==
    /\ pulse_ready => own # 0 /\ pulse_ticks = own /\ state \in {"WAIT_FALL", "IDLE"}
    /\ pc = "pulse" => pulse_ready
    /\ pc = "judged" => state \in {"WAIT_FALL", "IDLE"} /\ valid
    /\ valid /\ (state = "IDLE" \/ pc = "judged")
         => own # 0 /\ (detected <=> own <= Threshold)

IInv == TypeOK /\ Clocks /\ Trigger /\ EchoIsOwn /\ PulseIsOwn

-----------------------------------------------------------------------------
LEMMA TypeStep == IInv /\ [Next]_vars => TypeOK'
  <1> SUFFICES ASSUME IInv, [Next]_vars PROVE TypeOK'
    OBVIOUS
  <1> USE ObstacleAssumption DEF IInv
  <1>1. CASE StartService
    BY <1>1 DEF StartService, service, clocks, sensor, TypeOK, Clocks, Age, Early,
        MeasureBound, PeriodBound
  <1>2. CASE JudgePulse
    <2>1. detected' \in BOOLEAN
      BY <1>2 DEF JudgePulse
    <2> QED
      BY <1>2, <2>1 DEF JudgePulse, clocks, sensor, TypeOK, MeasureBound, PeriodBound
  <1>3. CASE EndPulse
    BY <1>3 DEF EndPulse, service, clocks, sensor, TypeOK, Clocks, Age, Early,
        MeasureBound, PeriodBound
  <1>4. CASE Abort
    BY <1>4 DEF Abort, TimedOut, LowerTrigger, Ping, service, clocks, sensor, TypeOK,
        Clocks, Age, Early, MeasureBound, PeriodBound
  <1>5. CASE EndAbort
    BY <1>5 DEF EndAbort, service, clocks, sensor, TypeOK, Clocks, Age, Early,
        MeasureBound, PeriodBound
  <1>6. CASE NotTimedOut
    BY <1>6 DEF NotTimedOut, TimedOut, service, clocks, sensor, TypeOK, Clocks, Age,
        Early, MeasureBound, PeriodBound
  <1>7. CASE NoKick
    BY <1>7 DEF NoKick, KickDue, service, clocks, sensor, TypeOK, Clocks, Age, Early,
        MeasureBound, PeriodBound
  <1>8. CASE Kick
    <2>1. cmp' \in {"INITIAL", "DUE", "ARMED", "OFF"}
      BY <1>8 DEF Kick, TypeOK
    <2>2. gap \in 0..PeriodBound /\ 0 \in 0..MeasureBound
      BY DEF TypeOK, PeriodBound, MeasureBound
    <2> QED BY <1>8, <2>1, <2>2 DEF Kick, TypeOK
  <1>9. CASE RaiseTrigger
    BY <1>9 DEF RaiseTrigger, service, clocks, sensor, TypeOK, Clocks, Age, Early,
        MeasureBound, PeriodBound
  <1>10. ASSUME NEW missed \in BOOLEAN, Arm(missed) PROVE TypeOK'
    BY <1>10 DEF Arm, service, clocks, sensor, TypeOK, Clocks, Age, Early, MeasureBound,
        PeriodBound
  <1>11. CASE obstacleDetectTrigIsr
    BY <1>11 DEF obstacleDetectTrigIsr, LowerTrigger, Ping, service, clocks, sensor,
        TypeOK, Clocks, Age, Early, MeasureBound, PeriodBound
  <1>12. CASE obstacleDetectEchoIsr
    <2>1. pulse_ready' \in BOOLEAN
      BY <1>12 DEF obstacleDetectEchoIsr, EchoRises, EchoFalls, TypeOK
    <2>2. 0 \in 0..MeasureBound
      BY DEF MeasureBound
    <2>3. pulse_ticks' \in 0..MeasureBound /\ sinceRise' \in 0..MeasureBound
      BY <1>12, <2>2 DEF obstacleDetectEchoIsr, EchoRises, EchoFalls, TypeOK
    <2>4. state' \in {"IDLE", "TRIG_HIGH", "WAIT_RISE", "WAIT_FALL"}
      BY <1>12 DEF obstacleDetectEchoIsr, EchoRises, EchoFalls, TypeOK
    <2> QED
      BY <1>12, <2>1, <2>3, <2>4 DEF obstacleDetectEchoIsr, TypeOK
  <1>13. CASE RaiseEcho
    BY <1>13 DEF RaiseEcho, service, clocks, sensor, TypeOK, Clocks, Age, Early,
        MeasureBound, PeriodBound
  <1>14. CASE LowerEcho
    BY <1>14 DEF LowerEcho, service, clocks, sensor, TypeOK, Clocks, Age, Early,
        MeasureBound, PeriodBound
  <1>15. CASE ObstacleMoves
    BY <1>15 DEF ObstacleMoves, service, clocks, sensor, TypeOK, Clocks, Age, Early,
        MeasureBound, PeriodBound
  <1>16. CASE Tick
    BY <1>16 DEF Tick, TrigDue, service, clocks, sensor, TypeOK, Clocks, Age, Early,
        MeasureBound, PeriodBound
  <1>17. CASE UNCHANGED vars
    BY <1>17 DEF vars, service, clocks, sensor, TypeOK, Clocks, Age, Early,
        MeasureBound, PeriodBound
  <1> QED BY <1>1, <1>2, <1>3, <1>4, <1>5, <1>6, <1>7, <1>8, <1>9, <1>10, <1>11, <1>12,
        <1>13, <1>14, <1>15, <1>16, <1>17
      DEF Next, ObstacleDetect_Service, Interrupt, Sensor

LEMMA ClocksStep == IInv /\ [Next]_vars => Clocks'
  <1> SUFFICES ASSUME IInv, [Next]_vars PROVE Clocks'
    OBVIOUS
  <1> USE ObstacleAssumption DEF IInv
  <1>1. CASE StartService
    BY <1>1 DEF StartService, service, clocks, sensor, TypeOK, Clocks, Trigger,
        PulseIsOwn, Age, Early, MeasureBound, PeriodBound
  <1>2. CASE JudgePulse
    BY <1>2 DEF JudgePulse, service, clocks, sensor, TypeOK, Clocks, Trigger,
        PulseIsOwn, Age, Early, MeasureBound, PeriodBound
  <1>3. CASE EndPulse
    BY <1>3 DEF EndPulse, service, clocks, sensor, TypeOK, Clocks, Trigger, PulseIsOwn,
        Age, Early, MeasureBound, PeriodBound
  <1>4. CASE Abort
    BY <1>4 DEF Abort, TimedOut, LowerTrigger, Ping, service, clocks, sensor, TypeOK,
        Clocks, Trigger, PulseIsOwn, Age, Early, MeasureBound, PeriodBound
  <1>5. CASE EndAbort
    BY <1>5 DEF EndAbort, service, clocks, sensor, TypeOK, Clocks, Trigger, PulseIsOwn,
        Age, Early, MeasureBound, PeriodBound
  <1>6. CASE NotTimedOut
    BY <1>6 DEF NotTimedOut, TimedOut, service, clocks, sensor, TypeOK, Clocks, Trigger,
        PulseIsOwn, Age, Early, MeasureBound, PeriodBound
  <1>7. CASE NoKick
    BY <1>7 DEF NoKick, KickDue, service, clocks, sensor, TypeOK, Clocks, Trigger,
        PulseIsOwn, Age, Early, MeasureBound, PeriodBound
  <1>8. CASE Kick
    BY <1>8 DEF Kick, KickDue, service, clocks, sensor, TypeOK, Clocks, Trigger,
        PulseIsOwn, Age, Early, MeasureBound, PeriodBound
  <1>9. CASE RaiseTrigger
    BY <1>9 DEF RaiseTrigger, service, clocks, sensor, TypeOK, Clocks, Trigger,
        PulseIsOwn, Age, Early, MeasureBound, PeriodBound
  <1>10. ASSUME NEW missed \in BOOLEAN, Arm(missed) PROVE Clocks'
    BY <1>10 DEF Arm, service, clocks, sensor, TypeOK, Clocks, Trigger, PulseIsOwn, Age,
        Early, MeasureBound, PeriodBound
  <1>11. CASE obstacleDetectTrigIsr
    BY <1>11 DEF obstacleDetectTrigIsr, LowerTrigger, Ping, service, clocks, sensor,
        TypeOK, Clocks, Trigger, PulseIsOwn, Age, Early, MeasureBound, PeriodBound
  <1>12. CASE obstacleDetectEchoIsr
    BY <1>12 DEF obstacleDetectEchoIsr, EchoRises, EchoFalls, service, clocks, sensor,
        TypeOK, Clocks, Trigger, PulseIsOwn, Age, Early, MeasureBound, PeriodBound
  <1>13. CASE RaiseEcho
    BY <1>13 DEF RaiseEcho, service, clocks, sensor, TypeOK, Clocks, Trigger,
        PulseIsOwn, Age, Early, MeasureBound, PeriodBound
  <1>14. CASE LowerEcho
    BY <1>14 DEF LowerEcho, service, clocks, sensor, TypeOK, Clocks, Trigger,
        PulseIsOwn, Age, Early, MeasureBound, PeriodBound
  <1>15. CASE ObstacleMoves
    BY <1>15 DEF ObstacleMoves, service, clocks, sensor, TypeOK, Clocks, Trigger,
        PulseIsOwn, Age, Early, MeasureBound, PeriodBound
  <1>16. CASE Tick
    BY <1>16 DEF Tick, TrigDue, service, clocks, sensor, TypeOK, Clocks, Trigger,
        PulseIsOwn, Age, Early, MeasureBound, PeriodBound
  <1>17. CASE UNCHANGED vars
    BY <1>17 DEF vars, service, clocks, sensor, TypeOK, Clocks, Trigger, PulseIsOwn,
        Age, Early, MeasureBound, PeriodBound
  <1> QED BY <1>1, <1>2, <1>3, <1>4, <1>5, <1>6, <1>7, <1>8, <1>9, <1>10, <1>11, <1>12,
        <1>13, <1>14, <1>15, <1>16, <1>17
      DEF Next, ObstacleDetect_Service, Interrupt, Sensor

LEMMA TriggerStep == IInv /\ [Next]_vars => Trigger'
  <1> SUFFICES ASSUME IInv, [Next]_vars PROVE Trigger'
    OBVIOUS
  <1> USE ObstacleAssumption DEF IInv
  <1>1. CASE StartService
    BY <1>1 DEF StartService, service, clocks, sensor, TypeOK, Trigger, PulseIsOwn
  <1>2. CASE JudgePulse
    BY <1>2 DEF JudgePulse, service, clocks, sensor, TypeOK, Trigger, PulseIsOwn
  <1>3. CASE EndPulse
    BY <1>3 DEF EndPulse, service, clocks, sensor, TypeOK, Trigger, PulseIsOwn
  <1>4. CASE Abort
    BY <1>4 DEF Abort, TimedOut, LowerTrigger, Ping, service, clocks, sensor, TypeOK,
        Trigger, PulseIsOwn
  <1>5. CASE EndAbort
    BY <1>5 DEF EndAbort, service, clocks, sensor, TypeOK, Trigger, PulseIsOwn
  <1>6. CASE NotTimedOut
    BY <1>6 DEF NotTimedOut, TimedOut, service, clocks, sensor, TypeOK, Trigger,
        PulseIsOwn
  <1>7. CASE NoKick
    BY <1>7 DEF NoKick, KickDue, service, clocks, sensor, TypeOK, Trigger, PulseIsOwn
  <1>8. CASE Kick
    BY <1>8 DEF Kick, KickDue, service, clocks, sensor, TypeOK, Trigger, PulseIsOwn
  <1>9. CASE RaiseTrigger
    BY <1>9 DEF RaiseTrigger, service, clocks, sensor, TypeOK, Trigger, PulseIsOwn
  <1>10. ASSUME NEW missed \in BOOLEAN, Arm(missed) PROVE Trigger'
    BY <1>10 DEF Arm, service, clocks, sensor, TypeOK, Trigger, PulseIsOwn
  <1>11. CASE obstacleDetectTrigIsr
    BY <1>11 DEF obstacleDetectTrigIsr, LowerTrigger, Ping, service, clocks, sensor,
        TypeOK, Trigger, PulseIsOwn
  <1>12. CASE obstacleDetectEchoIsr
    BY <1>12 DEF obstacleDetectEchoIsr, EchoRises, EchoFalls, service, clocks, sensor,
        TypeOK, Trigger, PulseIsOwn
  <1>13. CASE RaiseEcho
    BY <1>13 DEF RaiseEcho, service, clocks, sensor, TypeOK, Trigger, PulseIsOwn
  <1>14. CASE LowerEcho
    BY <1>14 DEF LowerEcho, service, clocks, sensor, TypeOK, Trigger, PulseIsOwn
  <1>15. CASE ObstacleMoves
    BY <1>15 DEF ObstacleMoves, service, clocks, sensor, TypeOK, Trigger, PulseIsOwn
  <1>16. CASE Tick
    BY <1>16 DEF Tick, TrigDue, service, clocks, sensor, TypeOK, Trigger, PulseIsOwn
  <1>17. CASE UNCHANGED vars
    BY <1>17 DEF vars, service, clocks, sensor, TypeOK, Trigger, PulseIsOwn
  <1> QED BY <1>1, <1>2, <1>3, <1>4, <1>5, <1>6, <1>7, <1>8, <1>9, <1>10, <1>11, <1>12,
        <1>13, <1>14, <1>15, <1>16, <1>17
      DEF Next, ObstacleDetect_Service, Interrupt, Sensor

LEMMA EchoStep == IInv /\ [Next]_vars => EchoIsOwn'
  <1> SUFFICES ASSUME IInv, [Next]_vars PROVE EchoIsOwn'
    OBVIOUS
  <1> USE ObstacleAssumption DEF IInv
  <1>1. CASE StartService
    BY <1>1 DEF StartService, service, clocks, sensor, TypeOK, EchoIsOwn, Clocks,
        Trigger, Age, Early, MeasureBound
  <1>2. CASE JudgePulse
    BY <1>2 DEF JudgePulse, service, clocks, sensor, TypeOK, EchoIsOwn, Clocks, Trigger,
        Age, Early, MeasureBound
  <1>3. CASE EndPulse
    BY <1>3 DEF EndPulse, service, clocks, sensor, TypeOK, EchoIsOwn, Clocks, Trigger,
        Age, Early, MeasureBound
  <1>4. CASE Abort
    BY <1>4 DEF Abort, TimedOut, LowerTrigger, Ping, service, clocks, sensor, TypeOK,
        EchoIsOwn, Clocks, Trigger, Age, Early, MeasureBound
  <1>5. CASE EndAbort
    BY <1>5 DEF EndAbort, service, clocks, sensor, TypeOK, EchoIsOwn, Clocks, Trigger,
        Age, Early, MeasureBound
  <1>6. CASE NotTimedOut
    BY <1>6 DEF NotTimedOut, TimedOut, service, clocks, sensor, TypeOK, EchoIsOwn,
        Clocks, Trigger, Age, Early, MeasureBound
  <1>7. CASE NoKick
    BY <1>7 DEF NoKick, KickDue, service, clocks, sensor, TypeOK, EchoIsOwn, Clocks,
        Trigger, Age, Early, MeasureBound
  <1>8. CASE Kick
    BY <1>8 DEF Kick, KickDue, service, clocks, sensor, TypeOK, EchoIsOwn, Clocks,
        Trigger, Age, Early, MeasureBound
  <1>9. CASE RaiseTrigger
    BY <1>9 DEF RaiseTrigger, service, clocks, sensor, TypeOK, EchoIsOwn, Clocks,
        Trigger, Age, Early, MeasureBound
  <1>10. ASSUME NEW missed \in BOOLEAN, Arm(missed) PROVE EchoIsOwn'
    BY <1>10 DEF Arm, service, clocks, sensor, TypeOK, EchoIsOwn, Clocks, Trigger, Age,
        Early, MeasureBound
  <1>11. CASE obstacleDetectTrigIsr
    BY <1>11 DEF obstacleDetectTrigIsr, LowerTrigger, Ping, service, clocks, sensor,
        TypeOK, EchoIsOwn, Clocks, Trigger, Age, Early, MeasureBound
  <1>12. CASE obstacleDetectEchoIsr
    BY <1>12 DEF obstacleDetectEchoIsr, EchoRises, EchoFalls, service, clocks, sensor,
        TypeOK, EchoIsOwn, Clocks, Trigger, Age, Early, MeasureBound
  <1>13. CASE RaiseEcho
    BY <1>13 DEF RaiseEcho, service, clocks, sensor, TypeOK, EchoIsOwn, Clocks, Trigger,
        Age, Early, MeasureBound
  <1>14. CASE LowerEcho
    BY <1>14 DEF LowerEcho, service, clocks, sensor, TypeOK, EchoIsOwn, Clocks, Trigger,
        Age, Early, MeasureBound
  <1>15. CASE ObstacleMoves
    BY <1>15 DEF ObstacleMoves, service, clocks, sensor, TypeOK, EchoIsOwn, Clocks,
        Trigger, Age, Early, MeasureBound
  <1>16. CASE Tick
    BY <1>16 DEF Tick, TrigDue, service, clocks, sensor, TypeOK, EchoIsOwn, Clocks,
        Trigger, Age, Early, MeasureBound
  <1>17. CASE UNCHANGED vars
    BY <1>17 DEF vars, service, clocks, sensor, TypeOK, EchoIsOwn, Clocks, Trigger, Age,
        Early, MeasureBound
  <1> QED BY <1>1, <1>2, <1>3, <1>4, <1>5, <1>6, <1>7, <1>8, <1>9, <1>10, <1>11, <1>12,
        <1>13, <1>14, <1>15, <1>16, <1>17
      DEF Next, ObstacleDetect_Service, Interrupt, Sensor

LEMMA PulseStep == IInv /\ [Next]_vars => PulseIsOwn'
  <1> SUFFICES ASSUME IInv, [Next]_vars PROVE PulseIsOwn'
    OBVIOUS
  <1> USE ObstacleAssumption DEF IInv
  <1>1. CASE StartService
    BY <1>1 DEF StartService, service, clocks, sensor, TypeOK, PulseIsOwn, EchoIsOwn,
        Trigger
  <1>2. CASE JudgePulse
    BY <1>2 DEF JudgePulse, service, clocks, sensor, TypeOK, PulseIsOwn, EchoIsOwn,
        Trigger
  <1>3. CASE EndPulse
    BY <1>3 DEF EndPulse, service, clocks, sensor, TypeOK, PulseIsOwn, EchoIsOwn,
        Trigger
  <1>4. CASE Abort
    BY <1>4 DEF Abort, TimedOut, LowerTrigger, Ping, service, clocks, sensor, TypeOK,
        PulseIsOwn, EchoIsOwn, Trigger
  <1>5. CASE EndAbort
    BY <1>5 DEF EndAbort, service, clocks, sensor, TypeOK, PulseIsOwn, EchoIsOwn,
        Trigger
  <1>6. CASE NotTimedOut
    BY <1>6 DEF NotTimedOut, TimedOut, service, clocks, sensor, TypeOK, PulseIsOwn,
        EchoIsOwn, Trigger
  <1>7. CASE NoKick
    BY <1>7 DEF NoKick, KickDue, service, clocks, sensor, TypeOK, PulseIsOwn, EchoIsOwn,
        Trigger
  <1>8. CASE Kick
    BY <1>8 DEF Kick, KickDue, service, clocks, sensor, TypeOK, PulseIsOwn, EchoIsOwn,
        Trigger
  <1>9. CASE RaiseTrigger
    BY <1>9 DEF RaiseTrigger, service, clocks, sensor, TypeOK, PulseIsOwn, EchoIsOwn,
        Trigger
  <1>10. ASSUME NEW missed \in BOOLEAN, Arm(missed) PROVE PulseIsOwn'
    BY <1>10 DEF Arm, service, clocks, sensor, TypeOK, PulseIsOwn, EchoIsOwn, Trigger
  <1>11. CASE obstacleDetectTrigIsr
    BY <1>11 DEF obstacleDetectTrigIsr, LowerTrigger, Ping, service, clocks, sensor,
        TypeOK, PulseIsOwn, EchoIsOwn, Trigger
  <1>12. CASE obstacleDetectEchoIsr
    BY <1>12 DEF obstacleDetectEchoIsr, EchoRises, EchoFalls, service, clocks, sensor,
        TypeOK, PulseIsOwn, EchoIsOwn, Trigger
  <1>13. CASE RaiseEcho
    BY <1>13 DEF RaiseEcho, service, clocks, sensor, TypeOK, PulseIsOwn, EchoIsOwn,
        Trigger
  <1>14. CASE LowerEcho
    BY <1>14 DEF LowerEcho, service, clocks, sensor, TypeOK, PulseIsOwn, EchoIsOwn,
        Trigger
  <1>15. CASE ObstacleMoves
    BY <1>15 DEF ObstacleMoves, service, clocks, sensor, TypeOK, PulseIsOwn, EchoIsOwn,
        Trigger
  <1>16. CASE Tick
    BY <1>16 DEF Tick, TrigDue, service, clocks, sensor, TypeOK, PulseIsOwn, EchoIsOwn,
        Trigger
  <1>17. CASE UNCHANGED vars
    BY <1>17 DEF vars, service, clocks, sensor, TypeOK, PulseIsOwn, EchoIsOwn, Trigger
  <1> QED BY <1>1, <1>2, <1>3, <1>4, <1>5, <1>6, <1>7, <1>8, <1>9, <1>10, <1>11, <1>12,
        <1>13, <1>14, <1>15, <1>16, <1>17
      DEF Next, ObstacleDetect_Service, Interrupt, Sensor

LEMMA InitStep == Init => IInv
  <1> SUFFICES ASSUME Init PROVE IInv
    OBVIOUS
  <1> USE ObstacleAssumption DEF Init
  <1>1. 0 \in 0..MeasureBound /\ 0 \in 0..PeriodBound /\ 0 \in 0..MaxGap
    BY DEF MeasureBound, PeriodBound
  <1>2. TypeOK
    BY <1>1 DEF TypeOK
  <1>3. Clocks
    BY DEF Clocks, Age, Early, MeasureBound
  <1> QED BY <1>2, <1>3 DEF IInv, Trigger, EchoIsOwn, PulseIsOwn

LEMMA Inductive == Spec => []IInv
  <1>1. IInv /\ [Next]_vars => IInv'
    BY TypeStep, ClocksStep, TriggerStep, EchoStep, PulseStep DEF IInv
  <1> QED BY InitStep, <1>1, PTL DEF Spec

-----------------------------------------------------------------------------
(* Every variable keeps its type; in particular the age of a measurement   *)
(* and the length of a pulse stay within their bounds.                     *)
THEOREM TypeCorrect == Spec => []TypeOK
  BY Inductive, PTL DEF IInv

(* A verdict that is valid between two measurements is that of the echo    *)
(* asked for since the last kick (obstacle_detect.c: 177-238, 287-305).    *)
THEOREM VerdictTheorem == Spec => []VerdictIsOfLastPing
  <1>1. IInv => VerdictIsOfLastPing
    BY DEF IInv, PulseIsOwn, VerdictIsOfLastPing
  <1> QED BY <1>1, Inductive, PTL

(* A measurement is over, and the trigger pin low, when the time-out and   *)
(* two polls have passed (obstacle_detect.c: 292-305).                     *)
THEOREM MeasurementEndsTheorem == Spec => []MeasurementEnds
  <1>1. IInv => MeasurementEnds
    BY ObstacleAssumption DEF IInv, TypeOK, Clocks, Age, Early, MeasurementEnds, MeasureBound
  <1> QED BY <1>1, Inductive, PTL
=============================================================================
