-------------------------- MODULE CanServiceProofs --------------------------
(***************************************************************************)
(* Proofs about CanService, for every size of the pool and of the          *)
(* executor.                                                               *)
(***************************************************************************)
EXTENDS CanService, SequenceTheorems, TLAPS

\* Removing the i-th element moves those behind it one place to the front.
LEMMA RemoveAtProperties ==
    ASSUME NEW S, NEW s \in Seq(S), NEW i \in 1..Len(s)
    PROVE  /\ RemoveAt(s, i) \in Seq(S)
           /\ Len(RemoveAt(s, i)) = Len(s) - 1
           /\ \A j \in 1..(Len(s) - 1) :
                RemoveAt(s, i)[j] = IF j < i THEN s[j] ELSE s[j + 1]
<1> DEFINE front == SubSeq(s, 1, i - 1)
           back == SubSeq(s, i + 1, Len(s))
<1>1. Len(s) \in Nat /\ \A j \in 1..Len(s) : s[j] \in S
  BY LenProperties, ElementOfSeq
<1>2. /\ front \in Seq(S)
      /\ Len(front) = i - 1
      /\ \A j \in 1..(i - 1) : front[j] = s[j]
  <2>1. \A j \in 1..(i - 1) : s[j] \in S
    BY <1>1
  <2>2. /\ front \in Seq(S)
        /\ Len(front) = IF 1 <= i - 1 THEN i - 1 - 1 + 1 ELSE 0
        /\ \A j \in 1..(i - 1 - 1 + 1) : front[j] = s[1 + j - 1]
    BY <1>1, <2>1, SubSeqProperties
  <2>3. QED
    BY <1>1, <2>2
<1>3. /\ back \in Seq(S)
      /\ Len(back) = Len(s) - i
      /\ \A j \in 1..(Len(s) - i) : back[j] = s[i + j]
  <2>1. \A j \in (i + 1)..Len(s) : s[j] \in S
    BY <1>1
  <2>2. /\ back \in Seq(S)
        /\ Len(back) = IF i + 1 <= Len(s) THEN Len(s) - (i + 1) + 1 ELSE 0
        /\ \A j \in 1..(Len(s) - (i + 1) + 1) : back[j] = s[i + 1 + j - 1]
    BY <1>1, <2>1, SubSeqProperties
  <2>3. QED
    BY <1>1, <2>2
<1> HIDE DEF front, back
<1>4. /\ front \o back \in Seq(S)
      /\ Len(front \o back) = Len(front) + Len(back)
      /\ \A j \in 1..(Len(front) + Len(back)) :
           (front \o back)[j] = IF j <= Len(front) THEN front[j] ELSE back[j - Len(front)]
  BY <1>2, <1>3, ConcatProperties
<1>5. RemoveAt(s, i) = front \o back
  BY DEF RemoveAt, front, back
<1>6. ASSUME NEW j \in 1..(Len(s) - 1)
      PROVE  RemoveAt(s, i)[j] = IF j < i THEN s[j] ELSE s[j + 1]
  <2>1. (front \o back)[j] = IF j <= i - 1 THEN front[j] ELSE back[j - (i - 1)]
    BY <1>1, <1>2, <1>3, <1>4
  <2>2. CASE j < i
    BY <2>1, <2>2, <1>1, <1>2, <1>5
  <2>3. CASE ~(j < i)
    <3>1. j - (i - 1) \in 1..(Len(s) - i) /\ i + (j - (i - 1)) = j + 1
      BY <2>3, <1>1
    <3>2. back[j - (i - 1)] = s[j + 1]
      BY <3>1, <1>3
    <3>3. ~(j <= i - 1)
      BY <2>3, <1>1
    <3>4. (front \o back)[j] = s[j + 1]
      BY <2>1, <3>2, <3>3
    <3>5. QED
      BY <2>3, <3>4, <1>5
  <2>4. QED
    BY <2>2, <2>3
<1>7. RemoveAt(s, i) \in Seq(S)
  BY <1>4, <1>5
<1>8. Len(RemoveAt(s, i)) = Len(s) - 1
  <2>1. Len(front) + Len(back) = Len(s) - 1
    BY <1>1, <1>2, <1>3
  <2>2. QED
    BY <2>1, <1>4, <1>5
<1>9. QED
  BY <1>6, <1>7, <1>8

-----------------------------------------------------------------------------

IInv == TypeOK /\ NothingForgotten /\ ResultsAreFinal

\* The operation of this turn, and where the executor finds it.
LEMMA CurrentType ==
    ASSUME TypeOK, slots # <<>>
    PROVE  /\ Len(slots) \in 1..Capacity
           /\ Index \in 0..(Len(slots) - 1)
           /\ Current \in Ops
<1>1. Len(slots) \in Nat \ {0} /\ Len(slots) <= Capacity
  BY EmptySeq DEF TypeOK
<1>2. Index \in 0..(Len(slots) - 1)
  BY <1>1, ServiceAssumption DEF Index, TypeOK
<1>3. slots[Index + 1] \in Ops
  BY <1>1, <1>2, ElementOfSeq DEF TypeOK
<1>4. QED
  BY <1>1, <1>2, <1>3, ServiceAssumption DEF Current

\* Removing the current operation takes it, and nothing else, out of the slots.
LEMMA RemoveCurrentEffect ==
    ASSUME TypeOK, NothingForgotten, slots # <<>>, RemoveCurrent
    PROVE  /\ slots' \in Seq(Ops)
           /\ Len(slots') <= Capacity
           /\ next_index' \in 0..(Capacity - 1)
           /\ \A o \in Ops : Contains(slots', o) <=> Contains(slots, o) /\ o # Current
           /\ \A i, j \in 1..Len(slots') : slots'[i] = slots'[j] => i = j
<1> DEFINE n == Len(slots)
           c == Index + 1
<1>1. /\ n \in 1..Capacity /\ c \in 1..n /\ Index \in 0..(n - 1)
      /\ slots \in Seq(Ops) /\ Capacity \in Nat
  BY CurrentType, ServiceAssumption DEF TypeOK
<1>2. /\ slots' \in Seq(Ops)
      /\ Len(slots') = n - 1
      /\ \A j \in 1..(n - 1) : slots'[j] = IF j < c THEN slots[j] ELSE slots[j + 1]
  BY <1>1, RemoveAtProperties DEF RemoveCurrent
<1>3. next_index' \in 0..(Capacity - 1)
  BY <1>1 DEF RemoveCurrent
<1>4. \A i, j \in 1..n : slots[i] = slots[j] => i = j
  BY DEF NothingForgotten
<1>5. Current = slots[c]
  BY DEF Current
<1> HIDE DEF n, c
<1>6. ASSUME NEW o \in Ops
      PROVE  Contains(slots', o) <=> Contains(slots, o) /\ o # Current
  <2>1. ASSUME Contains(slots', o)
        PROVE  Contains(slots, o) /\ o # Current
    <3>1. PICK j \in 1..(n - 1) : slots'[j] = o
      BY <1>2, <2>1 DEF Contains
    <3>2. PICK k \in 1..n : k # c /\ slots[k] = o
      <4>1. CASE j < c
        <5>1. slots[j] = o /\ j # c /\ j \in 1..n
          BY <4>1, <3>1, <1>1, <1>2
        <5>2. QED
          BY <5>1
      <4>2. CASE ~(j < c)
        <5>1. slots[j + 1] = o /\ j + 1 # c /\ j + 1 \in 1..n
          BY <4>2, <3>1, <1>1, <1>2
        <5>2. QED
          BY <5>1
      <4>3. QED
        BY <4>1, <4>2
    <3>3. QED
      BY <3>2, <1>1, <1>4, <1>5 DEF Contains, n
  <2>2. ASSUME Contains(slots, o), o # Current
        PROVE  Contains(slots', o)
    <3>1. PICK k \in 1..n : slots[k] = o
      BY <2>2 DEF Contains, n
    <3>2. k # c
      BY <3>1, <2>2, <1>5
    <3>3. PICK j \in 1..(n - 1) : slots'[j] = o
      <4>1. CASE k < c
        <5>1. k \in 1..(n - 1) /\ slots'[k] = o
          BY <4>1, <3>1, <1>1, <1>2
        <5>2. QED
          BY <5>1
      <4>2. CASE c < k
        <5>1. k - 1 \in 1..(n - 1) /\ slots'[k - 1] = slots[k - 1 + 1]
          BY <4>2, <3>1, <1>1, <1>2
        <5>2. k - 1 + 1 = k
          BY <1>1
        <5>3. QED
          BY <5>1, <5>2, <3>1
      <4>3. QED
        BY <4>1, <4>2, <3>2, <1>1
    <3>4. QED
      BY <3>3, <1>2 DEF Contains
  <2>3. QED
    BY <2>1, <2>2
<1>7. ASSUME NEW i \in 1..Len(slots'), NEW j \in 1..Len(slots'), slots'[i] = slots'[j]
      PROVE  i = j
  <2> DEFINE Was(k) == IF k < c THEN k ELSE k + 1
  <2>1. \A k \in 1..(n - 1) : Was(k) \in 1..n /\ slots'[k] = slots[Was(k)]
    BY <1>1, <1>2
  <2>2. Was(i) = Was(j)
    BY <2>1, <1>2, <1>4, <1>7
  <2>3. QED
    BY <2>2, <1>1, <1>2
<1>8. QED
  BY <1>1, <1>2, <1>3, <1>6, <1>7

\* Appending an operation that waits nowhere adds it, and nothing else.
LEMMA AppendEffect ==
    ASSUME TypeOK, NothingForgotten, NEW o \in Ops, ExecutorAccepts(o),
           slots' = Append(slots, o)
    PROVE  /\ slots' \in Seq(Ops)
           /\ Len(slots') <= Capacity
           /\ \A p \in Ops : Contains(slots', p) <=> Contains(slots, p) \/ p = o
           /\ \A i, j \in 1..Len(slots') : slots'[i] = slots'[j] => i = j
<1> DEFINE n == Len(slots)
<1>1. n \in Nat /\ n < Capacity /\ slots \in Seq(Ops) /\ Capacity \in Nat
  BY LenProperties, ServiceAssumption DEF TypeOK, ExecutorAccepts
<1>2. /\ slots' \in Seq(Ops)
      /\ Len(slots') = n + 1
      /\ \A i \in 1..n : slots'[i] = slots[i]
      /\ slots'[n + 1] = o
  BY <1>1, AppendProperties
<1>3. \A i \in 1..n : slots[i] # o
  BY DEF ExecutorAccepts, Contains
<1>4. \A i, j \in 1..n : slots[i] = slots[j] => i = j
  BY DEF NothingForgotten
<1>5. \A p \in Ops : Contains(slots, p) <=> \E i \in 1..n : slots[i] = p
  BY DEF Contains
<1> HIDE DEF n
<1>6. \A i \in 1..(n + 1) : i \in 1..n \/ i = n + 1
  BY <1>1
<1>7. ASSUME NEW p \in Ops
      PROVE  Contains(slots', p) <=> Contains(slots, p) \/ p = o
  <2>1. Contains(slots', p) <=> \E i \in 1..(n + 1) : slots'[i] = p
    BY <1>2 DEF Contains
  <2>2. 1..n \subseteq 1..(n + 1) /\ n + 1 \in 1..(n + 1)
    BY <1>1
  <2>3. QED
    BY <2>1, <2>2, <1>2, <1>5, <1>6
<1>8. \A i, j \in 1..(n + 1) : slots'[i] = slots'[j] => i = j
  BY <1>2, <1>3, <1>4, <1>6
<1>9. QED
  BY <1>1, <1>2, <1>7, <1>8

-----------------------------------------------------------------------------

\* One turn of the executor, alone or inside of CANServicePoll.
Turn ==
    /\ slots # <<>>
    /\ \/ \E outcome \in Outcomes : Complete(Current, outcome)
       \/ StayPending(Current)
       \/ RunError(Current)

\* What the steps do to the budget and to the result of CANServicePoll.
PollType == budget \in 0..MaxSteps /\ poll_status \in {"NONE", "OK", "EBUSY", "EINVAL"}

LEMMA TurnKeeps ==
    ASSUME IInv, Turn, PollType'
    PROVE  IInv'
<1> USE DEF IInv
<1>1. /\ Len(slots) \in 1..Capacity /\ Index \in 0..(Len(slots) - 1) /\ Current \in Ops
      /\ Contains(slots, Current)
  <2>1. Len(slots) \in 1..Capacity /\ Index \in 0..(Len(slots) - 1) /\ Current \in Ops
    BY CurrentType DEF Turn
  <2>2. Index + 1 \in 1..Len(slots)
    BY <2>1, ServiceAssumption
  <2>3. QED
    BY <2>1, <2>2 DEF Current, Contains
<1>2. ASSUME NEW outcome \in Outcomes, Complete(Current, outcome)
      PROVE  IInv'
  <2>1. RemoveCurrent
    BY <1>2 DEF Complete
  <2>2. /\ state' = [state EXCEPT ![Current] = "COMPLETED"]
        /\ state[Current] = "PENDING"
        /\ UNCHANGED in_use
    BY <1>2 DEF Complete
  <2>3. TypeOK'
    BY <1>1, <1>2, <2>1, RemoveCurrentEffect
    DEF Turn, TypeOK, PollType, Complete, StartDeadline, Outcomes
  <2>4. NothingForgotten' /\ ResultsAreFinal'
    BY <1>1, <2>1, <2>2, RemoveCurrentEffect
    DEF Turn, TypeOK, NothingForgotten, ResultsAreFinal
  <2>5. QED
    BY <2>3, <2>4
<1>3. ASSUME StayPending(Current)
      PROVE  IInv'
  <2>1. next_index' \in 0..(Capacity - 1)
    <3>1. (Index + 1) % Len(slots) \in 0..(Len(slots) - 1)
      BY <1>1
    <3>2. QED
      BY <1>1, <1>3, <3>1, ServiceAssumption DEF StayPending
  <2>2. UNCHANGED <<in_use, state, timeout, result_status, elapsed, slots>>
    BY <1>3 DEF StayPending
  <2>3. TypeOK'
    BY <1>1, <1>3, <2>1, <2>2 DEF TypeOK, PollType, StayPending, StartDeadline
  <2>4. NothingForgotten' /\ ResultsAreFinal'
    BY <2>2 DEF NothingForgotten, ResultsAreFinal, Contains
  <2>5. QED
    BY <2>3, <2>4
<1>4. ASSUME RunError(Current)
      PROVE  IInv'
  <2>1. RemoveCurrent
    BY <1>4 DEF RunError
  <2>2. UNCHANGED <<in_use, state>> /\ state[Current] = "IDLE"
    BY <1>4 DEF RunError
  <2>3. TypeOK'
    BY <1>1, <1>4, <2>1, RemoveCurrentEffect DEF Turn, TypeOK, PollType, RunError
  <2>4. NothingForgotten' /\ ResultsAreFinal'
    BY <1>1, <2>1, <2>2, RemoveCurrentEffect
    DEF Turn, TypeOK, NothingForgotten, ResultsAreFinal
  <2>5. QED
    BY <2>3, <2>4
<1>5. QED
  BY <1>2, <1>3, <1>4 DEF Turn

LEMMA SubmitKeeps ==
    ASSUME IInv, NEW o \in Ops, NEW t \in Timeouts, Submit(o, t)
    PROVE  IInv'
<1> USE DEF IInv
<1>1. ExecutorAccepts(o) /\ slots' = Append(slots, o)
  BY DEF Submit
<1>2. /\ o \notin in_use
      /\ in_use' = in_use \cup {o}
      /\ state' = [state EXCEPT ![o] = "PENDING"]
  BY DEF Submit, Acquirable, Renew
<1>3. TypeOK'
  BY <1>1, AppendEffect, ServiceAssumption DEF TypeOK, Submit, Renew, Outcomes
<1>4. NothingForgotten' /\ ResultsAreFinal'
  BY <1>1, <1>2, AppendEffect DEF TypeOK, NothingForgotten, ResultsAreFinal
<1>5. QED
  BY <1>3, <1>4

\* A released operation may leave a slot behind; no operation is in use for it.
LEMMA ReleaseKeeps ==
    ASSUME IInv, NEW o \in Ops, Release(o)
    PROVE  IInv'
<1> USE DEF IInv
<1>1. TypeOK'
  BY ServiceAssumption DEF TypeOK, Release, Renew, Timeouts, Outcomes
<1>2. NothingForgotten' /\ ResultsAreFinal'
  BY DEF TypeOK, NothingForgotten, ResultsAreFinal, Release, Renew, Contains
<1>3. QED
  BY <1>1, <1>2

LEMMA TickKeeps ==
    ASSUME IInv, Tick
    PROVE  IInv'
<1> USE DEF IInv
<1>1. elapsed' \in [Ops -> 0..TimeoutTicks]
  BY ServiceAssumption DEF TypeOK, Tick
<1>2. TypeOK'
  BY <1>1 DEF TypeOK, Tick
<1>3. NothingForgotten' /\ ResultsAreFinal'
  BY DEF NothingForgotten, ResultsAreFinal, Tick, Contains
<1>4. QED
  BY <1>2, <1>3

\* Steps that touch neither the operations nor the slots.
LEMMA PollOnlyKeeps ==
    ASSUME IInv, UNCHANGED <<in_use, opVars, slots, next_index>>, PollType'
    PROVE  IInv'
  BY DEF IInv, TypeOK, PollType, NothingForgotten, ResultsAreFinal, Contains, opVars

LEMMA Inductive == IInv /\ [Next]_vars => IInv'
<1> SUFFICES ASSUME IInv, [Next]_vars PROVE IInv'
  OBVIOUS
<1>1. PollType
  BY DEF IInv, TypeOK, PollType
<1>2. CASE UNCHANGED vars
  BY <1>1, <1>2, PollOnlyKeeps DEF vars, PollType
<1>3. CASE \E o \in Ops, t \in Timeouts : Submit(o, t)
  BY <1>3, SubmitKeeps
<1>4. CASE \E o \in Ops : Release(o)
  BY <1>4, ReleaseKeeps
<1>5. CASE StartPoll
  BY <1>1, <1>5, PollOnlyKeeps, ServiceAssumption DEF StartPoll, PollType
<1>6. CASE RunOne
  BY <1>1, <1>6, TurnKeeps DEF RunOne, Turn, PollType
<1>7. CASE PollIdle
  BY <1>1, <1>7, PollOnlyKeeps, ServiceAssumption DEF PollIdle, Return, PollType
<1>8. CASE PollStep
  <2>1. PollType'
    BY <1>1, <1>8, ServiceAssumption DEF PollStep, SpendStep, Return, PollType
  <2>2. QED
    BY <1>8, <2>1, TurnKeeps DEF PollStep, Turn
<1>9. CASE PollError
  <2>1. PollType'
    BY <1>1, <1>9, ServiceAssumption DEF PollError, Return, PollType
  <2>2. QED
    BY <1>9, <2>1, TurnKeeps DEF PollError, Turn
<1>10. CASE Tick
  BY <1>10, TickKeeps
<1>11. QED
  BY <1>2, <1>3, <1>4, <1>5, <1>6, <1>7, <1>8, <1>9, <1>10 DEF Next, Run

LEMMA InitHolds == Init => IInv
<1> SUFFICES ASSUME Init PROVE IInv
  OBVIOUS
<1>1. <<>> \in Seq(Ops) /\ Len(<<>>) = 0
  BY EmptySeq
<1>2. TypeOK
  BY <1>1, ServiceAssumption DEF Init, TypeOK, Timeouts, Outcomes
<1>3. NothingForgotten /\ ResultsAreFinal
  BY <1>1 DEF Init, NothingForgotten, ResultsAreFinal, Contains
<1>4. QED
  BY <1>2, <1>3 DEF IInv

THEOREM Invariance == Spec => []IInv
  BY InitHolds, Inductive, PTL DEF Spec

-----------------------------------------------------------------------------

(* Every reachable state is well typed; in particular the executor never   *)
(* indexes past its slots.                                                 *)
THEOREM TypeCorrect == Spec => []TypeOK
<1>1. IInv => TypeOK
  BY DEF IInv
<1>2. QED
  BY <1>1, Invariance, PTL

(* What a caller holds has a result or waits in exactly one slot.          *)
THEOREM NothingForgottenTheorem == Spec => []NothingForgotten
<1>1. IInv => NothingForgotten
  BY DEF IInv
<1>2. QED
  BY <1>1, Invariance, PTL

(* A finished operation is in no slot.                                     *)
THEOREM ResultsAreFinalTheorem == Spec => []ResultsAreFinal
<1>1. IInv => ResultsAreFinal
  BY DEF IInv
<1>2. QED
  BY <1>1, Invariance, PTL

LEMMA PollOkStep ==
    ASSUME IInv, IInv', [Next]_vars, budget > 0, budget' = 0, poll_status' = "OK"
    PROVE  \A o \in in_use' : state'[o] = "COMPLETED"
<1>1. budget \in 0..MaxSteps /\ MaxSteps \in Nat
  BY ServiceAssumption DEF IInv, TypeOK
<1>2. budget # budget' /\ budget # 0
  BY <1>1
<1>3. PollIdle \/ PollStep
  BY <1>2 DEF Next, Run, vars, Submit, Release, StartPoll, RunOne, PollError, Return, Tick
<1>4. slots' = <<>>
  BY <1>1, <1>3 DEF PollIdle, PollStep, SpendStep, Return
<1>5. \A o \in Ops : ~Contains(slots', o)
  BY <1>4, EmptySeq DEF Contains
<1>6. QED
  BY <1>5 DEF IInv, TypeOK, NothingForgotten

(* CANServicePoll returns OK only with no slot left, and then what is in   *)
(* use is completed.                                                       *)
THEOREM PollOkTheorem == Spec => PollOkMeansDone
<1>1. IInv /\ IInv' /\ [Next]_vars
        => [budget > 0 /\ budget' = 0 /\ poll_status' = "OK"
              => \A o \in in_use' : state'[o] = "COMPLETED"]_vars
  BY PollOkStep
<1>2. QED
  BY <1>1, Invariance, PTL DEF Spec, PollOkMeansDone
=============================================================================
