----------------------------- MODULE CanService -----------------------------
(***************************************************************************)
(* The asynchronous layer of the CAN library: the pool of operations of a  *)
(* CANService, the slots of its CANExecutor, and the steps of a            *)
(* CANOperation.  A caller submits operations, runs them one by one or     *)
(* with a bounded poll, reads results and releases operations, finished or *)
(* not.  What the CAN core answers to one try is any of Outcomes.          *)
(***************************************************************************)
EXTENDS Integers, SequencesExt

CONSTANTS
    PoolSize,     \* operations of the service
    Capacity,     \* slots of the executor
    TimeoutTicks, \* timeout_ms of an operation with a finite timeout
    MaxSteps      \* max_steps of CANServicePoll

ASSUME ServiceAssumption ==
    /\ PoolSize \in Nat \ {0}
    /\ Capacity \in Nat \ {0}
    /\ TimeoutTicks \in Nat \ {0}
    /\ MaxSteps \in Nat \ {0}

VARIABLES
    in_use,           \* operations acquired from the pool
    state, timeout, deadline_started, result_status, \* fields of the operations
    elapsed,          \* ticks since start_ms, capped
    slots,            \* CANExecutor: the operations submitted, in order
    next_index,       \* its next one, counted from 0
    budget,           \* steps CANServicePoll has left; 0 outside of a call
    poll_status       \* what its last call has returned

opVars == <<state, timeout, deadline_started, result_status, elapsed>>
vars == <<in_use, opVars, slots, next_index, budget, poll_status>>

Ops == 1..PoolSize
Timeouts == {"ZERO", "FINITE", "INFINITE"}
\* Success; nothing to do yet (EBUSY of a send, ENODATA of the others); an error.
Outcomes == {"OK", "AGAIN", "FAILED"}

Init ==
    /\ in_use = {}
    /\ state = [o \in Ops |-> "IDLE"]
    /\ timeout = [o \in Ops |-> "ZERO"]
    /\ deadline_started = [o \in Ops |-> FALSE]
    /\ result_status = [o \in Ops |-> "OK"]
    /\ elapsed = [o \in Ops |-> 0]
    /\ slots = <<>>
    /\ next_index = 0
    /\ budget = 0
    /\ poll_status = "NONE"

-----------------------------------------------------------------------------
(* The caller.                                                             *)

\* CANOperationInit, then the state and timeout given to the operation.
Renew(o, newState, newTimeout) ==
    /\ state' = [state EXCEPT ![o] = newState]
    /\ timeout' = [timeout EXCEPT ![o] = newTimeout]
    /\ deadline_started' = [deadline_started EXCEPT ![o] = FALSE]
    /\ result_status' = [result_status EXCEPT ![o] = "OK"]
    /\ elapsed' = [elapsed EXCEPT ![o] = 0]

\* CANServiceAcquireOperation: the first operation that is not in use.
Acquirable(o) == o \notin in_use /\ \A p \in Ops \ in_use : o <= p

\* Mutant: an operation still in a slot is taken in again.
MutExecutorAccepts(o) == Len(slots) < Capacity

ExecutorAccepts(o) == Len(slots) < Capacity /\ ~Contains(slots, o)

\* CANServiceSubmitSend, -Receive and -Poll.  A submission the executor refuses
\* releases the operation again and leaves everything as it was.
Submit(o, t) ==
    /\ budget = 0
    /\ Acquirable(o)
    /\ ExecutorAccepts(o)
    /\ in_use' = in_use \cup {o}
    /\ Renew(o, "PENDING", t)
    /\ slots' = Append(slots, o)
    /\ UNCHANGED <<next_index, budget, poll_status>>

\* The executor's slots are not told.
Release(o) ==
    /\ budget = 0
    /\ o \in in_use
    /\ in_use' = in_use \ {o}
    /\ Renew(o, "IDLE", "ZERO")
    /\ UNCHANGED <<slots, next_index, budget, poll_status>>

-----------------------------------------------------------------------------
(* One turn of the executor.                                               *)

Index == IF next_index < Len(slots) THEN next_index ELSE 0
Current == slots[Index + 1]

\* Mutant: the slot behind the one that has run is removed.
MutRemoveCurrent ==
    /\ slots' = RemoveAt(slots, Index + 2)
    /\ next_index' = IF Index + 1 < Len(slots) THEN Index ELSE 0

\* CANExecutorRemoveAt(Index): the operation behind it is the next one.
RemoveCurrent ==
    /\ slots' = RemoveAt(slots, Index + 1)
    /\ next_index' = IF Index + 1 < Len(slots) THEN Index ELSE 0

\* CANOperationRunOnce starts the deadline of the operation it tries first.
StartDeadline(o) ==
    deadline_started' = [deadline_started EXCEPT ![o] = @ \/ timeout[o] = "FINITE"]

Expired(o) ==
    timeout[o] = "FINITE" /\ deadline_started[o] /\ elapsed[o] = TimeoutTicks

\* Mutant: an operation that has run into its timeout goes on.
MutEnds(o, outcome) == outcome # "AGAIN" \/ timeout[o] = "ZERO"

\* What the try ends with, if it ends: AGAIN ends it only when time is up.
Ends(o, outcome) == outcome # "AGAIN" \/ timeout[o] = "ZERO" \/ Expired(o)

Complete(o, outcome) ==
    /\ state[o] = "PENDING"
    /\ Ends(o, outcome)
    /\ state' = [state EXCEPT ![o] = "COMPLETED"]
    /\ result_status' = [result_status EXCEPT ![o] =
           IF outcome = "AGAIN" /\ Expired(o) THEN "ETIMEOUT" ELSE outcome]
    /\ StartDeadline(o)
    /\ RemoveCurrent
    /\ UNCHANGED <<in_use, timeout, elapsed>>

\* Mutant: the index does not go back to the first slot.
MutStayPending(o) ==
    /\ state[o] = "PENDING"
    /\ ~Ends(o, "AGAIN")
    /\ StartDeadline(o)
    /\ next_index' = Index + 1
    /\ UNCHANGED <<in_use, state, timeout, result_status, elapsed, slots>>

StayPending(o) ==
    /\ state[o] = "PENDING"
    /\ ~Ends(o, "AGAIN")
    /\ StartDeadline(o)
    /\ next_index' = (Index + 1) % Len(slots)
    /\ UNCHANGED <<in_use, state, timeout, result_status, elapsed, slots>>

\* An operation released while it was queued.  (CANOperationRunOnce also looks for
\* one that is completed; ResultsAreFinal says that it finds none.)
RunError(o) ==
    /\ state[o] = "IDLE"
    /\ result_status' = [result_status EXCEPT ![o] = "EBUSY"]
    /\ RemoveCurrent
    /\ UNCHANGED <<in_use, state, timeout, deadline_started, elapsed>>

\* CANServicePollOne, -RunOne and -DispatchOne.
RunOne ==
    /\ budget = 0
    /\ slots # <<>>
    /\ \/ \E outcome \in Outcomes : Complete(Current, outcome)
       \/ StayPending(Current)
       \/ RunError(Current)
    /\ UNCHANGED <<budget, poll_status>>

-----------------------------------------------------------------------------
(* CANServicePoll: CANExecutorRunUntilIdle.                                *)

StartPoll ==
    /\ budget = 0
    /\ budget' = MaxSteps
    /\ UNCHANGED <<in_use, opVars, slots, next_index, poll_status>>

Return(status) == budget' = 0 /\ poll_status' = status

PollIdle ==
    /\ budget > 0
    /\ slots = <<>>
    /\ Return("OK")
    /\ UNCHANGED <<in_use, opVars, slots, next_index>>

\* Mutant: the end of the budget is a success.
MutSpendStep ==
    IF budget > 1 THEN budget' = budget - 1 /\ UNCHANGED poll_status
    ELSE Return("OK")

SpendStep ==
    IF budget > 1 THEN budget' = budget - 1 /\ UNCHANGED poll_status
    ELSE Return(IF slots' = <<>> THEN "OK" ELSE "EBUSY")

PollStep ==
    /\ budget > 0
    /\ slots # <<>>
    /\ \/ \E outcome \in Outcomes : Complete(Current, outcome)
       \/ StayPending(Current)
    /\ SpendStep

PollError ==
    /\ budget > 0
    /\ slots # <<>>
    /\ RunError(Current)
    /\ Return("EINVAL")

Tick ==
    /\ elapsed' = [o \in Ops |->
           IF deadline_started[o] /\ elapsed[o] < TimeoutTicks THEN elapsed[o] + 1
           ELSE elapsed[o]]
    /\ UNCHANGED <<in_use, state, timeout, deadline_started, result_status,
                   slots, next_index, budget, poll_status>>

Run == RunOne \/ PollIdle \/ PollStep \/ PollError

Next ==
    \/ \E o \in Ops, t \in Timeouts : Submit(o, t)
    \/ \E o \in Ops : Release(o)
    \/ StartPoll
    \/ Run
    \/ Tick

Spec == Init /\ [][Next]_vars

\* The caller keeps running its operations, and time passes.
FairSpec == Spec /\ WF_vars(Run) /\ WF_vars(Tick)

-----------------------------------------------------------------------------
(* Properties.                                                             *)

TypeOK ==
    /\ in_use \subseteq Ops
    /\ state \in [Ops -> {"IDLE", "PENDING", "COMPLETED"}]
    /\ timeout \in [Ops -> Timeouts]
    /\ deadline_started \in [Ops -> BOOLEAN]
    /\ result_status \in [Ops -> Outcomes \cup {"ETIMEOUT", "EBUSY"}]
    /\ elapsed \in [Ops -> 0..TimeoutTicks]
    /\ slots \in Seq(Ops) /\ Len(slots) <= Capacity
    /\ next_index \in 0..(Capacity - 1)
    /\ budget \in 0..MaxSteps
    /\ poll_status \in {"NONE", "OK", "EBUSY", "EINVAL"}

(* No operation is forgotten or run twice a round: what a caller holds has *)
(* a result or waits in one slot, although operations are released while   *)
(* they wait and acquired again while their old slot is still there.       *)
NothingForgotten ==
    /\ \A o \in Ops : o \in in_use <=> state[o] # "IDLE"
    /\ \A o \in Ops : state[o] = "PENDING" => Contains(slots, o)
    /\ \A i, j \in 1..Len(slots) : slots[i] = slots[j] => i = j

(* A finished operation is in no slot: no later turn of the executor can   *)
(* touch the result the caller reads.                                      *)
ResultsAreFinal ==
    \A o \in Ops : state[o] = "COMPLETED" => ~Contains(slots, o)

(* When CANServicePoll returns OK, every operation handed out has its      *)
(* result.                                                                 *)
PollOkMeansDone ==
    [][budget > 0 /\ budget' = 0 /\ poll_status' = "OK"
           => \A o \in in_use' : state'[o] = "COMPLETED"]_vars

(* When no more operations are submitted, those with a finite timeout end, *)
(* and those released while they waited leave their slots.                 *)
QuietDrains ==
    <>[][\A o \in Ops, t \in Timeouts : ~Submit(o, t)]_vars
        => \A o \in Ops :
             (Contains(slots, o) /\ timeout[o] # "INFINITE") ~> ~Contains(slots, o)
=============================================================================
