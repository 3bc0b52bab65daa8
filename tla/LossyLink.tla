----------------------------- MODULE LossyLink ------------------------------
(***************************************************************************)
(* What one direction between two ECUs promises: the receiver takes        *)
(* messages that were sent, each at most once and in the order sent.  Any  *)
(* message may be lost on the way, and a restart forgets what was taken.   *)
(***************************************************************************)
EXTENDS Naturals, Sequences

CONSTANTS
    Messages,
    Nothing    \* what the receiver has taken when it starts

VARIABLES
    queue,     \* messages sent and neither taken nor lost
    got,       \* the last message taken
    flip       \* changes with every message taken, be it equal to the last

Init == queue = <<>> /\ got = Nothing /\ flip = FALSE

Send(m) == queue' = Append(queue, m) /\ UNCHANGED <<got, flip>>

Without(q, i) == [j \in 1..(Len(q) - 1) |-> IF j < i THEN q[j] ELSE q[j + 1]]

Lose(i) == queue' = Without(queue, i) /\ UNCHANGED <<got, flip>>

Take ==
    /\ queue # <<>>
    /\ got' = [received |-> TRUE, value |-> queue[1]]
    /\ flip' = ~flip
    /\ queue' = Without(queue, 1)

Forget == got' = Nothing /\ UNCHANGED <<queue, flip>>

Next ==
    \/ \E m \in Messages : Send(m)
    \/ \E i \in 1..Len(queue) : Lose(i)
    \/ Take
    \/ Forget

Spec == Init /\ [][Next]_<<queue, got, flip>>
=============================================================================
