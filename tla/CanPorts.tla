------------------------------ MODULE CanPorts ------------------------------
(***************************************************************************)
(* What the life cycle of the CAN library promises about the ports of a    *)
(* board: a port has at most one holder at a time, and a client holds at   *)
(* most one port.                                                          *)
(***************************************************************************)
CONSTANTS
    Clients,   \* the cores that open ports
    Ports,     \* the CAN ports of the board
    Nobody     \* the holder of a free port

VARIABLE holder

Init == holder = [p \in Ports |-> Nobody]

\* A client takes a free port, giving up the one it held before.
Take(c, p) ==
    /\ holder[p] = Nobody
    /\ holder' = [q \in Ports |->
           IF q = p THEN c ELSE IF holder[q] = c THEN Nobody ELSE holder[q]]

GiveBack(c) ==
    holder' = [q \in Ports |-> IF holder[q] = c THEN Nobody ELSE holder[q]]

Next == \E c \in Clients : GiveBack(c) \/ \E p \in Ports : Take(c, p)

Spec == Init /\ [][Next]_holder
=============================================================================
