------------------------------ MODULE MCDoorEcu ------------------------------
(* Instances of DoorEcu for TLC.                                           *)
EXTENDS DoorEcu

\* Every frame the command payload can carry, after the mapping of STOP and NOP.
AllCommands == Cmd \X Cmd \X {"AUTO", "MANUAL"}

\* The frames sendDoorCanCommand sends: a door command alone, an open with the
\* ramp deployed, and the two manual ramp commands.
DriverCommands ==
    {<<"OPEN", "NONE", "AUTO">>, <<"CLOSE", "NONE", "AUTO">>,
     <<"OPEN", "OPEN", "MANUAL">>, <<"NONE", "OPEN", "MANUAL">>,
     <<"NONE", "CLOSE", "MANUAL">>}

\* Enough of them for every branch of the policy, in the liveness run.
LiveCommands ==
    {<<"OPEN", "OPEN", "MANUAL">>, <<"CLOSE", "NONE", "AUTO">>,
     <<"NONE", "CLOSE", "MANUAL">>}
=============================================================================
