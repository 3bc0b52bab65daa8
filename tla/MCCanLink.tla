----------------------------- MODULE MCCanLink ------------------------------
(* Two commands and two door states that differ in every field.            *)
EXTENDS CanLink

MCCommands == {
    [door |-> 1, ramp |-> 2, manual |-> TRUE, emergency |-> FALSE, reset |-> TRUE],
    [door |-> 2, ramp |-> 1, manual |-> FALSE, emergency |-> TRUE, reset |-> FALSE]}

MCViews == {
    [pinch |-> TRUE, door |-> 1, ramp |-> 2, fault |-> FALSE],
    [pinch |-> FALSE, door |-> 2, ramp |-> 1, fault |-> TRUE]}
=============================================================================
