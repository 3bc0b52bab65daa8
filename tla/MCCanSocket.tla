---------------------------- MODULE MCCanSocket -----------------------------
(* Two wrappers or bare sockets, two cores of the program, two nodes of    *)
(* one MCAN module.                                                        *)
EXTENDS CanSocket

CONSTANTS p1, p2, m1
MCModuleOf == [p \in {p1, p2} |-> m1]
=============================================================================
