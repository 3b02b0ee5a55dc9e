---------------------------- MODULE MCPortSerial ----------------------------
(* PortSerial for TLC: two ports of one modem.                                *)
EXTENDS PortSerial

CONSTANTS p1, p2, a1, a2, a3, b1

(* Three commands for p1, the first two the same cacheable query, the third   *)
(* one cancellable; one command for p2.                                       *)
MCPortOf == [c \in Cmds |-> IF c = b1 THEN p2 ELSE p1]

MCText == [c \in Cmds |-> IF c = a2 THEN a1 ELSE c]
=============================================================================
