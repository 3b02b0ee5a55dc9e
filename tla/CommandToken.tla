---------------------------- MODULE CommandToken ----------------------------
(***************************************************************************)
(* What the port scheduler promises (the "theory of operation" comment at  *)
(* the head of src/src/mm-port-scheduler-rr.c), without its array, index   *)
(* and timer: the ports that share a modem take turns, at most one of them *)
(* has a command on the wire, and only a port with something to send is    *)
(* given the turn.                                                         *)
(***************************************************************************)
CONSTANT Sources

VARIABLES
  waiting,  \* the sources whose command queue is not empty
  holder    \* the sources that were told to send and have not finished

Init == waiting = {} /\ holder = {}

(* Queues fill and empty by themselves.                                    *)
Enqueue(p) == waiting' = waiting \union {p} /\ UNCHANGED holder

Withdraw(p) == p \notin holder /\ waiting' = waiting \ {p} /\ UNCHANGED holder

Grant(p) ==
  /\ holder = {}
  /\ p \in waiting
  /\ holder' = {p}
  /\ UNCHANGED waiting

(* The source finishes, or goes away, with or without more to send.        *)
Release(p) ==
  /\ p \in holder
  /\ holder' = holder \ {p}
  /\ waiting' \in {waiting, waiting \ {p}}

Next == \E p \in Sources : Enqueue(p) \/ Withdraw(p) \/ Grant(p) \/ Release(p)

Spec == Init /\ [][Next]_<<waiting, holder>>
=============================================================================
