--------------------------- MODULE OperationMutex ---------------------------
(***************************************************************************)
(* What the exclusive operation lock of a modem promises: one holder; a    *)
(* request for a free lock gets it; a release passes it on at once; an     *)
(* override request throws out everybody who waits, is the only one to     *)
(* wait after that, and no later request is ever accepted                  *)
(* (src/src/mm-iface-op-lock.h).                                           *)
(***************************************************************************)
CONSTANTS Requests, Override

VARIABLES
  holders,  \* who holds the lock
  waiting,  \* who waits for it
  closed    \* an override was requested

vars == <<holders, waiting, closed>>

Init == holders = {} /\ waiting = {} /\ closed = FALSE

(* Those who wait once r has asked.                                         *)
Kept(r) == IF r \in Override THEN {} ELSE waiting

Request(r) ==
  /\ ~closed
  /\ r \notin holders \union waiting
  /\ closed' = (r \in Override)
  /\ IF holders = {}
       THEN holders' = {r} /\ waiting' = Kept(r)
       ELSE holders' = holders /\ waiting' = Kept(r) \union {r}

Release(r) ==
  /\ holders = {r}
  /\ IF waiting = {}
       THEN holders' = {} /\ waiting' = {}
       ELSE \E q \in waiting : holders' = {q} /\ waiting' = waiting \ {q}
  /\ closed' = closed

Next == \E r \in Requests : Request(r) \/ Release(r)

Spec == Init /\ [][Next]_vars
=============================================================================
