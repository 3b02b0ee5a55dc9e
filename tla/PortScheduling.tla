--------------------------- MODULE PortScheduling ---------------------------
(***************************************************************************)
(* The port scheduler at work: sources register, queue commands, are told  *)
(* to send, finish, and go away, in any order, around one scheduler and    *)
(* the main loop timer that drives it.  A source here keeps its side of    *)
(* the contract as long as it is registered: it calls                      *)
(* notify_command_done() once for every send-command it got.  What the     *)
(* serial port really does is in PortSerial.                               *)
(***************************************************************************)
EXTENDS PortSchedulerRR

CONSTANT MaxPending   \* bound: the longest command queue of a source

ASSUME MaxPendingAssumption == MaxPending \in Nat \ {0}

VARIABLES
  sched,     \* the scheduler object
  queue,     \* the length of each source's own command queue
  owes,      \* ghost: got a send-command that is not done yet
  dropped,   \* ghost: the array closed up at or before the running source
  overtook   \* ghost: the sources granted since p has been waiting

vars == <<sched, queue, owes, dropped, overtook>>

TypeOK ==
  /\ sched \in SchedulerType
  /\ queue \in [Sources -> 0 .. MaxPending]
  /\ owes \in SUBSET Sources
  /\ dropped \in BOOLEAN
  /\ overtook \in [Sources -> SUBSET Sources]

Init ==
  /\ sched = NewScheduler
  /\ queue = [p \in Sources |-> 0]
  /\ owes = {}
  /\ dropped = FALSE
  /\ overtook = [p \in Sources |-> {}]

Waiting(p) == queue[p] > 0 /\ p \notin owes

----------------------------------------------------------------------------
Register(p) ==
  /\ p \notin Registered(sched)
  /\ sched' = RegisterSource(sched, p)
  /\ UNCHANGED <<queue, owes, dropped, overtook>>

(* A command is queued: only the new depth is notified.                    *)
Submit(p) ==
  /\ p \in Registered(sched)
  /\ queue[p] < MaxPending
  /\ queue' = [queue EXCEPT ![p] = @ + 1]
  /\ sched' = NotifyNumPending(sched, p, queue[p] + 1)
  /\ overtook' = IF queue[p] = 0 THEN [overtook EXCEPT ![p] = {}] ELSE overtook
  /\ UNCHANGED <<owes, dropped>>

(* The queue is cleared while no command of the source is running.         *)
Cancel(p) ==
  /\ p \in Registered(sched)
  /\ Waiting(p)
  /\ queue' = [queue EXCEPT ![p] = 0]
  /\ sched' = NotifyNumPending(sched, p, 0)
  /\ UNCHANGED <<owes, dropped, overtook>>

(* The main loop fires the timer; the chosen source gets send-command.     *)
TimerFires ==
  /\ sched.timer
  /\ sched' = RunNext(sched)
  /\ IF AnyPending(sched)
       THEN LET q == SourceAt(sched', sched'.cur)
            IN  /\ owes' = owes \union {q}
                /\ overtook' = [p \in Sources |->
                                  IF p = q THEN {} ELSE overtook[p] \union {q}]
       ELSE UNCHANGED <<owes, overtook>>
  /\ UNCHANGED <<queue, dropped>>

Finish(p) ==
  /\ p \in owes
  /\ queue[p] > 0
  /\ owes' = owes \ {p}
  /\ queue' = [queue EXCEPT ![p] = @ - 1]
  /\ sched' = NotifyCommandDone(sched, p, queue[p] - 1)
  /\ overtook' = [overtook EXCEPT ![p] = {}]
  /\ UNCHANGED dropped

(* The source is disposed, possibly with a command running.  Shifted array  *)
(* indexes also move everybody's place in the round, so the overtaking      *)
(* record starts afresh.                                                    *)
Unregister(p) ==
  /\ p \in Registered(sched)
  /\ sched' = UnregisterSource(sched, p)
  /\ queue' = [queue EXCEPT ![p] = 0]
  /\ owes' = owes \ {p}
  /\ dropped' = (dropped \/ (sched.inCommand /\ IndexOf(sched, p) <= sched.cur))
  /\ overtook' = [q \in Sources |-> {}]

Next ==
  \/ \E p \in Sources : Register(p) \/ Submit(p) \/ Cancel(p)
  \/ \E p \in Sources : Finish(p) \/ Unregister(p)
  \/ TimerFires

(* The main loop dispatches an expired timer, and a source that was told to *)
(* send ends with a reply or with the serial timeout.                       *)
Fairness ==
  /\ WF_vars(TimerFires)
  /\ \A p \in Sources : WF_vars(Finish(p))

Spec == Init /\ [][Next]_vars /\ Fairness

----------------------------------------------------------------------------
(* At most one command is on the wire, whatever the sources register,       *)
(* queue, cancel and unregister: in_command in run_next_command and          *)
(* schedule_next_command.                                                    *)
OneCommand == \A p, q \in owes : p = q

(* in_command is only left set with nobody to clear it after a source was    *)
(* unregistered at or before the running one.  Anywhere else the scheduler   *)
(* waits for a source that will call notify_command_done().                  *)
NoStall == sched.inCommand /\ ~dropped => \E p \in owes : IsCurrent(sched, p)

(* What the scheduler believes of a queue is what the queue holds: no wake   *)
(* up is lost and no source is told to send from an empty queue.             *)
PendingIsQueue ==
  ~dropped => \A p \in Sources : sched.pending[p] = queue[p]

(* If somebody waits and nothing runs, the timer that will wake the next      *)
(* source is armed (schedule_next_command is called on every path).          *)
WakeupArmed ==
  (\E p \in Sources : Waiting(p)) /\ ~sched.inCommand => sched.timer

(* Round robin: while p waits, no other source is given the turn twice.      *)
RoundRobin ==
  [][\A q \in owes' \ owes : \A p \in Sources \ {q} :
        Waiting(p) => q \notin overtook[p]]_vars

(* Nobody starves: a source with queued commands is told to send, empties    *)
(* its queue otherwise, or a running source was unregistered.                *)
Served == \A p \in Sources : queue[p] > 0 ~> (queue[p] = 0 \/ p \in owes \/ dropped)

(* The scheduler implements the abstract turn taking.                        *)
Token == INSTANCE CommandToken
           WITH waiting <- {p \in Sources : queue[p] > 0}, holder <- owes

TokenSpec == Token!Spec

----------------------------------------------------------------------------
(* The inductive invariant behind OneCommand, NoStall, PendingIsQueue and    *)
(* WakeupArmed.                                                              *)

IInv ==
  /\ TypeOK
  /\ Distinct(sched)
  /\ owes \subseteq Registered(sched)
  /\ OneCommand
  /\ owes # {} => sched.inCommand
  /\ sched.timer => ~sched.inCommand
  /\ NoStall
  \* once an index at or before the running source is gone, its
  \* notify_command_done is ignored and in_command is never cleared
  /\ dropped => sched.inCommand /\ \A p \in owes : IndexOf(sched, p) < sched.cur
  /\ PendingIsQueue
  /\ \A p \in Sources \ Registered(sched) : queue[p] = 0
  /\ AnyPending(sched) /\ ~sched.inCommand => sched.timer
============================================================================
