----------------------------- MODULE PortSerial -----------------------------
(***************************************************************************)
(* Serial ports that share one round-robin scheduler                       *)
(* (src/src/mm-port-serial.c with src/src/mm-port-scheduler-rr.c), their    *)
(* users, and the device at the other end of the wires.                    *)
(*                                                                         *)
(* The daemon is one thread: a main loop source or a caller runs a handler *)
(* to its end, with every synchronous call it makes.  The handlers are     *)
(* operators from the daemon's state d to the set of states it may be left *)
(* in (users' completion callbacks, write errors and partial writes make   *)
(* it a set); an action picks one of them.                                 *)
(*                                                                         *)
(* The several bytes or EAGAIN retries of a command are one intermediate   *)
(* step ("part").  A command is submitted once; commands with the same     *)
(* Text share a reply cache entry.  The device answers commands in the     *)
(* order they reach it, may answer late or never, and may send data that   *)
(* parses as a response but answers nothing (Stray).                       *)
(***************************************************************************)
EXTENDS PortSchedulerRR

CONSTANTS
  Cmds,         \* the commands the users submit
  PortOf,       \* the port of each
  Text,         \* the bytes of each, the key of the reply cache
  Cacheable,    \* those with allow_cached
  RunFirst,     \* those with run_next
  Cancellable,  \* those with a GCancellable
  Users,        \* bound: how often a port is opened at the same time
  MaxStray,     \* bound: stray responses
  None, Stray

ASSUME PortSerialAssumption ==
  /\ PortOf \in [Cmds -> Sources]
  /\ UNION {Cacheable, RunFirst, Cancellable} \subseteq Cmds
  /\ Users \in Nat \ {0} /\ MaxStray \in Nat
  /\ None \notin Cmds \union {Stray} \union Nat /\ Stray \notin Cmds

VARIABLES
  d,        \* the daemon: sched, port, cmd, cache; see DaemonType
  wire,     \* what the device has answered or will answer, per port
  strays,   \* stray responses sent so far
  skewed,   \* ghost: ports whose answers were once out of step
  aborted   \* a g_assert failed

vars == <<d, wire, strays, skewed, aborted>>

Texts == {Text[c] : c \in Cmds}

Answers == Cmds \union {Stray}

PortType ==
  [openCount   : 0 .. Users,
   forced      : BOOLEAN,                       \* forced_close
   reopen      : {None} \union (0 .. Users),    \* initial_open_count of reopen_task
   connected   : BOOLEAN,                       \* in data mode
   queue       : Seq(Cmds),
   sendTimer   : BOOLEAN,                       \* queue_id
   waitTimer   : BOOLEAN,                       \* timeout_id
   watchCancel : {None} \union Cmds,            \* cancellable_id
   held        : 0 .. Users,                    \* ghost: opens the users have not closed
   lost        : {"no", "closed", "empty"}]     \* ghost: why no command-done will come

Outcomes == {"reply", "failed", "timeout", "cancelled", "closed"}

CmdType ==
  [state     : {"new", "queued"} \union Outcomes,
   sent      : {"no", "part", "all"},           \* started, done
   answer    : Answers \union {None},
   cancelled : BOOLEAN]

DaemonType ==
  [sched : SchedulerType,
   port  : [Sources -> PortType],
   cmd   : [Cmds -> CmdType],
   cache : [Sources -> [Texts -> Answers \union {None}]]]

TypeOK ==
  /\ d \in DaemonType
  /\ wire \in [Sources -> Seq(Answers)]
  /\ strays \in 0 .. MaxStray
  /\ skewed \in SUBSET Sources
  /\ aborted \in BOOLEAN

NewPort ==
  [openCount |-> 0, forced |-> FALSE, reopen |-> None, connected |-> FALSE,
   queue |-> <<>>, sendTimer |-> FALSE, waitTimer |-> FALSE, watchCancel |-> None,
   held |-> 0, lost |-> "no"]

NewCmd == [state |-> "new", sent |-> "no", answer |-> None, cancelled |-> FALSE]

(* The ports have registered with the scheduler, one after another.          *)
Init ==
  /\ d = [sched |-> [NewScheduler EXCEPT !.sources = SetToSeq(Sources)],
          port  |-> [p \in Sources |-> NewPort],
          cmd   |-> [c \in Cmds |-> NewCmd],
          cache |-> [p \in Sources |-> [t \in Texts |-> None]]]
  /\ wire = [p \in Sources |-> <<>>]
  /\ strays = 0
  /\ skewed = {}
  /\ aborted = FALSE

----------------------------------------------------------------------------
(* Helpers.                                                                *)

Queue(x, p) == x.port[p].queue

IsOpen(x, p) == x.port[p].openCount > 0

(* A command of p is being sent or waits for its response.                 *)
InFlight(x, p) == x.port[p].sendTimer \/ x.port[p].waitTimer

HasTurn(x, p) == x.sched.inCommand /\ IsCurrent(x.sched, p)

(* common_input_available reads: watch enabled, and the head of the queue   *)
(* not half sent.                                                           *)
Reads(x, p) ==
  /\ IsOpen(x, p)
  /\ ~x.port[p].connected
  /\ Queue(x, p) # <<>> => x.cmd[Head(Queue(x, p))].sent # "part"

NotifyPending(x, p) ==
  [x EXCEPT !.sched = NotifyNumPending(@, p, Len(Queue(x, p)))]

(* Mutant: only the depth is notified, as if a command had been queued.     *)
CommandDoneAsPending(x, p) == NotifyPending(x, p)

CommandDone(x, p) ==
  [x EXCEPT !.sched        = NotifyCommandDone(@, p, Len(Queue(x, p))),
            !.port[p].lost = IF IsCurrent(x.sched, p) THEN "no" ELSE @]

(* g_task_propagate_*(): a cancelled GCancellable wins over any result.     *)
Complete(x, c, outcome, answer) ==
  [x EXCEPT !.cmd[c] =
     [@ EXCEPT !.state = IF x.cmd[c].cancelled THEN "cancelled" ELSE outcome, !.answer = answer]]

----------------------------------------------------------------------------
(* Mutants: the scheduler is not told of the new command; every command is  *)
(* pushed to the head of the queue.                                         *)
CommandUntold(x, c) ==
  IF IsOpen(x, PortOf[c])
    THEN [x EXCEPT !.cmd[c].state = "queued", !.port[PortOf[c]].queue = Append(@, c)]
    ELSE Complete(x, c, "failed", None)

CommandAlwaysFirst(x, c) ==
  IF IsOpen(x, PortOf[c])
    THEN NotifyPending([x EXCEPT !.cmd[c].state = "queued",
                                 !.port[PortOf[c]].queue = <<c>> \o @], PortOf[c])
    ELSE Complete(x, c, "failed", None)

(* mm_port_serial_command                                                   *)
Command(x, c) ==
  LET p == PortOf[c]
      cleared == IF c \in Cacheable THEN x ELSE [x EXCEPT !.cache[p][Text[c]] = None]
      queued  == [cleared EXCEPT
                    !.cmd[c].state  = "queued",
                    !.port[p].queue = IF c \in RunFirst THEN <<c>> \o @ ELSE Append(@, c)]
  IN  IF IsOpen(x, p) THEN NotifyPending(queued, p) ELSE Complete(x, c, "failed", None)

(* _close_internal, once the open count reaches zero.                       *)
Shut(x, p) ==
  LET shut  == [x.port[p] EXCEPT !.openCount = 0, !.connected = FALSE, !.queue = <<>>,
                                 !.sendTimer = FALSE, !.waitTimer = FALSE,
                                 !.watchCancel = None,
                                 !.lost = IF HasTurn(x, p) THEN "closed" ELSE @]
      ended == [c \in Cmds |-> IF c \in Range(Queue(x, p))
                                 THEN Complete(x, c, "closed", None).cmd[c] ELSE x.cmd[c]]
  IN  NotifyPending([x EXCEPT !.port[p] = shut, !.cmd = ended], p)

(* mm_port_serial_close by a user.  While the port is being reopened the    *)
(* count is zero and the close has no effect.                               *)
Close(x, p) ==
  LET left == [x EXCEPT !.port[p].held = @ - 1]
  IN  IF x.port[p].forced \/ ~IsOpen(x, p) THEN left
      ELSE IF x.port[p].openCount > 1 THEN [left EXCEPT !.port[p].openCount = @ - 1]
      ELSE Shut(left, p)

(* port_serial_close_force: also cancels a reopen.                          *)
CloseForce(x, p) ==
  LET forced == [x EXCEPT !.port[p].forced = TRUE, !.port[p].reopen = None]
  IN  IF x.port[p].forced THEN x
      ELSE IF IsOpen(x, p) THEN Shut(forced, p) ELSE forced

(* What a completion callback may do before it returns: the next command of *)
(* a sequence is submitted from it, or the port is closed.  (Shut calls none: *)
(* on a port that is closed a command fails and a close has no effect, as     *)
(* they do when they follow.)                                               *)
Callback(x, p) ==
  {x} \union {Command(x, c) : c \in {e \in Cmds : x.cmd[e].state = "new"}}
      \union (IF x.port[p].held > 0 THEN {Close(x, p)} ELSE {})

(* Mutant: the completed command stays in the queue.                        *)
GotResponsePeek(x, p, outcome, answer) ==
  IF Queue(x, p) = <<>> THEN {x}
  ELSE {CommandDone(Complete([x EXCEPT !.port[p].waitTimer = FALSE],
                             Head(Queue(x, p)), outcome, answer), p)}

(* port_serial_got_response: whatever is at the head is completed.          *)
GotResponse(x, p, outcome, answer) ==
  LET idle   == [x EXCEPT !.port[p] = [@ EXCEPT !.waitTimer = FALSE, !.watchCancel = None]]
      c      == Head(Queue(x, p))
      popped == [idle EXCEPT !.port[p].queue = Tail(@)]
      cached == IF outcome = "reply" /\ c \in Cacheable
                  THEN [popped EXCEPT !.cache[p][Text[c]] = answer] ELSE popped
  IN  IF Queue(x, p) = <<>> THEN {idle}
      ELSE {CommandDone(y, p) : y \in Callback(Complete(cached, c, outcome, answer), p)}

----------------------------------------------------------------------------
(* port_serial_queue_process.  The last byte is written: wait for the       *)
(* response, or end at once if the command is already cancelled.            *)
Wait(x, p, c) ==
  LET watch   == IF c \in Cancellable THEN c ELSE x.port[p].watchCancel
      waiting == [x EXCEPT !.port[p] = [@ EXCEPT !.waitTimer = TRUE, !.watchCancel = watch]]
  IN  IF x.cmd[c].cancelled THEN GotResponse(x, p, "cancelled", None) ELSE {waiting}

(* The results, each with the answers the device will then give: a command   *)
(* that was already sent whole goes out again, or just a byte after its end. *)
Written(x, w, p, c) ==
  LET all   == [x EXCEPT !.cmd[c].sent = "all"]
      wires == IF x.cmd[c].sent = "all" THEN {w, [w EXCEPT ![p] = Append(@, c)]}
                                        ELSE {[w EXCEPT ![p] = Append(@, c)]}
  IN  {[state |-> y, wire |-> v] : y \in Wait(all, p, c), v \in wires}

(* Mutant: the cache answers with the reply to any command.                 *)
AnyCached(x, p, c) ==
  IF \E t \in Texts : x.cache[p][t] # None
    THEN x.cache[p][CHOOSE t \in Texts : x.cache[p][t] # None]
    ELSE None

(* port_serial_get_cached_reply                                             *)
Cached(x, p, c) == x.cache[p][Text[c]]

QueueProcess(x, w, p) ==
  LET c      == Head(Queue(x, p))
      now    == [x EXCEPT !.port[p].sendTimer = FALSE]
      hit    == Cached(x, p, c)
      unsent == x.port[p].connected
      same(states) == {[state |-> y, wire |-> w] : y \in states}
  IN  IF Queue(x, p) = <<>>
        THEN same({IF HasTurn(x, p) THEN [now EXCEPT !.port[p].lost = "empty"] ELSE now})
      ELSE IF c \in Cacheable /\ hit # None
        THEN same(GotResponse(now, p, "reply", hit))
      ELSE same(GotResponse(now, p, "failed", None))
             \union (IF unsent THEN {} ELSE Written(now, w, p, c))
             \union (IF unsent \/ x.cmd[c].sent # "no" THEN {}
                     ELSE same({[now EXCEPT !.cmd[c].sent = "part",
                                            !.port[p].sendTimer = TRUE]}))

----------------------------------------------------------------------------
(* The ghost skewed: p is in step when nothing is on its wire but the answer *)
(* its user waits for.                                                      *)
InStep(x, w, p) ==
  \/ w[p] = <<>>
  \/ x.port[p].waitTimer /\ Queue(x, p) # <<>> /\ w[p] = <<Head(Queue(x, p))>>

WatchSkew == skewed' = skewed \union {p \in Sources : ~InStep(d', wire', p)}

----------------------------------------------------------------------------
(* Actions.                                                                *)

(* Mutant: a port can be opened while it is being reopened.                 *)
OpenWhileReopening(p) ==
  /\ ~aborted /\ ~d.port[p].forced /\ ~d.port[p].connected
  /\ d.port[p].held < Users /\ d.port[p].openCount < Users
  /\ d' = [d EXCEPT !.port[p].openCount = @ + 1, !.port[p].held = @ + 1]
  /\ UNCHANGED <<wire, strays, aborted>> /\ WatchSkew

(* mm_port_serial_open.  (A failing open changes nothing.)                  *)
Open(p) ==
  /\ ~aborted
  /\ ~d.port[p].forced
  /\ d.port[p].reopen = None
  /\ ~d.port[p].connected
  /\ d.port[p].held < Users /\ d.port[p].openCount < Users
  /\ d' = [d EXCEPT !.port[p].openCount = @ + 1, !.port[p].held = @ + 1]
  /\ UNCHANGED <<wire, strays, aborted>> /\ WatchSkew

CloseByUser(p) ==
  /\ ~aborted
  /\ d.port[p].held > 0
  /\ d' = Close(d, p)
  /\ UNCHANGED <<wire, strays, aborted>> /\ WatchSkew

(* G_IO_HUP on the watched channel, or dispose.                             *)
Hangup(p) ==
  /\ ~aborted
  /\ IsOpen(d, p)
  /\ d' = CloseForce(d, p)
  /\ UNCHANGED <<wire, strays, aborted>> /\ WatchSkew

(* mm_port_serial_reopen closes the port as often as it is open.            *)
Reopen(p) ==
  /\ ~aborted
  /\ ~d.port[p].forced
  /\ d.port[p].reopen = None
  /\ LET n == d.port[p].openCount
         shut == IF n > 0 THEN Shut(d, p) ELSE d
     IN  d' = [shut EXCEPT !.port[p].reopen = n]
  /\ UNCHANGED <<wire, strays, aborted>> /\ WatchSkew

(* reopen_do: an open that fails forces the port closed.                    *)
ReopenTimer(p) ==
  /\ ~aborted
  /\ d.port[p].reopen # None
  /\ LET due == [d EXCEPT !.port[p].reopen = None]
     IN  d' \in {[due EXCEPT !.port[p].openCount = @ + d.port[p].reopen]}
                  \union (IF d.port[p].reopen > 0 THEN {CloseForce(due, p)} ELSE {})
  /\ UNCHANGED <<wire, strays, aborted>> /\ WatchSkew

(* mm_port_set_connected: PPP takes the data over, or gives it back.        *)
SetConnected(p) ==
  /\ ~aborted
  /\ IsOpen(d, p)
  /\ d' = [d EXCEPT !.port[p].connected = ~@]
  /\ UNCHANGED <<wire, strays, aborted>> /\ WatchSkew

Submit(c) ==
  /\ ~aborted
  /\ d.cmd[c].state = "new"
  /\ d' = Command(d, c)
  /\ UNCHANGED <<wire, strays, aborted>> /\ WatchSkew

(* run_next_command, with the send-command signal in scheduler_send_command *)
(* of the chosen port.                                                      *)
SchedTimer ==
  /\ ~aborted
  /\ d.sched.timer
  /\ LET x == [d EXCEPT !.sched = RunNext(@)]
         p == SourceAt(x.sched, x.sched.cur)
     IN  IF ~AnyPending(d.sched)
           THEN d' = x /\ UNCHANGED <<wire, aborted>>
         ELSE IF InFlight(x, p)
           THEN aborted' = TRUE /\ UNCHANGED <<d, wire>>
         ELSE /\ \E r \in QueueProcess(x, wire, p) : d' = r.state /\ wire' = r.wire
              /\ UNCHANGED aborted
  /\ UNCHANGED strays /\ WatchSkew

(* The rest of a half-sent command.                                         *)
QueueTimer(p) ==
  /\ ~aborted
  /\ d.port[p].sendTimer
  /\ IF d.port[p].waitTimer
       THEN aborted' = TRUE /\ UNCHANGED <<d, wire>>
       ELSE /\ \E r \in QueueProcess(d, wire, p) : d' = r.state /\ wire' = r.wire
            /\ UNCHANGED aborted
  /\ UNCHANGED strays /\ WatchSkew

(* parse_response_buffer: the i-th answer arrives, those before it are lost. *)
Deliver(p) ==
  /\ ~aborted
  /\ Reads(d, p)
  /\ \E i \in 1 .. Len(wire[p]), outcome \in {"reply", "failed"} :
       /\ d' \in GotResponse(d, p, outcome, wire[p][i])
       /\ wire' = [wire EXCEPT ![p] = SubSeq(@, i + 1, Len(@))]
  /\ UNCHANGED <<strays, aborted>> /\ WatchSkew

(* port_serial_timed_out                                                    *)
Timeout(p) ==
  /\ ~aborted
  /\ d.port[p].waitTimer
  /\ d' \in GotResponse([d EXCEPT !.port[p].waitTimer = FALSE], p, "timeout", None)
  /\ UNCHANGED <<wire, strays, aborted>> /\ WatchSkew

(* g_cancellable_cancel, with port_serial_response_wait_cancelled when the  *)
(* port waits for the response.  A command still in the queue stays there.  *)
Cancel(c) ==
  /\ ~aborted
  /\ c \in Cancellable
  /\ d.cmd[c].state = "queued" /\ ~d.cmd[c].cancelled
  /\ LET x == [d EXCEPT !.cmd[c].cancelled = TRUE]
         p == PortOf[c]
     IN  IF d.port[p].watchCancel = c
           THEN d' \in GotResponse(x, p, "cancelled", None)
           ELSE d' = x
  /\ UNCHANGED <<wire, strays, aborted>> /\ WatchSkew

(* The device sends what parses as a response.                              *)
DeviceStray(p) ==
  /\ ~aborted
  /\ strays < MaxStray
  /\ wire' = [wire EXCEPT ![p] = Append(@, Stray)]
  /\ strays' = strays + 1
  /\ UNCHANGED <<d, aborted>> /\ WatchSkew

----------------------------------------------------------------------------
PortAction(p) ==
  \/ Open(p) \/ CloseByUser(p) \/ Hangup(p)
  \/ Reopen(p) \/ ReopenTimer(p) \/ SetConnected(p)
  \/ QueueTimer(p) \/ Deliver(p) \/ Timeout(p) \/ DeviceStray(p)

Next ==
  \/ \E p \in Sources : PortAction(p)
  \/ \E c \in Cmds : Submit(c) \/ Cancel(c)
  \/ SchedTimer

(* The main loop runs a source that is due; users and the device owe        *)
(* nothing.                                                                 *)
Fairness ==
  /\ WF_vars(SchedTimer)
  /\ \A p \in Sources :
       WF_vars(QueueTimer(p)) /\ WF_vars(Timeout(p)) /\ WF_vars(ReopenTimer(p))

Spec == Init /\ [][Next]_vars /\ Fairness

----------------------------------------------------------------------------
(* Every command a user submitted to an open port is in the queue of that    *)
(* port once until it has ended, and ended commands are in no queue, through *)
(* callbacks that submit or close in the middle of a completion.             *)
QueueExact ==
  \A p \in Sources :
    LET waiting == {c \in Cmds : PortOf[c] = p /\ d.cmd[c].state = "queued"}
    IN  Range(Queue(d, p)) = waiting /\ Len(Queue(d, p)) = Cardinality(waiting)

(* While in_command is set, the source whose turn it is has a timer that will *)
(* end it, or it is one of the two known losses: closed in its turn, or told  *)
(* to send from an empty queue.                                              *)
NoPortStall ==
  d.sched.inCommand =>
    \E p \in Sources : HasTurn(d, p) /\ (InFlight(d, p) \/ d.port[p].lost # "no")

(* The asserts of scheduler_send_command and port_serial_queue_process.       *)
NoAbort == ~aborted

(* As long as the answers on the wire of a port are in step, every reply a    *)
(* user gets, cached or not, answers the bytes of the command; and without    *)
(* allow_cached it answers this very command.                                 *)
AnswerIsForCommand ==
  \A c \in Cmds :
    d.cmd[c].state = "reply" /\ PortOf[c] \notin skewed =>
      /\ d.cmd[c].answer \in Cmds
      /\ Text[d.cmd[c].answer] = Text[c]
      /\ c \notin Cacheable => d.cmd[c].answer = c

(* Answers only get out of step when a command that was sent ends without     *)
(* its answer (the FIXMEs of port_serial_timed_out and                        *)
(* port_serial_response_wait_cancelled, and a close), when the device sends a *)
(* stray, or when a run_next command that is submitted in this very step      *)
(* overtakes the one in flight.                                               *)
Ends(c, outcomes) == d.cmd[c].state \in {"new", "queued"} /\ d'.cmd[c].state \in outcomes

SkewCause ==
  [][\A p \in skewed' \ skewed :
       \/ strays' # strays
       \/ \E c \in Cmds :
            /\ PortOf[c] = p
            /\ \/ d'.cmd[c].sent = "all" /\ Ends(c, {"timeout", "cancelled", "closed"})
               \/ c \in RunFirst /\ d.cmd[c].state = "new" /\ d'.cmd[c].state # "new"]_vars

(* The open count is what the users hold, also through a reopen; only a user  *)
(* closing a port while it is being reopened unbalances it.                   *)
Balanced(x, p) ==
  \/ x.port[p].forced
  \/ x.port[p].held = IF x.port[p].reopen = None THEN x.port[p].openCount
                                                 ELSE x.port[p].reopen

OpenCountKept ==
  [][\A p \in Sources :
       Balanced(d, p) /\ ~Balanced(d', p) =>
         d.port[p].reopen # None /\ d'.port[p].held < d.port[p].held]_vars

(* Every submitted command ends, unless a turn was lost.                      *)
EveryCommandEnds ==
  \A c \in Cmds :
    d.cmd[c].state = "queued" ~>
      \/ d.cmd[c].state # "queued"
      \/ \E p \in Sources : d.port[p].lost # "no"

----------------------------------------------------------------------------
(* mm-port-scheduler-rr.c:34-36: a source that was told to send always calls  *)
(* notify_command_done(), so every command queued behind it ends.             *)
EveryTurnEnds == \A c \in Cmds : d.cmd[c].state = "queued" ~> d.cmd[c].state # "queued"
=============================================================================
