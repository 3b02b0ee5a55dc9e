-------------------------- MODULE PortSerialProofs --------------------------
(***************************************************************************)
(* Proofs about PortSerial for any ports, commands and users: whatever the *)
(* completion callbacks do in the middle of a handler, the queues hold     *)
(* exactly the commands that wait, the turn is given back or recorded as   *)
(* lost, and the answers that a user gets are those of its command.        *)
(***************************************************************************)
EXTENDS PortSerial, TLAPS, SequenceTheorems, FiniteSetTheorems,
        WellFoundedInduction

----------------------------------------------------------------------------
(* The walk of find_next_source.                                           *)

(* Every place the search of find_next_source looks at is an index of the *)
(* array of sources.                                                      *)
LEMMA VisitedIndex ==
  ASSUME NEW s \in SchedulerType, NEW i \in Indexes(s)
  PROVE  Visited(s, i) \in Indexes(s)
<1>1. Len(s.sources) \in Nat /\ s.cur \in Nat
  BY DEF SchedulerType
<1>2. FirstVisited(s) \in Indexes(s)
  BY <1>1 DEF FirstVisited, Indexes
<1> QED BY <1>1, <1>2 DEF Visited, Indexes

(* The search of find_next_source visits every index: it starts behind    *)
(* the current source and wraps around once.                              *)
LEMMA EveryIndexVisited ==
  ASSUME NEW s \in SchedulerType, NEW idx \in Indexes(s)
  PROVE  \E i \in Indexes(s) : Visited(s, i) = idx
<1>1. Len(s.sources) \in Nat /\ s.cur \in Nat
  BY DEF SchedulerType
<1>2. FirstVisited(s) \in Indexes(s)
  BY <1>1 DEF FirstVisited, Indexes
<1>3. CASE idx >= FirstVisited(s)
  <2>1. idx - FirstVisited(s) \in Indexes(s)
    BY <1>1, <1>2, <1>3 DEF Indexes
  <2>2. Visited(s, idx - FirstVisited(s)) = idx
    BY <1>1, <1>2, <1>3 DEF Visited, Indexes
  <2> QED BY <2>1, <2>2
<1>4. CASE idx < FirstVisited(s)
  <2>1. idx - FirstVisited(s) + Len(s.sources) \in Indexes(s)
    BY <1>1, <1>2, <1>4 DEF Indexes
  <2>2. Visited(s, idx - FirstVisited(s) + Len(s.sources)) = idx
    BY <1>1, <1>2, <1>4 DEF Visited, Indexes
  <2> QED BY <2>1, <2>2
<1> QED BY <1>1, <1>2, <1>3, <1>4 DEF Indexes

(* A nonempty set of naturals has a least element: the initial segments     *)
(* 0..i of its elements are finite, and strict inclusion of finite sets is  *)
(* well founded.                                                            *)
LEMMA LeastElement ==
  ASSUME NEW T \in SUBSET Nat, T # {}
  PROVE  \E i \in T : \A j \in T : ~(j < i)
<1> DEFINE Segments == {0 .. i : i \in T}
<1>1. Segments \subseteq FiniteSubsetsOf(Nat)
  <2>1. \A i \in T : IsFiniteSet(0 .. i)
    BY FS_Interval
  <2> QED BY <2>1 DEF FiniteSubsetsOf
<1>2. Segments # {}
  OBVIOUS
<1>3. PICK m \in Segments : \A y \in Segments : ~(<<y, m>> \in StrictSubsetOrdering(Nat))
  <2> HIDE DEF Segments
  <2> QED BY <1>1, <1>2, FS_StrictSubsetOrderingWellFounded, WFMin
<1>4. PICK i \in T : m = 0 .. i
  OBVIOUS
<1>5. ASSUME NEW j \in T, j < i PROVE FALSE
  <2>1. 0 .. j \in SUBSET Nat /\ 0 .. i \in SUBSET Nat
    OBVIOUS
  <2>2. 0 .. j \subseteq 0 .. i
    BY <1>5
  <2>3. i \in 0 .. i /\ i \notin 0 .. j
    BY <1>5
  <2>4. <<0 .. j, 0 .. i>> \in StrictSubsetOrdering(Nat)
    BY <2>1, <2>2, <2>3 DEF StrictSubsetOrdering
  <2> QED BY <1>3, <1>4, <2>4
<1> QED BY <1>5

(* find_next_source finds a source with a command whenever there is one.   *)
LEMMA NextIndexPending ==
  ASSUME NEW s \in SchedulerType, AnyPending(s)
  PROVE  NextIndex(s) \in Indexes(s) /\ HasCommand(s, NextIndex(s))
<1> DEFINE T == {i \in Indexes(s) : HasCommand(s, Visited(s, i))}
<1>1. Len(s.sources) \in Nat
  BY DEF SchedulerType
<1>2. T # {}
  BY EveryIndexVisited DEF AnyPending
<1>3. T \in SUBSET Nat
  BY <1>1 DEF Indexes
<1>4. PICK i \in T : \A j \in T : ~(j < i)
  BY <1>2, <1>3, LeastElement
<1>5. \A j \in 0 .. i - 1 : j \in Indexes(s) /\ j < i
  BY <1>1, <1>4 DEF Indexes
<1>6. i \in Indexes(s) /\ IsNext(s, i)
  BY <1>4, <1>5 DEF IsNext
<1>7. \A k \in Indexes(s) : IsNext(s, k) => HasCommand(s, Visited(s, k))
  BY DEF IsNext
<1> QED BY <1>6, <1>7, VisitedIndex DEF NextIndex

----------------------------------------------------------------------------
(* What the entry points of the scheduler do to the fields of the record.  *)

(* A source that is registered has an index in the array.                 *)
LEMMA IndexOfRegistered ==
  ASSUME NEW s \in SchedulerType, NEW p \in Registered(s)
  PROVE  IndexOf(s, p) \in Indexes(s) /\ SourceAt(s, IndexOf(s, p)) = p
<1>1. Len(s.sources) \in Nat
  BY DEF SchedulerType
<1>2. PICK i \in 1 .. Len(s.sources) : s.sources[i] = p
  BY DEF Registered
<1>3. i - 1 \in Indexes(s) /\ SourceAt(s, i - 1) = p
  BY <1>1, <1>2 DEF Indexes, SourceAt
<1> QED BY <1>3 DEF IndexOf

(* With distinct sources an index determines its source and conversely.    *)
LEMMA IndexOfSourceAt ==
  ASSUME NEW s \in SchedulerType, Distinct(s), NEW idx \in Indexes(s)
  PROVE  /\ SourceAt(s, idx) \in Registered(s)
         /\ SourceAt(s, idx) \in Sources
         /\ IndexOf(s, SourceAt(s, idx)) = idx
<1>1. Len(s.sources) \in Nat /\ s.sources \in Seq(Sources)
  BY DEF SchedulerType
<1>2. idx + 1 \in 1 .. Len(s.sources)
  BY <1>1 DEF Indexes
<1>3. SourceAt(s, idx) \in Registered(s) /\ SourceAt(s, idx) \in Sources
  BY <1>1, <1>2 DEF SourceAt, Registered
<1>4. \A j \in Indexes(s) : SourceAt(s, j) = SourceAt(s, idx) => j = idx
  BY <1>1, <1>2 DEF Distinct, SourceAt, Indexes
<1> QED BY <1>3, <1>4, IndexOfRegistered

(* schedule_next_command changes nothing but the timer, which it arms if  *)
(* no command runs and some source has commands.                          *)
LEMMA ScheduleNextEffect ==
  ASSUME NEW s \in SchedulerType, NEW t, t = ScheduleNext(s)
  PROVE  /\ t \in SchedulerType
         /\ t.sources = s.sources
         /\ t.pending = s.pending
         /\ t.cur = s.cur
         /\ t.inCommand = s.inCommand
         /\ t.timer = (s.timer \/ (~s.inCommand /\ AnyPending(s)))
BY Zenon DEF ScheduleNext, SchedulerType

(* mm_port_scheduler_notify_num_pending stores the number and arms the    *)
(* timer where that makes it necessary.                                   *)
LEMMA NotifyEffect ==
  ASSUME NEW s \in SchedulerType, NEW p \in Registered(s), p \in Sources, NEW n \in Nat,
         AnyPending(s) /\ ~s.inCommand => s.timer,
         NEW t, t = NotifyNumPending(s, p, n)
  PROVE  /\ t \in SchedulerType
         /\ t.sources = s.sources
         /\ t.pending = [s.pending EXCEPT ![p] = n]
         /\ t.cur = s.cur /\ t.inCommand = s.inCommand
         /\ t.timer => s.timer \/ ~s.inCommand
         /\ AnyPending(t) /\ ~t.inCommand => t.timer
<1>1. PICK depth : depth = [s.pending EXCEPT ![p] = n]
  OBVIOUS
<1>2. PICK r : r = [s EXCEPT !.pending = depth]
  OBVIOUS
<1>3. depth \in [Sources -> Nat]
  BY <1>1 DEF SchedulerType
<1>4. /\ r \in SchedulerType
      /\ r.sources = s.sources /\ r.pending = depth
      /\ r.cur = s.cur /\ r.inCommand = s.inCommand /\ r.timer = s.timer
  BY <1>2, <1>3, Zenon DEF SchedulerType
<1>5. CASE s.pending[p] # n
  <2>1. t = ScheduleNext(r)
    BY <1>1, <1>2, <1>5, Zenon DEF NotifyNumPending
  <2>2. /\ t \in SchedulerType
        /\ t.sources = r.sources /\ t.pending = r.pending
        /\ t.cur = r.cur /\ t.inCommand = r.inCommand
        /\ t.timer = (r.timer \/ (~r.inCommand /\ AnyPending(r)))
    BY <1>4, <2>1, ScheduleNextEffect
  <2>3. AnyPending(t) = AnyPending(r)
    BY <1>4, <2>2, Zenon DEF AnyPending, HasCommand, SourceAt, Indexes
  <2> QED BY <1>1, <1>4, <2>2, <2>3, Zenon
<1>6. CASE s.pending[p] = n
  <2>1. t = s
    BY <1>6, Zenon DEF NotifyNumPending
  <2>2. s.pending = [s.pending EXCEPT ![p] = n]
    BY <1>6 DEF SchedulerType
  <2> QED BY <2>1, <2>2, Zenon
<1> QED BY <1>5, <1>6

(* mm_port_scheduler_notify_command_done of the current source ends its   *)
(* turn and arms the timer if anybody has commands.                       *)
LEMMA DoneEffect ==
  ASSUME NEW s \in SchedulerType, NEW p \in Registered(s), p \in Sources,
         IndexOf(s, p) = s.cur, NEW n \in Nat,
         NEW t, t = NotifyCommandDone(s, p, n)
  PROVE  /\ t \in SchedulerType
         /\ t.sources = s.sources
         /\ t.pending = [s.pending EXCEPT ![p] = n]
         /\ t.cur = s.cur /\ ~t.inCommand
         /\ AnyPending(t) => t.timer
<1>1. PICK depth : depth = [s.pending EXCEPT ![p] = n]
  OBVIOUS
<1>2. PICK r : r = [s EXCEPT !.inCommand = FALSE, !.pending = depth]
  OBVIOUS
<1>3. depth \in [Sources -> Nat]
  BY <1>1 DEF SchedulerType
<1>4. /\ r \in SchedulerType
      /\ r.sources = s.sources /\ r.pending = depth
      /\ r.cur = s.cur /\ r.inCommand = FALSE /\ r.timer = s.timer
  BY <1>2, <1>3, Zenon DEF SchedulerType
<1>5. t = ScheduleNext(r)
  BY <1>1, <1>2, Zenon DEF NotifyCommandDone, IsCurrent
<1>6. /\ t \in SchedulerType
      /\ t.sources = s.sources /\ t.pending = depth
      /\ t.cur = s.cur /\ t.inCommand = FALSE
      /\ t.timer = (s.timer \/ (~r.inCommand /\ AnyPending(r)))
  BY <1>4, <1>5, ScheduleNextEffect, Zenon
<1>7. AnyPending(t) = AnyPending(r)
  BY <1>4, <1>6, Zenon DEF AnyPending, HasCommand, SourceAt, Indexes
<1> QED BY <1>1, <1>4, <1>6, <1>7, Zenon

(* run_next_command gives the turn to a source that has commands, and     *)
(* changes nothing but the timer if there is none.                        *)
LEMMA RunNextEffect ==
  ASSUME NEW s \in SchedulerType, NEW t, t = RunNext(s)
  PROVE  /\ t \in SchedulerType
         /\ t.sources = s.sources /\ t.pending = s.pending
         /\ t.timer = FALSE
         /\ AnyPending(s) => t.inCommand /\ t.cur \in Indexes(s) /\ HasCommand(s, t.cur)
         /\ ~AnyPending(s) => t.inCommand = s.inCommand /\ t.cur = s.cur
<1>1. CASE AnyPending(s)
  <2>1. PICK c : c = NextIndex(s)
    OBVIOUS
  <2>2. c \in Indexes(s) /\ HasCommand(s, c) /\ c \in Nat
    BY <1>1, <2>1, NextIndexPending DEF Indexes, SchedulerType
  <2>3. t = [s EXCEPT !.timer = FALSE, !.cur = c, !.inCommand = TRUE]
    BY <1>1, <2>1, Zenon DEF RunNext
  <2>4. /\ t \in SchedulerType
        /\ t.sources = s.sources /\ t.pending = s.pending
        /\ t.timer = FALSE /\ t.cur = c /\ t.inCommand = TRUE
    BY <2>2, <2>3, Zenon DEF SchedulerType
  <2> QED BY <1>1, <2>2, <2>4, Zenon
<1>2. CASE ~AnyPending(s)
  <2>1. t = [s EXCEPT !.timer = FALSE]
    BY <1>2, Zenon DEF RunNext
  <2> QED BY <1>2, <2>1, Zenon DEF SchedulerType
<1> QED BY <1>1, <1>2

(* Who is registered, and where, depends on the array only.                *)
LEMMA SameArray ==
  ASSUME NEW s, NEW t, t.sources = s.sources
  PROVE  /\ Registered(t) = Registered(s)
         /\ Distinct(t) = Distinct(s)
         /\ Indexes(t) = Indexes(s)
         /\ \A p : IndexOf(t, p) = IndexOf(s, p)
         /\ \A idx : SourceAt(t, idx) = SourceAt(s, idx)
BY Zenon DEF Registered, Distinct, Indexes, IndexOf, SourceAt

----------------------------------------------------------------------------
(* The inductive invariant.                                                *)

(* The scheduler between two handlers, with all ports registered.          *)
SchedOK(s) ==
  /\ s \in SchedulerType /\ Distinct(s) /\ Registered(s) = Sources
  /\ s.timer => ~s.inCommand
  /\ AnyPending(s) /\ ~s.inCommand => s.timer
  /\ s.inCommand => s.cur \in Indexes(s)

(* q holds every command of p that waits, once.                            *)
Holds(q, cmd, p) ==
  /\ \A i, j \in 1 .. Len(q) : q[i] = q[j] => i = j
  /\ \A i \in 1 .. Len(q) : PortOf[q[i]] = p /\ cmd[q[i]].state = "queued"
  /\ \A c \in Cmds : PortOf[c] = p /\ cmd[c].state = "queued" => \E i \in 1 .. Len(q) : q[i] = c

PortOK(pt) ==
  /\ pt.waitTimer => pt.queue # <<>> /\ ~pt.sendTimer
  /\ pt.watchCancel # None => pt.waitTimer
  /\ pt.reopen # None => pt.openCount = 0

Sound(x) ==
  /\ x \in DaemonType
  /\ SchedOK(x.sched)
  /\ \A p \in Sources : Holds(x.port[p].queue, x.cmd, p) /\ PortOK(x.port[p])

(* Whose turn it is, is at it, or its end is lost.                         *)
TurnOK(x) ==
  x.sched.inCommand =>
    \E p \in Sources : HasTurn(x, p) /\ (InFlight(x, p) \/ x.port[p].lost # "no")

(* Without commands that go first, only whose turn it is has a timer, and a *)
(* port that sends has sent a part of the head of its queue.                *)
SendsOK(x, p) ==
  /\ InFlight(x, p) => HasTurn(x, p)
  /\ x.port[p].sendTimer => Queue(x, p) # <<>> /\ x.cmd[Head(Queue(x, p))].sent = "part"

SendOK(x) == RunFirst = {} => \A p \in Sources : SendsOK(x, p)

(* The answers of the cache and of the users.                              *)
CacheOK(x, p) ==
  \A t \in Texts : x.cache[p][t] # None => x.cache[p][t] \in Cmds /\ Text[x.cache[p][t]] = t

ReplyOK(x, c) ==
  x.cmd[c].state = "reply" =>
    /\ x.cmd[c].answer \in Cmds /\ Text[x.cmd[c].answer] = Text[c]
    /\ c \notin Cacheable => x.cmd[c].answer = c

AnswersOK(x, S) ==
  /\ \A p \in Sources \ S : CacheOK(x, p)
  /\ \A c \in Cmds : PortOf[c] \notin S => ReplyOK(x, c)

WireOK(x, w) ==
  /\ w \in [Sources -> Seq(Answers)]
  /\ \A p \in Sources : \A i \in 1 .. Len(w[p]) : w[p][i] \in Cmds => x.cmd[w[p][i]].sent = "all"

IInv ==
  /\ Sound(d) /\ TurnOK(d) /\ SendOK(d)
  /\ skewed \in SUBSET Sources /\ strays \in 0 .. MaxStray /\ aborted \in BOOLEAN
  /\ \A p \in Sources \ skewed : InStep(d, wire, p)
  /\ AnswersOK(d, skewed) /\ WireOK(d, wire)
  /\ RunFirst = {} => ~aborted

----------------------------------------------------------------------------
(* Records.                                                                *)
LEMMA PortSet ==
  ASSUME NEW x \in DaemonType, NEW k \in [Sources -> PortType], NEW y, y = [x EXCEPT !.port = k]
  PROVE  /\ y \in DaemonType
         /\ y.port = k /\ y.sched = x.sched /\ y.cmd = x.cmd /\ y.cache = x.cache
BY Zenon DEF DaemonType

LEMMA CmdSet ==
  ASSUME NEW x \in DaemonType, NEW k \in [Cmds -> CmdType], NEW y, y = [x EXCEPT !.cmd = k]
  PROVE  /\ y \in DaemonType
         /\ y.cmd = k /\ y.sched = x.sched /\ y.port = x.port /\ y.cache = x.cache
BY Zenon DEF DaemonType

LEMMA CacheSet ==
  ASSUME NEW x \in DaemonType, NEW k \in [Sources -> [Texts -> Answers \union {None}]], NEW y, y = [x EXCEPT !.cache = k]
  PROVE  /\ y \in DaemonType
         /\ y.cache = k /\ y.sched = x.sched /\ y.port = x.port /\ y.cmd = x.cmd
BY Zenon DEF DaemonType

LEMMA QueueSet ==
  ASSUME NEW pt \in PortType, NEW r \in Seq(Cmds), NEW n, n = [pt EXCEPT !.queue = r]
  PROVE  /\ n \in PortType /\ n.queue = r
         /\ n.openCount = pt.openCount /\ n.forced = pt.forced /\ n.reopen = pt.reopen
         /\ n.sendTimer = pt.sendTimer /\ n.waitTimer = pt.waitTimer
         /\ n.watchCancel = pt.watchCancel /\ n.held = pt.held /\ n.lost = pt.lost
BY Zenon DEF PortType

LEMMA SchedSet ==
  ASSUME NEW x \in DaemonType, NEW s \in SchedulerType, NEW y, y = [x EXCEPT !.sched = s]
  PROVE  /\ y \in DaemonType
         /\ y.sched = s /\ y.port = x.port /\ y.cmd = x.cmd /\ y.cache = x.cache
BY Zenon DEF DaemonType

----------------------------------------------------------------------------
(* The scheduler.                                                          *)
SameTurn(s, t) == t.sources = s.sources /\ t.cur = s.cur /\ t.inCommand = s.inCommand

LEMMA SameTurns ==
  ASSUME NEW x, NEW y, SameTurn(x.sched, y.sched), NEW p
  PROVE  HasTurn(y, p) <=> HasTurn(x, p)
BY SameArray DEF SameTurn, HasTurn, IsCurrent

LEMMA NotifySched ==
  ASSUME NEW s, SchedOK(s), NEW p \in Sources, NEW n \in Nat, NEW t, t = NotifyNumPending(s, p, n)
  PROVE  SchedOK(t) /\ SameTurn(s, t)
<1>1. /\ s \in SchedulerType /\ p \in Registered(s) /\ (AnyPending(s) /\ ~s.inCommand => s.timer)
  BY DEF SchedOK
<1>2. /\ t \in SchedulerType /\ t.sources = s.sources
      /\ t.pending = [s.pending EXCEPT ![p] = n]
      /\ t.cur = s.cur /\ t.inCommand = s.inCommand
      /\ t.timer => s.timer \/ ~s.inCommand
      /\ AnyPending(t) /\ ~t.inCommand => t.timer
  BY ONLY <1>1, n \in Nat, p \in Sources, t = NotifyNumPending(s, p, n), NotifyEffect
<1>3. Registered(t) = Registered(s) /\ Distinct(t) = Distinct(s) /\ Indexes(t) = Indexes(s)
  BY <1>2, SameArray
<1> QED BY <1>2, <1>3 DEF SchedOK, SameTurn

LEMMA DoneSched ==
  ASSUME NEW s, SchedOK(s), NEW p \in Sources, IsCurrent(s, p), NEW n \in Nat,
         NEW t, t = NotifyCommandDone(s, p, n)
  PROVE  SchedOK(t) /\ ~t.inCommand /\ t.sources = s.sources /\ t.cur = s.cur
<1>1. s \in SchedulerType /\ p \in Registered(s) /\ IndexOf(s, p) = s.cur BY DEF SchedOK, IsCurrent
<1>2. /\ t \in SchedulerType /\ t.sources = s.sources
      /\ t.pending = [s.pending EXCEPT ![p] = n]
      /\ t.cur = s.cur /\ ~t.inCommand
      /\ AnyPending(t) => t.timer
  BY ONLY <1>1, n \in Nat, p \in Sources, t = NotifyCommandDone(s, p, n), DoneEffect
<1>3. Registered(t) = Registered(s) /\ Distinct(t) = Distinct(s) BY <1>2, SameArray
<1> QED BY <1>2, <1>3 DEF SchedOK

LEMMA RunSched ==
  ASSUME NEW s, SchedOK(s), s.timer, AnyPending(s), NEW t, t = RunNext(s), NEW p, p = SourceAt(t, t.cur)
  PROVE  SchedOK(t) /\ p \in Sources /\ t.inCommand /\ IsCurrent(t, p)
<1>1. s \in SchedulerType /\ Distinct(s) /\ Registered(s) = Sources BY DEF SchedOK
<1>2. /\ t \in SchedulerType /\ t.sources = s.sources /\ t.timer = FALSE
      /\ t.inCommand /\ t.cur \in Indexes(s)
  BY <1>1, RunNextEffect
<1>3. Registered(t) = Registered(s) /\ Distinct(t) = Distinct(s) /\ Indexes(t) = Indexes(s)
  BY <1>2, SameArray
<1>4. p \in Registered(t) /\ p \in Sources /\ IndexOf(t, p) = t.cur BY <1>1, <1>2, <1>3, IndexOfSourceAt
<1> QED BY <1>1, <1>2, <1>3, <1>4 DEF SchedOK, IsCurrent

----------------------------------------------------------------------------
(* The queue of a port.                                                    *)

(* Only whether a command of the port waits matters.                       *)
LEMMA HoldsSame ==
  ASSUME NEW p, NEW q \in Seq(Cmds), NEW m, NEW n, Holds(q, m, p),
         \A c \in Cmds : PortOf[c] = p => (n[c].state = "queued" <=> m[c].state = "queued")
  PROVE  Holds(q, n, p)
<1>1. \A i \in 1 .. Len(q) : q[i] \in Cmds OBVIOUS
<1> QED BY <1>1 DEF Holds

(* r is q with c put at its end or, for a command that goes first, before it. *)
Grown(r, q, c) ==
  \/ c \in RunFirst /\ r = <<c>> \o q
  \/ c \notin RunFirst /\ r = Append(q, c)

LEMMA HoldsOneMore ==
  ASSUME NEW p, NEW q \in Seq(Cmds), NEW m, NEW n, Holds(q, m, p),
         NEW c \in Cmds, PortOf[c] = p, m[c].state = "new", n[c].state = "queued",
         \A e \in Cmds \ {c} : n[e].state = m[e].state,
         NEW r, Grown(r, q, c)
  PROVE  Holds(r, n, p) /\ r \in Seq(Cmds) /\ r # <<>>
<1>1. /\ Len(q) \in Nat /\ \A i \in 1 .. Len(q) : q[i] \in Cmds /\ q[i] # c
  BY DEF Holds
<1>2. CASE r = Append(q, c)
  <2>1. /\ r \in Seq(Cmds) /\ Len(r) = Len(q) + 1 /\ r[Len(q) + 1] = c
        /\ \A i \in 1 .. Len(q) : r[i] = q[i]
    BY <1>2
  <2>2. \A i \in 1 .. Len(r) : r[i] = c <=> i = Len(q) + 1 BY <1>1, <2>1
  <2>3. \A i, j \in 1 .. Len(r) : r[i] = r[j] => i = j BY <1>1, <2>1, <2>2 DEF Holds
  <2>4. \A i \in 1 .. Len(r) : PortOf[r[i]] = p /\ n[r[i]].state = "queued"
    BY <1>1, <2>1 DEF Holds
  <2>5. \A e \in Cmds : PortOf[e] = p /\ n[e].state = "queued" => \E i \in 1 .. Len(r) : r[i] = e
    BY <1>1, <2>1 DEF Holds
  <2> QED BY <2>1, <2>3, <2>4, <2>5, <1>1 DEF Holds
<1>3. CASE r = <<c>> \o q
  <2>1. /\ r \in Seq(Cmds) /\ Len(r) = Len(q) + 1 /\ r[1] = c
        /\ \A i \in 1 .. Len(q) : r[i + 1] = q[i]
    BY <1>3
  <2>2. \A i \in 2 .. Len(r) : r[i] = q[i - 1] /\ i - 1 \in 1 .. Len(q) BY <1>1, <2>1
  <2>3. \A i, j \in 1 .. Len(r) : r[i] = r[j] => i = j
    <3> SUFFICES ASSUME NEW i \in 1 .. Len(r), NEW j \in 1 .. Len(r), r[i] = r[j] PROVE i = j
      OBVIOUS
    <3>1. CASE i = 1 \/ j = 1 BY <3>1, <1>1, <2>1, <2>2
    <3>2. CASE i # 1 /\ j # 1
      <4>1. i \in 2 .. Len(r) /\ j \in 2 .. Len(r) BY <3>2, <1>1, <2>1
      <4>2. i - 1 = j - 1 BY <4>1, <2>2 DEF Holds
      <4> QED BY <4>1, <4>2
    <3> QED BY <3>1, <3>2
  <2>4. \A i \in 1 .. Len(r) : PortOf[r[i]] = p /\ n[r[i]].state = "queued"
    <3> SUFFICES ASSUME NEW i \in 1 .. Len(r) PROVE PortOf[r[i]] = p /\ n[r[i]].state = "queued"
      OBVIOUS
    <3>1. CASE i = 1 BY <3>1, <2>1
    <3>2. CASE i # 1
      <4>1. i \in 2 .. Len(r) BY <3>2, <1>1, <2>1
      <4>2. PICK k \in 1 .. Len(q) : r[i] = q[k] BY <4>1, <2>2
      <4>3. q[k] \in Cmds \ {c} /\ PortOf[q[k]] = p /\ m[q[k]].state = "queued" BY <1>1 DEF Holds
      <4> QED BY <4>2, <4>3
    <3> QED BY <3>1, <3>2
  <2>5. \A e \in Cmds : PortOf[e] = p /\ n[e].state = "queued" => \E i \in 1 .. Len(r) : r[i] = e
    <3> SUFFICES ASSUME NEW e \in Cmds, PortOf[e] = p, n[e].state = "queued"
                 PROVE  \E i \in 1 .. Len(r) : r[i] = e
      OBVIOUS
    <3>1. CASE e = c BY <3>1, <1>1, <2>1
    <3>2. CASE e # c
      <4>1. PICK k \in 1 .. Len(q) : q[k] = e BY <3>2 DEF Holds
      <4>2. k + 1 \in 1 .. Len(r) /\ r[k + 1] = e BY <4>1, <1>1, <2>1
      <4> QED BY <4>2
    <3> QED BY <3>1, <3>2
  <2> QED BY <2>1, <2>3, <2>4, <2>5, <1>1 DEF Holds
<1> QED BY <1>2, <1>3 DEF Grown

LEMMA HoldsPopped ==
  ASSUME NEW p, NEW q \in Seq(Cmds), q # <<>>, NEW m, NEW n, Holds(q, m, p),
         n[Head(q)].state # "queued", \A e \in Cmds \ {Head(q)} : n[e].state = m[e].state
  PROVE  Holds(Tail(q), n, p) /\ Tail(q) \in Seq(Cmds) /\ Head(q) \in Cmds /\ PortOf[Head(q)] = p
         /\ m[Head(q)].state = "queued"
<1>1. PICK r : r = Tail(q) OBVIOUS
<1>2. /\ Len(q) \in Nat /\ Len(q) >= 1 /\ Head(q) = q[1] /\ 1 \in 1 .. Len(q)
      /\ \A i \in 1 .. Len(q) : q[i] \in Cmds
  OBVIOUS
<1>3. r \in Seq(Cmds) /\ Len(r) = Len(q) - 1 /\ \A i \in 1 .. Len(r) : r[i] = q[i + 1] BY <1>1
<1>4. \A i \in 1 .. Len(r) : i + 1 \in 1 .. Len(q) /\ r[i] = q[i + 1] /\ r[i] # Head(q)
  BY <1>2, <1>3 DEF Holds
<1>5. \A i, j \in 1 .. Len(r) : r[i] = r[j] => i = j
  <2> SUFFICES ASSUME NEW i \in 1 .. Len(r), NEW j \in 1 .. Len(r), r[i] = r[j] PROVE i = j
    OBVIOUS
  <2>1. i + 1 = j + 1 BY <1>4 DEF Holds
  <2> QED BY <2>1
<1>6. \A i \in 1 .. Len(r) : PortOf[r[i]] = p /\ n[r[i]].state = "queued"
  <2> SUFFICES ASSUME NEW i \in 1 .. Len(r) PROVE PortOf[r[i]] = p /\ n[r[i]].state = "queued"
    OBVIOUS
  <2>1. PICK k \in 1 .. Len(q) : r[i] = q[k] /\ q[k] # Head(q) BY <1>4
  <2>2. q[k] \in Cmds \ {Head(q)} /\ PortOf[q[k]] = p /\ m[q[k]].state = "queued"
    BY <1>2, <2>1 DEF Holds
  <2> QED BY <2>1, <2>2
<1>7. \A e \in Cmds : PortOf[e] = p /\ n[e].state = "queued" => \E i \in 1 .. Len(r) : r[i] = e
  <2> SUFFICES ASSUME NEW e \in Cmds, PortOf[e] = p, n[e].state = "queued"
               PROVE  \E i \in 1 .. Len(r) : r[i] = e
    OBVIOUS
  <2>1. e # Head(q) OBVIOUS
  <2>2. PICK k \in 1 .. Len(q) : q[k] = e BY <2>1 DEF Holds
  <2>3. k - 1 \in 1 .. Len(r) /\ r[k - 1] = e BY <2>1, <2>2, <1>2, <1>3
  <2> QED BY <2>3
<1> QED BY <1>1, <1>2, <1>3, <1>5, <1>6, <1>7 DEF Holds

(* All commands of q have ended.                                           *)
Ended(q, m, n) ==
  /\ \A c \in Cmds : c \in Range(q) => n[c].state # "queued"
  /\ \A c \in Cmds : c \notin Range(q) => n[c] = m[c]

Waiting(m, p) == {c \in Cmds : PortOf[c] = p /\ m[c].state = "queued"}

LEMMA HoldsEmptied ==
  ASSUME NEW p, NEW q \in Seq(Cmds), NEW m, NEW n, Holds(q, m, p), Ended(q, m, n),
         NEW r, r = <<>>
  PROVE  Holds(r, n, p) /\ \A c \in Cmds : c \in Range(q) <=> c \in Waiting(m, p)
<1>1. DOMAIN q = 1 .. Len(q) OBVIOUS
<1>2. \A c \in Cmds : c \in Range(q) <=> PortOf[c] = p /\ m[c].state = "queued"
  <2> TAKE c \in Cmds
  <2>1. c \in Range(q) <=> \E i \in 1 .. Len(q) : q[i] = c BY <1>1, Zenon DEF Range
  <2> QED BY <2>1 DEF Holds
<1>3. \A c \in Cmds : ~(PortOf[c] = p /\ n[c].state = "queued") BY <1>2 DEF Ended
<1> QED BY <1>2, <1>3 DEF Holds, Waiting

----------------------------------------------------------------------------
(* What a synchronous call may have done to the commands, the cache and    *)
(* the ports when it returns.                                              *)
CmdsKept(x, y) ==
  \A c \in Cmds :
    /\ y.cmd[c].sent = x.cmd[c].sent
    /\ x.cmd[c].state \in Outcomes \/ y.cmd[c].state = "reply" => y.cmd[c] = x.cmd[c]
    /\ y.cmd[c].state = "new" => x.cmd[c].state = "new"

CacheKept(x, y) ==
  \A p \in Sources : \A t \in Texts : y.cache[p][t] = x.cache[p][t] \/ y.cache[p][t] = None

(* A command that goes first may have been put before the head.            *)
Overtaken(x, y, p) ==
  \E c \in RunFirst : PortOf[c] = p /\ x.cmd[c].state = "new" /\ y.cmd[c].state # "new"

Kept(x, y, p) ==
  /\ y.port[p].sendTimer = x.port[p].sendTimer /\ y.port[p].waitTimer = x.port[p].waitTimer
  /\ y.port[p].watchCancel = x.port[p].watchCancel /\ y.port[p].lost = x.port[p].lost
  /\ Queue(x, p) # <<>> =>
       /\ Queue(y, p) # <<>>
       /\ Head(Queue(y, p)) = Head(Queue(x, p)) \/ Overtaken(x, y, p)

Emptied(x, y, p) ==
  /\ ~y.port[p].sendTimer /\ ~y.port[p].waitTimer /\ y.port[p].watchCancel = None
  /\ Queue(y, p) = <<>> /\ (HasTurn(x, p) => y.port[p].lost = "closed")
  /\ \A c \in Cmds : PortOf[c] = p /\ x.cmd[c].state = "queued" =>
       y.cmd[c].state \in {"closed", "cancelled"}

(* The open count and the opens of the users go down together.             *)
Counted(x, y, p) ==
  /\ y.port[p].forced = x.port[p].forced /\ y.port[p].reopen = x.port[p].reopen
  /\ \/ y.port[p].openCount = x.port[p].openCount /\ y.port[p].held = x.port[p].held
     \/ /\ x.port[p].held > 0 /\ y.port[p].held = x.port[p].held - 1
        /\ y.port[p].openCount =
             IF x.port[p].forced \/ ~IsOpen(x, p) THEN x.port[p].openCount
                                                   ELSE x.port[p].openCount - 1

Called(x, y) ==
  /\ Sound(y) /\ SameTurn(x.sched, y.sched)
  /\ CmdsKept(x, y) /\ CacheKept(x, y)
  /\ \A p \in Sources : Kept(x, y, p) \/ Emptied(x, y, p)

AllCounted(x, y) == \A p \in Sources : Counted(x, y, p)

LEMMA Nothing ==
  ASSUME NEW x, Sound(x)
  PROVE  Called(x, x) /\ AllCounted(x, x)
BY Zenon DEF Called, AllCounted, SameTurn, CmdsKept, CacheKept, Kept, Counted

LEMMA CompleteEffect ==
  ASSUME NEW x \in DaemonType, NEW c \in Cmds, NEW outcome \in Outcomes,
         NEW answer \in Answers \union {None}, NEW y, y = Complete(x, c, outcome, answer)
  PROVE  /\ y \in DaemonType
         /\ y.sched = x.sched /\ y.port = x.port /\ y.cache = x.cache
         /\ y.cmd[c].state = IF x.cmd[c].cancelled THEN "cancelled" ELSE outcome
         /\ y.cmd[c].answer = answer
         /\ y.cmd[c].sent = x.cmd[c].sent /\ y.cmd[c].cancelled = x.cmd[c].cancelled
         /\ \A e \in Cmds \ {c} : y.cmd[e] = x.cmd[e]
<1>1. x.cmd[c] \in CmdType BY DEF DaemonType
<1>2. PICK o : o = IF x.cmd[c].cancelled THEN "cancelled" ELSE outcome OBVIOUS
<1>3. PICK m : m = [x.cmd[c] EXCEPT !.state = o, !.answer = answer] OBVIOUS
<1>4. /\ m \in CmdType /\ m.state = o /\ m.answer = answer
      /\ m.sent = x.cmd[c].sent /\ m.cancelled = x.cmd[c].cancelled
  BY <1>1, <1>2, <1>3 DEF CmdType, Outcomes
<1>5. PICK k : k = [x.cmd EXCEPT ![c] = m] OBVIOUS
<1>6. y = [x EXCEPT !.cmd = k] BY <1>2, <1>3, <1>5, Zenon DEF Complete
<1>7. x.cmd \in [Cmds -> CmdType] BY DEF DaemonType
<1>8. k \in [Cmds -> CmdType] /\ k[c] = m /\ \A e \in Cmds \ {c} : k[e] = x.cmd[e]
  BY <1>4, <1>5, <1>7
<1>9. y \in DaemonType /\ y.cmd = k /\ y.sched = x.sched /\ y.port = x.port /\ y.cache = x.cache
  BY <1>6, <1>8, CmdSet
<1> QED BY <1>2, <1>4, <1>8, <1>9, Zenon

LEMMA NotifyPendingEffect ==
  ASSUME NEW x \in DaemonType, SchedOK(x.sched), NEW p \in Sources, NEW y, y = NotifyPending(x, p)
  PROVE  /\ y \in DaemonType
         /\ SchedOK(y.sched) /\ SameTurn(x.sched, y.sched)
         /\ y.port = x.port /\ y.cmd = x.cmd /\ y.cache = x.cache
<1>1. Len(Queue(x, p)) \in Nat BY DEF DaemonType, PortType, Queue
<1>2. PICK s : s = NotifyNumPending(x.sched, p, Len(Queue(x, p))) OBVIOUS
<1>3. SchedOK(s) /\ SameTurn(x.sched, s) BY <1>1, <1>2, NotifySched
<1>4. y = [x EXCEPT !.sched = s] BY <1>2 DEF NotifyPending
<1>5. s \in SchedulerType BY <1>3 DEF SchedOK
<1> QED BY <1>3, <1>4, <1>5, SchedSet

LEMMA CommandEffect ==
  ASSUME NEW x \in DaemonType, SchedOK(x.sched), NEW c \in Cmds, NEW p, p = PortOf[c], IsOpen(x, p),
         NEW y, y = Command(x, c)
  PROVE  /\ y \in DaemonType /\ SchedOK(y.sched) /\ SameTurn(x.sched, y.sched)
         /\ CacheKept(x, y)
         /\ y.cmd[c].state = "queued" /\ y.cmd[c].sent = x.cmd[c].sent
         /\ y.cmd[c].cancelled = x.cmd[c].cancelled
         /\ \A e \in Cmds \ {c} : y.cmd[e] = x.cmd[e]
         /\ \A q \in Sources \ {p} : y.port[q] = x.port[q]
         /\ y.port[p].openCount = x.port[p].openCount /\ y.port[p].forced = x.port[p].forced
         /\ y.port[p].reopen = x.port[p].reopen /\ y.port[p].held = x.port[p].held
         /\ y.port[p].sendTimer = x.port[p].sendTimer /\ y.port[p].waitTimer = x.port[p].waitTimer
         /\ y.port[p].watchCancel = x.port[p].watchCancel /\ y.port[p].lost = x.port[p].lost
         /\ Grown(y.port[p].queue, x.port[p].queue, c)
<1>1. p \in Sources /\ Text[c] \in Texts BY PortSerialAssumption DEF Texts
<1>2. PICK z : z = IF c \in Cacheable THEN x ELSE [x EXCEPT !.cache[p][Text[c]] = None] OBVIOUS
<1>3. PICK m : m = [z.cmd[c] EXCEPT !.state = "queued"] OBVIOUS
<1>4. PICK k : k = [z.cmd EXCEPT ![c] = m] OBVIOUS
<1>5. PICK r : r = IF c \in RunFirst THEN <<c>> \o z.port[p].queue ELSE Append(z.port[p].queue, c)
  OBVIOUS
<1>6. PICK pt : pt = [z.port[p] EXCEPT !.queue = r] OBVIOUS
<1>7. PICK l : l = [z.port EXCEPT ![p] = pt] OBVIOUS
<1>8. PICK u : u = [z EXCEPT !.cmd = k, !.port = l] OBVIOUS
<1>9. y = NotifyPending(u, p) BY <1>2, <1>3, <1>4, <1>5, <1>6, <1>7, <1>8, Zenon DEF Command
<1>10. /\ z \in DaemonType /\ z.sched = x.sched /\ z.port = x.port /\ z.cmd = x.cmd
       /\ CacheKept(x, z)
  <2>1. CASE c \in Cacheable BY <2>1, <1>2 DEF CacheKept
  <2>2. CASE c \notin Cacheable
    <3>1. PICK h : h = [x.cache EXCEPT ![p][Text[c]] = None] OBVIOUS
    <3>2. x.cache \in [Sources -> [Texts -> Answers \union {None}]] BY DEF DaemonType
    <3>3. /\ h \in [Sources -> [Texts -> Answers \union {None}]]
          /\ \A q \in Sources : \A t \in Texts : h[q][t] = x.cache[q][t] \/ h[q][t] = None
      BY <1>1, <3>1, <3>2
    <3>4. z = [x EXCEPT !.cache = h] BY <2>2, <1>2, <3>1, Zenon
    <3> QED BY <3>3, <3>4, CacheSet DEF CacheKept
  <2> QED BY <2>1, <2>2
<1>11. m \in CmdType BY <1>3, <1>10, z.cmd[c] \in CmdType DEF DaemonType, CmdType
<1>12. /\ k \in [Cmds -> CmdType] /\ k[c] = m /\ \A e \in Cmds \ {c} : k[e] = x.cmd[e]
  BY <1>4, <1>10, <1>11, z.cmd \in [Cmds -> CmdType] DEF DaemonType
<1>13. z.port[p].queue \in Seq(Cmds) /\ z.port \in [Sources -> PortType]
  BY <1>1, <1>10 DEF DaemonType, PortType
<1>14. r \in Seq(Cmds) BY <1>5, <1>13
<1>15. pt \in PortType BY <1>1, <1>6, <1>13, <1>14, QueueSet
<1>16. /\ l \in [Sources -> PortType] /\ l[p] = pt /\ \A q \in Sources \ {p} : l[q] = x.port[q]
  BY <1>1, <1>7, <1>10, <1>13, <1>15
<1>17. u \in DaemonType /\ u.cmd = k /\ u.port = l /\ u.sched = z.sched /\ u.cache = z.cache
  BY <1>8, <1>10, <1>12, <1>16, Zenon DEF DaemonType
<1>18. /\ y \in DaemonType /\ SchedOK(y.sched) /\ SameTurn(u.sched, y.sched)
       /\ y.port = u.port /\ y.cmd = u.cmd /\ y.cache = u.cache
  BY <1>1, <1>9, <1>10, <1>17, NotifyPendingEffect
<1>19. CacheKept(x, y) BY <1>10, <1>17, <1>18 DEF CacheKept
<1>20. m.state = "queued" /\ m.sent = x.cmd[c].sent /\ m.cancelled = x.cmd[c].cancelled
  BY <1>3, <1>10, z.cmd[c] \in CmdType DEF DaemonType, CmdType
<1>21. /\ pt.queue = r
       /\ pt.openCount = x.port[p].openCount /\ pt.forced = x.port[p].forced
       /\ pt.reopen = x.port[p].reopen /\ pt.held = x.port[p].held
       /\ pt.sendTimer = x.port[p].sendTimer /\ pt.waitTimer = x.port[p].waitTimer
       /\ pt.watchCancel = x.port[p].watchCancel /\ pt.lost = x.port[p].lost
  BY <1>1, <1>6, <1>10, <1>13, <1>14, QueueSet
<1>22. Grown(r, x.port[p].queue, c) BY <1>5, <1>10 DEF Grown
<1> QED BY <1>10, <1>12, <1>14, <1>16, <1>17, <1>18, <1>19, <1>20, <1>21, <1>22, Zenon

LEMMA CommandCalled ==
  ASSUME NEW x, Sound(x), NEW c \in Cmds, x.cmd[c].state = "new", NEW y, y = Command(x, c)
  PROVE  Called(x, y) /\ AllCounted(x, y)
<1>1. PICK p : p = PortOf[c] OBVIOUS
<1>2. p \in Sources BY <1>1, PortSerialAssumption
<1>3. /\ x \in DaemonType /\ SchedOK(x.sched) /\ x.cmd[c] \in CmdType
      /\ \A q \in Sources : /\ x.port[q] \in PortType /\ x.port[q].queue \in Seq(Cmds)
                           /\ Holds(x.port[q].queue, x.cmd, q) /\ PortOK(x.port[q])
  BY DEF Sound, DaemonType, PortType
<1>4. CASE IsOpen(x, p)
  <2>1. /\ y \in DaemonType /\ SchedOK(y.sched) /\ SameTurn(x.sched, y.sched)
        /\ CacheKept(x, y)
        /\ y.cmd[c].state = "queued" /\ y.cmd[c].sent = x.cmd[c].sent
        /\ y.cmd[c].cancelled = x.cmd[c].cancelled
        /\ \A e \in Cmds \ {c} : y.cmd[e] = x.cmd[e]
        /\ \A q \in Sources \ {p} : y.port[q] = x.port[q]
    BY <1>1, <1>3, <1>4, CommandEffect
  <2>2. /\ y.port[p].openCount = x.port[p].openCount /\ y.port[p].forced = x.port[p].forced
        /\ y.port[p].reopen = x.port[p].reopen /\ y.port[p].held = x.port[p].held
        /\ y.port[p].sendTimer = x.port[p].sendTimer /\ y.port[p].waitTimer = x.port[p].waitTimer
        /\ y.port[p].watchCancel = x.port[p].watchCancel /\ y.port[p].lost = x.port[p].lost
    BY <1>1, <1>3, <1>4, CommandEffect
  <2>3. PICK s : s = x.port[p].queue OBVIOUS
  <2>4. PICK r : r = y.port[p].queue OBVIOUS
  <2>5. Grown(r, s, c)
    BY <1>1, <1>3, <1>4, <2>3, <2>4, CommandEffect
  <2>6. Holds(r, y.cmd, p) /\ r # <<>>
    <3>1. s \in Seq(Cmds) /\ Holds(s, x.cmd, p) BY <1>2, <1>3, <2>3
    <3>3. PICK m : m = x.cmd OBVIOUS
    <3>4. PICK n : n = y.cmd OBVIOUS
    <3>5. /\ Holds(s, m, p) /\ m[c].state = "new" /\ n[c].state = "queued"
          /\ \A e \in Cmds \ {c} : n[e].state = m[e].state
      BY <2>1, <3>1, <3>3, <3>4
    <3>6. Holds(r, n, p) /\ r # <<>> BY ONLY <1>1, c \in Cmds, <3>1, <2>5, <3>5, HoldsOneMore
    <3> QED BY <3>4, <3>6
  <2>7. CmdsKept(x, y) BY <2>1 DEF CmdsKept, Outcomes
  <2>8. ASSUME NEW q \in Sources
        PROVE  /\ Holds(y.port[q].queue, y.cmd, q) /\ PortOK(y.port[q])
               /\ Kept(x, y, q) /\ Counted(x, y, q)
    <3>1. CASE q = p
      <4>1. Holds(y.port[q].queue, y.cmd, q) BY <3>1, <2>4, <2>6
      <4>2. PortOK(y.port[q]) BY <3>1, <1>2, <1>3, <2>2, <2>4, <2>6 DEF PortOK
      <4>3. Counted(x, y, q) BY <3>1, <2>2 DEF Counted
      <4>4. Queue(x, q) # <<>> => Head(r) = Head(Queue(x, q)) \/ Overtaken(x, y, q)
        <5>1. CASE c \in RunFirst
          <6>1. x.cmd[c].state = "new" OBVIOUS
          <6>2. y.cmd[c].state # "new"
            <7>1. y.cmd[c].state = "queued" BY <2>1
            <7> QED BY <7>1
          <6> QED BY <5>1, <6>1, <6>2, <1>1, <3>1 DEF Overtaken
        <5>2. CASE c \notin RunFirst
          <6>1. r = Append(s, c) /\ s \in Seq(Cmds) BY <5>2, <1>2, <1>3, <2>3, <2>5 DEF Grown
          <6> QED BY <6>1, <3>1, <2>3 DEF Queue
        <5> QED BY <5>1, <5>2
      <4>5. Kept(x, y, q) BY <3>1, <2>2, <2>4, <2>6, <4>4 DEF Kept, Queue
      <4> QED BY <4>1, <4>2, <4>3, <4>5
    <3>2. CASE q # p
      <4>1. y.port[q] = x.port[q] BY <3>2, <2>1
      <4>2. \A e \in Cmds : PortOf[e] = q => y.cmd[e] = x.cmd[e] BY <3>2, <1>1, <2>1
      <4>3. Holds(y.port[q].queue, y.cmd, q) BY <4>1, <4>2, <1>3, HoldsSame
      <4> QED BY <4>1, <4>3, <1>3, Zenon DEF Kept, Counted, Queue
    <3> QED BY <3>1, <3>2
  <2> QED BY <2>1, <2>7, <2>8 DEF Called, AllCounted, Sound
<1>5. CASE ~IsOpen(x, p)
  <2>1. y = Complete(x, c, "failed", None) BY <1>1, <1>5, Zenon DEF Command
  <2>2. /\ y \in DaemonType
        /\ y.sched = x.sched /\ y.port = x.port /\ y.cache = x.cache
        /\ y.cmd[c].state = IF x.cmd[c].cancelled THEN "cancelled" ELSE "failed"
        /\ y.cmd[c].sent = x.cmd[c].sent /\ y.cmd[c].cancelled = x.cmd[c].cancelled
        /\ \A e \in Cmds \ {c} : y.cmd[e] = x.cmd[e]
    BY <2>1, <1>3, CompleteEffect DEF Outcomes
  <2>3. CmdsKept(x, y) BY <2>2 DEF CmdsKept, Outcomes
  <2>4. CacheKept(x, y) /\ SameTurn(x.sched, y.sched) BY <2>2 DEF CacheKept, SameTurn
  <2>5. \A e \in Cmds : y.cmd[e].state = "queued" <=> x.cmd[e].state = "queued" BY <2>2
  <2>6. \A q \in Sources : Holds(y.port[q].queue, y.cmd, q) BY <2>2, <2>5, <1>3, HoldsSame
  <2>7. Sound(y) BY <2>2, <2>6, <1>3 DEF Sound
  <2>8. \A q \in Sources : Kept(x, y, q) /\ Counted(x, y, q) BY <2>2, Zenon DEF Kept, Counted, Queue
  <2> QED BY <2>3, <2>4, <2>7, <2>8 DEF Called, AllCounted
<1> QED BY <1>4, <1>5

(* What the closing of a port leaves.                                      *)
Closed(x, y, p) ==
  /\ y.port[p].openCount = 0 /\ y.port[p].forced = x.port[p].forced
  /\ y.port[p].reopen = x.port[p].reopen /\ y.port[p].held = x.port[p].held
  /\ y.port[p].queue = <<>> /\ ~y.port[p].sendTimer /\ ~y.port[p].waitTimer
  /\ y.port[p].watchCancel = None /\ (HasTurn(x, p) => y.port[p].lost = "closed")
  /\ \A c \in Cmds : c \in Range(Queue(x, p)) =>
       /\ y.cmd[c].state \in {"closed", "cancelled"}
       /\ y.cmd[c].sent = x.cmd[c].sent /\ y.cmd[c].cancelled = x.cmd[c].cancelled
  /\ \A c \in Cmds : c \notin Range(Queue(x, p)) => y.cmd[c] = x.cmd[c]

LEMMA ShutEffect ==
  ASSUME NEW x \in DaemonType, SchedOK(x.sched), NEW p \in Sources, NEW y, y = Shut(x, p)
  PROVE  /\ y \in DaemonType /\ SchedOK(y.sched) /\ SameTurn(x.sched, y.sched)
         /\ y.cache = x.cache
         /\ Closed(x, y, p)
         /\ \A q \in Sources \ {p} : y.port[q] = x.port[q]
<1>1. PICK lo : lo = IF HasTurn(x, p) THEN "closed" ELSE x.port[p].lost OBVIOUS
<1>2. PICK pt : pt = [x.port[p] EXCEPT !.openCount = 0, !.connected = FALSE, !.queue = <<>>,
                        !.sendTimer = FALSE, !.waitTimer = FALSE, !.watchCancel = None, !.lost = lo]
  OBVIOUS
<1>3. PICK l : l = [x.port EXCEPT ![p] = pt] OBVIOUS
<1>4. PICK k : k = [c \in Cmds |-> IF c \in Range(Queue(x, p)) THEN Complete(x, c, "closed", None).cmd[c]
                                                               ELSE x.cmd[c]]
  OBVIOUS
<1>5. PICK u : u = [x EXCEPT !.port = l, !.cmd = k] OBVIOUS
<1>6. y = NotifyPending(u, p) BY <1>1, <1>2, <1>3, <1>4, <1>5, Zenon DEF Shut
<1>7. x.port \in [Sources -> PortType] /\ x.port[p] \in PortType /\ x.cmd \in [Cmds -> CmdType]
  BY DEF DaemonType
<1>8. lo \in {"no", "closed", "empty"} BY <1>1, <1>7 DEF PortType
<1>9. 0 \in 0 .. Users /\ <<>> \in Seq(Cmds) /\ None \in {None} \union Cmds BY PortSerialAssumption
<1>10. /\ pt \in PortType
       /\ pt.openCount = 0 /\ pt.forced = x.port[p].forced /\ pt.reopen = x.port[p].reopen
       /\ pt.held = x.port[p].held /\ pt.queue = <<>>
       /\ pt.sendTimer = FALSE /\ pt.waitTimer = FALSE /\ pt.watchCancel = None /\ pt.lost = lo
  BY <1>2, <1>7, <1>8, <1>9, Zenon DEF PortType
<1>11. /\ l \in [Sources -> PortType] /\ l[p] = pt /\ \A q \in Sources \ {p} : l[q] = x.port[q]
  BY <1>3, <1>7, <1>10
<1>12. ASSUME NEW c \in Cmds
       PROVE  /\ k[c] \in CmdType
              /\ IF c \in Range(Queue(x, p))
                   THEN /\ k[c].state \in {"closed", "cancelled"}
                        /\ k[c].sent = x.cmd[c].sent /\ k[c].cancelled = x.cmd[c].cancelled
                   ELSE k[c] = x.cmd[c]
  <2>1. CASE c \in Range(Queue(x, p))
    <3>1. PICK z : z = Complete(x, c, "closed", None) OBVIOUS
    <3>2. /\ z \in DaemonType
          /\ z.cmd[c].state = IF x.cmd[c].cancelled THEN "cancelled" ELSE "closed"
          /\ z.cmd[c].sent = x.cmd[c].sent /\ z.cmd[c].cancelled = x.cmd[c].cancelled
      BY <3>1, CompleteEffect DEF Outcomes
    <3>3. k[c] = z.cmd[c] BY <2>1, <3>1, <1>4
    <3> QED BY <2>1, <3>2, <3>3 DEF DaemonType
  <2>2. CASE c \notin Range(Queue(x, p)) BY <2>2, <1>4, <1>7
  <2> QED BY <2>1, <2>2
<1>13. k \in [Cmds -> CmdType] BY <1>4, <1>12
<1>14. u \in DaemonType /\ u.cmd = k /\ u.port = l /\ u.sched = x.sched /\ u.cache = x.cache
  BY <1>5, <1>11, <1>13, Zenon DEF DaemonType
<1>15. /\ y \in DaemonType /\ SchedOK(y.sched) /\ SameTurn(u.sched, y.sched)
       /\ y.port = u.port /\ y.cmd = u.cmd /\ y.cache = u.cache
  BY <1>6, <1>14, NotifyPendingEffect
<1>16. HasTurn(x, p) => y.port[p].lost = "closed" BY <1>1, <1>10, <1>11, <1>14, <1>15
<1>17. /\ \A c \in Cmds : c \in Range(Queue(x, p)) =>
            /\ y.cmd[c].state \in {"closed", "cancelled"}
            /\ y.cmd[c].sent = x.cmd[c].sent /\ y.cmd[c].cancelled = x.cmd[c].cancelled
       /\ \A c \in Cmds : c \notin Range(Queue(x, p)) => y.cmd[c] = x.cmd[c]
  BY <1>12, <1>14, <1>15
<1>18. Closed(x, y, p) BY <1>10, <1>11, <1>14, <1>15, <1>16, <1>17, Zenon DEF Closed
<1> QED BY <1>11, <1>14, <1>15, <1>18, Zenon

LEMMA ShutSound ==
  ASSUME NEW x, Sound(x), NEW p \in Sources, NEW y, y = Shut(x, p)
  PROVE  /\ Sound(y) /\ SameTurn(x.sched, y.sched) /\ CmdsKept(x, y) /\ CacheKept(x, y)
         /\ Emptied(x, y, p) /\ \A q \in Sources \ {p} : y.port[q] = x.port[q]
         /\ y.port[p].openCount = 0 /\ y.port[p].forced = x.port[p].forced
         /\ y.port[p].reopen = x.port[p].reopen /\ y.port[p].held = x.port[p].held
<1>1. /\ x \in DaemonType /\ SchedOK(x.sched)
      /\ \A q \in Sources : /\ x.port[q] \in PortType /\ x.port[q].queue \in Seq(Cmds)
                           /\ Holds(x.port[q].queue, x.cmd, q) /\ PortOK(x.port[q])
  BY DEF Sound, DaemonType, PortType
<1>2. /\ y \in DaemonType /\ SchedOK(y.sched) /\ SameTurn(x.sched, y.sched)
      /\ y.cache = x.cache
      /\ Closed(x, y, p) /\ \A q \in Sources \ {p} : y.port[q] = x.port[q]
  BY <1>1, ShutEffect
<1>3. PICK e : e = <<>> OBVIOUS
<1>4. /\ Holds(e, y.cmd, p)
      /\ \A c \in Cmds : c \in Range(Queue(x, p)) <=> PortOf[c] = p /\ x.cmd[c].state = "queued"
  <2>1. PICK s : s = Queue(x, p) OBVIOUS
  <2>2. s \in Seq(Cmds) /\ Holds(s, x.cmd, p) BY <1>1, <2>1 DEF Queue
  <2>3. Ended(s, x.cmd, y.cmd) BY <1>2, <2>1 DEF Closed, Ended
  <2>4. Holds(e, y.cmd, p) /\ \A c \in Cmds : c \in Range(s) <=> c \in Waiting(x.cmd, p)
    BY ONLY <1>3, <2>2, <2>3, HoldsEmptied
  <2> QED BY <2>1, <2>4 DEF Waiting
<1>5. \A c \in Cmds :
        IF PortOf[c] = p /\ x.cmd[c].state = "queued"
          THEN /\ y.cmd[c].state \in {"closed", "cancelled"}
               /\ y.cmd[c].sent = x.cmd[c].sent /\ y.cmd[c].cancelled = x.cmd[c].cancelled
          ELSE y.cmd[c] = x.cmd[c]
  BY <1>2, <1>4 DEF Closed
<1>6. CmdsKept(x, y) BY <1>5 DEF CmdsKept, Outcomes
<1>7. CacheKept(x, y) BY <1>2 DEF CacheKept
<1>8. Emptied(x, y, p) BY <1>2, <1>5 DEF Emptied, Queue, Closed
<1>9. ASSUME NEW q \in Sources PROVE Holds(y.port[q].queue, y.cmd, q) /\ PortOK(y.port[q])
  <2>1. CASE q = p BY <2>1, <1>2, <1>3, <1>4 DEF PortOK, Closed
  <2>2. CASE q # p
    <3>1. \A c \in Cmds : PortOf[c] = q => y.cmd[c] = x.cmd[c] BY <2>2, <1>5
    <3>2. y.port[q] = x.port[q] BY <2>2, <1>2
    <3>3. Holds(y.port[q].queue, y.cmd, q) BY <3>1, <3>2, <1>1, HoldsSame
    <3> QED BY <3>2, <3>3, <1>1
  <2> QED BY <2>1, <2>2
<1>10. Sound(y) BY <1>2, <1>9 DEF Sound
<1> QED BY <1>2, <1>6, <1>7, <1>8, <1>10 DEF Closed

LEMMA CloseCalled ==
  ASSUME NEW x, Sound(x), NEW p \in Sources, x.port[p].held > 0, NEW y, y = Close(x, p)
  PROVE  Called(x, y) /\ AllCounted(x, y)
<1>1. /\ x \in DaemonType /\ SchedOK(x.sched) /\ x.port[p] \in PortType
      /\ x.port \in [Sources -> PortType]
      /\ \A q \in Sources : Holds(x.port[q].queue, x.cmd, q) /\ PortOK(x.port[q])
  BY DEF Sound, DaemonType
<1>2. /\ x.port[p].held \in 0 .. Users /\ x.port[p].openCount \in 0 .. Users /\ Users \in Nat
      /\ x.port[p].held - 1 \in 0 .. Users
  BY <1>1, PortSerialAssumption DEF PortType
<1>3. PICK pt : pt = [x.port[p] EXCEPT !.held = x.port[p].held - 1] OBVIOUS
<1>4. /\ pt \in PortType /\ pt.held = x.port[p].held - 1
      /\ pt.openCount = x.port[p].openCount /\ pt.forced = x.port[p].forced
      /\ pt.reopen = x.port[p].reopen /\ pt.queue = x.port[p].queue
      /\ pt.sendTimer = x.port[p].sendTimer /\ pt.waitTimer = x.port[p].waitTimer
      /\ pt.watchCancel = x.port[p].watchCancel /\ pt.lost = x.port[p].lost
  BY <1>1, <1>2, <1>3, Zenon DEF PortType
<1>5. PICK l : l = [x.port EXCEPT ![p] = pt] OBVIOUS
<1>6. /\ l \in [Sources -> PortType] /\ l[p] = pt /\ \A q \in Sources \ {p} : l[q] = x.port[q]
  BY <1>1, <1>4, <1>5
<1>7. PICK left : left = [x EXCEPT !.port = l] OBVIOUS
<1>8. /\ left \in DaemonType /\ left.port = l /\ left.sched = x.sched /\ left.cmd = x.cmd
      /\ left.cache = x.cache
  BY <1>1, <1>6, <1>7, PortSet
<1>10. PortOK(pt) /\ Holds(pt.queue, x.cmd, p) BY <1>1, <1>4 DEF PortOK
<1>11. Sound(left)
  <2>1. \A q \in Sources : Holds(left.port[q].queue, left.cmd, q) /\ PortOK(left.port[q])
    BY <1>1, <1>6, <1>8, <1>10
  <2> QED BY <1>1, <1>8, <2>1 DEF Sound
<1>12. CmdsKept(x, left) /\ CacheKept(x, left) /\ SameTurn(x.sched, left.sched)
  BY <1>8 DEF CmdsKept, CacheKept, SameTurn
<1>13. \A q \in Sources : Kept(x, left, q) BY <1>4, <1>6, <1>8 DEF Kept, Queue
<1>14. \A q \in Sources \ {p} : left.port[q] = x.port[q] BY <1>6, <1>8
<1>15. CASE x.port[p].forced \/ ~IsOpen(x, p)
  <2>1. y = left BY <1>3, <1>5, <1>7, <1>15, Zenon DEF Close
  <2>2. \A q \in Sources : Counted(x, left, q)
    BY <1>15, <1>4, <1>6, <1>8 DEF Counted
  <2> QED BY <2>1, <2>2, <1>11, <1>12, <1>13 DEF Called, AllCounted
<1>16. CASE ~(x.port[p].forced \/ ~IsOpen(x, p)) /\ x.port[p].openCount > 1
  <2>1. PICK qt : qt = [pt EXCEPT !.openCount = pt.openCount - 1] OBVIOUS
  <2>2. pt.openCount - 1 \in 0 .. Users BY <1>2, <1>4, <1>16
  <2>3. /\ qt \in PortType /\ qt.openCount = pt.openCount - 1
        /\ qt.held = pt.held /\ qt.forced = pt.forced
        /\ qt.reopen = pt.reopen /\ qt.queue = pt.queue
        /\ qt.sendTimer = pt.sendTimer /\ qt.waitTimer = pt.waitTimer
        /\ qt.watchCancel = pt.watchCancel /\ qt.lost = pt.lost
    BY <1>4, <2>1, <2>2, Zenon DEF PortType
  <2>4. PICK n : n = [l EXCEPT ![p] = qt] OBVIOUS
  <2>5. /\ n \in [Sources -> PortType] /\ n[p] = qt /\ \A q \in Sources \ {p} : n[q] = x.port[q]
    BY <1>6, <2>3, <2>4
  <2>7. y = [left EXCEPT !.port = [left.port EXCEPT ![p] = [left.port[p] EXCEPT !.openCount = left.port[p].openCount - 1]]]
    BY <1>3, <1>5, <1>7, <1>16, Zenon DEF Close
  <2>8. y = [left EXCEPT !.port = n]
    BY <2>7, <2>1, <2>4, <1>6, <1>8, Zenon
  <2>9. /\ y \in DaemonType /\ y.port = n /\ y.sched = left.sched /\ y.cmd = left.cmd
        /\ y.cache = left.cache
    BY <1>8, <2>5, <2>8, PortSet
  <2>10. PortOK(qt)
    BY <1>1, <1>2, <1>4, <1>10, <1>16, <2>3, PortSerialAssumption DEF PortOK
  <2>11. \A q \in Sources : Holds(y.port[q].queue, y.cmd, q) /\ PortOK(y.port[q])
    BY <1>1, <1>4, <1>8, <1>10, <2>3, <2>5, <2>9, <2>10
  <2>12. Sound(y) BY <1>1, <1>8, <2>9, <2>11 DEF Sound
  <2>13. CmdsKept(x, y) /\ CacheKept(x, y) /\ SameTurn(x.sched, y.sched)
    BY <1>8, <2>9 DEF CmdsKept, CacheKept, SameTurn
  <2>14. \A q \in Sources : Kept(x, y, q) BY <1>4, <2>3, <2>5, <2>9 DEF Kept, Queue
  <2>15. \A q \in Sources : Counted(x, y, q)
    BY <1>4, <1>16, <2>3, <2>5, <2>9 DEF Counted
  <2> QED BY <2>12, <2>13, <2>14, <2>15 DEF Called, AllCounted
<1>17. CASE ~(x.port[p].forced \/ ~IsOpen(x, p)) /\ ~(x.port[p].openCount > 1)
  <2>1. y = Shut(left, p) BY <1>3, <1>5, <1>7, <1>17, Zenon DEF Close
  <2>2. /\ Sound(y) /\ SameTurn(left.sched, y.sched) /\ CmdsKept(left, y) /\ CacheKept(left, y)
        /\ Emptied(left, y, p) /\ \A q \in Sources \ {p} : y.port[q] = left.port[q]
        /\ y.port[p].openCount = 0 /\ y.port[p].forced = left.port[p].forced
        /\ y.port[p].reopen = left.port[p].reopen /\ y.port[p].held = left.port[p].held
    BY <1>11, <2>1, ShutSound
  <2>3. CmdsKept(x, y) /\ CacheKept(x, y) /\ SameTurn(x.sched, y.sched)
    BY <1>8, <2>2 DEF CmdsKept, CacheKept, SameTurn
  <2>4. HasTurn(left, p) <=> HasTurn(x, p) BY <1>12, SameTurns
  <2>5. Emptied(x, y, p) BY <1>8, <2>2, <2>4 DEF Emptied
  <2>6. x.port[p].openCount = 1 BY <1>2, <1>17 DEF IsOpen
  <2>7. Counted(x, y, p) BY <1>4, <1>6, <1>8, <1>17, <2>2, <2>6 DEF Counted
  <2>8. \A q \in Sources \ {p} : Kept(x, y, q) /\ Counted(x, y, q)
    BY <1>14, <2>2, Zenon DEF Kept, Counted, Queue
  <2> QED BY <2>2, <2>3, <2>5, <2>7, <2>8 DEF Called, AllCounted
<1> QED BY <1>15, <1>16, <1>17

LEMMA CallbackCalled ==
  ASSUME NEW x, Sound(x), NEW p \in Sources, NEW y \in Callback(x, p)
  PROVE  Called(x, y) /\ AllCounted(x, y)
<1>1. CASE y = x BY <1>1, Nothing
<1>2. ASSUME NEW c \in Cmds, x.cmd[c].state = "new", y = Command(x, c)
      PROVE  Called(x, y) /\ AllCounted(x, y)
  BY <1>2, CommandCalled
<1>3. CASE x.port[p].held > 0 /\ y = Close(x, p) BY <1>3, CloseCalled
<1>4. y = x \/ (\E c \in Cmds : x.cmd[c].state = "new" /\ y = Command(x, c))
        \/ (x.port[p].held > 0 /\ y = Close(x, p))
  BY Zenon DEF Callback
<1> QED BY <1>1, <1>2, <1>3, <1>4

LEMMA CommandDoneEffect ==
  ASSUME NEW x, Sound(x), NEW p \in Sources, NEW y, y = CommandDone(x, p)
  PROVE  /\ Sound(y)
         /\ y.sched.sources = x.sched.sources /\ y.sched.cur = x.sched.cur
         /\ (IsCurrent(x.sched, p) => ~y.sched.inCommand)
         /\ (~IsCurrent(x.sched, p) => y.sched.inCommand = x.sched.inCommand)
         /\ y.cmd = x.cmd /\ y.cache = x.cache
         /\ \A q \in Sources \ {p} : y.port[q] = x.port[q]
         /\ y.port[p].openCount = x.port[p].openCount /\ y.port[p].forced = x.port[p].forced
         /\ y.port[p].reopen = x.port[p].reopen /\ y.port[p].held = x.port[p].held
         /\ y.port[p].sendTimer = x.port[p].sendTimer /\ y.port[p].waitTimer = x.port[p].waitTimer
<1>1. /\ x \in DaemonType /\ SchedOK(x.sched) /\ x.port[p] \in PortType
      /\ x.port \in [Sources -> PortType] /\ Len(Queue(x, p)) \in Nat
      /\ \A q \in Sources : Holds(x.port[q].queue, x.cmd, q) /\ PortOK(x.port[q])
  BY DEF Sound, DaemonType, PortType, Queue
<1>2. PICK s : s = NotifyCommandDone(x.sched, p, Len(Queue(x, p))) OBVIOUS
<1>3. PICK lo : lo = IF IsCurrent(x.sched, p) THEN "no" ELSE x.port[p].lost OBVIOUS
<1>4. PICK pt : pt = [x.port[p] EXCEPT !.lost = lo] OBVIOUS
<1>5. PICK l : l = [x.port EXCEPT ![p] = pt] OBVIOUS
<1>6. y = [x EXCEPT !.sched = s, !.port = l]
  BY <1>2, <1>3, <1>4, <1>5, Zenon DEF CommandDone
<1>7. /\ SchedOK(s) /\ s.sources = x.sched.sources /\ s.cur = x.sched.cur
      /\ (IsCurrent(x.sched, p) => ~s.inCommand)
      /\ (~IsCurrent(x.sched, p) => s.inCommand = x.sched.inCommand)
  <2>1. CASE IsCurrent(x.sched, p)
    <3>1. SchedOK(s) /\ ~s.inCommand /\ s.sources = x.sched.sources /\ s.cur = x.sched.cur
      BY <2>1, <1>1, <1>2, DoneSched
    <3> QED BY <2>1, <3>1
  <2>2. CASE ~IsCurrent(x.sched, p)
    <3>1. s = x.sched BY <2>2, <1>2, Zenon DEF NotifyCommandDone
    <3> QED BY <2>2, <3>1, <1>1
  <2> QED BY <2>1, <2>2
<1>8. lo \in {"no", "closed", "empty"} BY <1>1, <1>3 DEF PortType
<1>9. /\ pt \in PortType /\ pt.openCount = x.port[p].openCount /\ pt.forced = x.port[p].forced
      /\ pt.reopen = x.port[p].reopen /\ pt.held = x.port[p].held /\ pt.queue = x.port[p].queue
      /\ pt.sendTimer = x.port[p].sendTimer /\ pt.waitTimer = x.port[p].waitTimer
      /\ pt.watchCancel = x.port[p].watchCancel
  BY <1>1, <1>4, <1>8, Zenon DEF PortType
<1>10. /\ l \in [Sources -> PortType] /\ l[p] = pt /\ \A q \in Sources \ {p} : l[q] = x.port[q]
  BY <1>1, <1>5, <1>9
<1>11. s \in SchedulerType BY <1>7 DEF SchedOK
<1>12. /\ y \in DaemonType /\ y.sched = s /\ y.port = l /\ y.cmd = x.cmd /\ y.cache = x.cache
  BY <1>1, <1>6, <1>10, <1>11, Zenon DEF DaemonType
<1>13. PortOK(pt) /\ Holds(pt.queue, x.cmd, p) BY <1>1, <1>9 DEF PortOK
<1>14. \A q \in Sources : Holds(y.port[q].queue, y.cmd, q) /\ PortOK(y.port[q])
  BY <1>1, <1>10, <1>12, <1>13
<1>15. Sound(y) BY <1>7, <1>12, <1>14 DEF Sound
<1> QED BY <1>7, <1>9, <1>10, <1>12, <1>15

(* The head of the queue of p has been completed.                          *)
Popped(x, y, p, outcome, answer) ==
  LET c == Head(Queue(x, p)) IN
  /\ c \in Cmds /\ PortOf[c] = p /\ x.cmd[c].state = "queued"
  /\ y.cmd[c].state \in {outcome, "cancelled"}
  /\ y.cmd[c].answer = answer /\ y.cmd[c].sent = x.cmd[c].sent
  /\ \A e \in Cmds \ {c} :
       /\ y.cmd[e].sent = x.cmd[e].sent
       /\ x.cmd[e].state \in Outcomes \/ y.cmd[e].state = "reply" => y.cmd[e] = x.cmd[e]
       /\ y.cmd[e].state = "new" => x.cmd[e].state = "new"
  /\ \A q \in Sources, t \in Texts :
       \/ y.cache[q][t] = x.cache[q][t] \/ y.cache[q][t] = None
       \/ q = p /\ t = Text[c] /\ outcome = "reply" /\ y.cache[q][t] = answer

LEMMA PoppedEffect ==
  ASSUME NEW x, Sound(x), NEW p \in Sources, NEW outcome \in Outcomes,
         NEW answer \in Answers \union {None}, Queue(x, p) # <<>>,
         NEW y, y \in GotResponse(x, p, outcome, answer)
  PROVE  \E z : /\ Sound(z) /\ z.sched = x.sched /\ Popped(x, z, p, outcome, answer)
                /\ \A q \in Sources \ {p} : z.port[q] = x.port[q]
                /\ z.port[p].sendTimer = x.port[p].sendTimer /\ ~z.port[p].waitTimer
                /\ z.port[p].openCount = x.port[p].openCount /\ z.port[p].held = x.port[p].held
                /\ z.port[p].forced = x.port[p].forced /\ z.port[p].reopen = x.port[p].reopen
                /\ \A e \in Cmds : PortOf[e] # p => z.cmd[e] = x.cmd[e]
                /\ \E v \in Callback(z, p) : y = CommandDone(v, p)
<1>1. PICK pt : pt = [x.port[p] EXCEPT !.waitTimer = FALSE, !.watchCancel = None] OBVIOUS
<1>2. PICK l : l = [x.port EXCEPT ![p] = pt] OBVIOUS
<1>3. PICK idle : idle = [x EXCEPT !.port = l] OBVIOUS
<1>4. PICK qt : qt = [idle.port[p] EXCEPT !.queue = Tail(idle.port[p].queue)] OBVIOUS
<1>5. PICK m : m = [idle.port EXCEPT ![p] = qt] OBVIOUS
<1>6. PICK popped : popped = [idle EXCEPT !.port = m] OBVIOUS
<1>7. PICK c : c = Head(Queue(x, p)) OBVIOUS
<1>8. PICK cached : cached = IF outcome = "reply" /\ c \in Cacheable
                               THEN [popped EXCEPT !.cache[p][Text[c]] = answer] ELSE popped
  OBVIOUS
<1>9. PICK z : z = Complete(cached, c, outcome, answer) OBVIOUS
<1>10. \E v \in Callback(z, p) : y = CommandDone(v, p)
  BY <1>1, <1>2, <1>3, <1>4, <1>5, <1>6, <1>7, <1>8, <1>9, Zenon DEF GotResponse
<1>11. /\ x \in DaemonType /\ SchedOK(x.sched) /\ x.port[p] \in PortType
       /\ x.port \in [Sources -> PortType] /\ x.port[p].queue \in Seq(Cmds)
       /\ \A q \in Sources : /\ x.port[q].queue \in Seq(Cmds)
                            /\ Holds(x.port[q].queue, x.cmd, q) /\ PortOK(x.port[q])
  BY DEF Sound, DaemonType, PortType
<1>12. /\ pt \in PortType /\ pt.waitTimer = FALSE /\ pt.watchCancel = None
       /\ pt.openCount = x.port[p].openCount /\ pt.forced = x.port[p].forced
       /\ pt.reopen = x.port[p].reopen /\ pt.held = x.port[p].held /\ pt.queue = x.port[p].queue
       /\ pt.sendTimer = x.port[p].sendTimer
  BY <1>1, <1>11, Zenon DEF PortType
<1>13. /\ l \in [Sources -> PortType] /\ l[p] = pt /\ \A q \in Sources \ {p} : l[q] = x.port[q]
  BY <1>2, <1>11, <1>12
<1>14. /\ idle \in DaemonType /\ idle.port = l /\ idle.sched = x.sched /\ idle.cmd = x.cmd
       /\ idle.cache = x.cache
  BY <1>3, <1>11, <1>13, PortSet
<1>15. PICK r : r = Tail(x.port[p].queue) OBVIOUS
<1>16. r \in Seq(Cmds) BY <1>11, <1>15, Queue(x, p) # <<>> DEF Queue
<1>17. qt = [pt EXCEPT !.queue = r]
  BY <1>4, <1>12, <1>13, <1>14, <1>15, Zenon
<1>18. /\ qt \in PortType /\ qt.queue = r /\ qt.waitTimer = FALSE /\ qt.watchCancel = None
       /\ qt.openCount = x.port[p].openCount /\ qt.forced = x.port[p].forced
       /\ qt.reopen = x.port[p].reopen /\ qt.held = x.port[p].held
       /\ qt.sendTimer = x.port[p].sendTimer
  BY <1>12, <1>16, <1>17, QueueSet
<1>19. /\ m \in [Sources -> PortType] /\ m[p] = qt /\ \A q \in Sources \ {p} : m[q] = x.port[q]
  BY <1>5, <1>13, <1>14, <1>18
<1>20. /\ popped \in DaemonType /\ popped.port = m /\ popped.sched = x.sched
       /\ popped.cmd = x.cmd /\ popped.cache = x.cache
  BY <1>6, <1>14, <1>19, PortSet
<1>21. c \in Cmds /\ PortOf[c] = p /\ x.cmd[c].state = "queued"
  <2>1. PICK q : q = Queue(x, p) OBVIOUS
  <2>2. q \in Seq(Cmds) /\ q # <<>> /\ c = q[1] /\ 1 \in 1 .. Len(q) /\ q[1] \in Cmds
    BY <1>7, <1>11, <2>1 DEF Queue
  <2>3. Holds(q, x.cmd, p) BY <1>11, <2>1 DEF Queue
  <2> QED BY <2>2, <2>3 DEF Holds
<1>22. Text[c] \in Texts BY <1>21 DEF Texts
<1>23. /\ cached \in DaemonType /\ cached.port = m /\ cached.sched = x.sched /\ cached.cmd = x.cmd
       /\ \A q \in Sources, t \in Texts :
            \/ cached.cache[q][t] = x.cache[q][t]
            \/ q = p /\ t = Text[c] /\ outcome = "reply" /\ cached.cache[q][t] = answer
  <2>1. CASE outcome = "reply" /\ c \in Cacheable
    <3>1. PICK h : h = [popped.cache EXCEPT ![p][Text[c]] = answer] OBVIOUS
    <3>2. popped.cache \in [Sources -> [Texts -> Answers \union {None}]] BY <1>20 DEF DaemonType
    <3>3. /\ h \in [Sources -> [Texts -> Answers \union {None}]]
          /\ h[p][Text[c]] = answer
          /\ \A q \in Sources, t \in Texts : q # p \/ t # Text[c] => h[q][t] = popped.cache[q][t]
      BY <1>22, <3>1, <3>2
    <3>4. cached = [popped EXCEPT !.cache = h] BY <2>1, <1>8, <3>1, Zenon
    <3>5. /\ cached \in DaemonType /\ cached.cache = h /\ cached.port = m
          /\ cached.sched = x.sched /\ cached.cmd = x.cmd
      BY <1>20, <3>3, <3>4, CacheSet
    <3> QED BY <2>1, <3>3, <3>5, <1>20
  <2>2. CASE ~(outcome = "reply" /\ c \in Cacheable) BY <2>2, <1>8, <1>20
  <2> QED BY <2>1, <2>2
<1>24. /\ z \in DaemonType
       /\ z.sched = x.sched /\ z.port = m /\ z.cache = cached.cache
       /\ z.cmd[c].state = IF x.cmd[c].cancelled THEN "cancelled" ELSE outcome
       /\ z.cmd[c].answer = answer
       /\ z.cmd[c].sent = x.cmd[c].sent
       /\ \A e \in Cmds \ {c} : z.cmd[e] = x.cmd[e]
  BY <1>9, <1>21, <1>23, CompleteEffect
<1>25. z.cmd[c].state \in {outcome, "cancelled"} /\ z.cmd[c].state # "queued"
  BY <1>24 DEF Outcomes
<1>26. Popped(x, z, p, outcome, answer)
  <2>1. \A e \in Cmds \ {c} :
          /\ z.cmd[e].sent = x.cmd[e].sent
          /\ x.cmd[e].state \in Outcomes \/ z.cmd[e].state = "reply" => z.cmd[e] = x.cmd[e]
          /\ z.cmd[e].state = "new" => x.cmd[e].state = "new"
    BY <1>24
  <2>2. \A q \in Sources, t \in Texts :
          \/ z.cache[q][t] = x.cache[q][t] \/ z.cache[q][t] = None
          \/ q = p /\ t = Text[c] /\ outcome = "reply" /\ z.cache[q][t] = answer
    BY <1>23, <1>24
  <2>3. z.cmd[c].answer = answer /\ z.cmd[c].sent = x.cmd[c].sent BY <1>24
  <2> QED BY <1>7, <1>21, <1>25, <2>1, <2>2, <2>3 DEF Popped
<1>27. Holds(r, z.cmd, p)
  <2>1. PICK q : q = Queue(x, p) OBVIOUS
  <2>2. q \in Seq(Cmds) /\ q # <<>> /\ c = Head(q) /\ r = Tail(q) /\ Holds(q, x.cmd, p)
    BY <1>7, <1>11, <1>15, <2>1 DEF Queue
  <2>3. z.cmd[Head(q)].state # "queued" /\ \A e \in Cmds \ {Head(q)} : z.cmd[e].state = x.cmd[e].state
    BY <1>24, <1>25, <2>2
  <2> QED BY <2>2, <2>3, HoldsPopped
<1>28. ASSUME NEW q \in Sources PROVE Holds(z.port[q].queue, z.cmd, q) /\ PortOK(z.port[q])
  <2>1. CASE q = p
    <3>1. PortOK(qt) BY <2>1, <1>11, <1>18 DEF PortOK
    <3> QED BY <2>1, <3>1, <1>18, <1>19, <1>24, <1>27
  <2>2. CASE q # p
    <3>1. z.port[q] = x.port[q] BY <2>2, <1>19, <1>24
    <3>2. \A e \in Cmds : PortOf[e] = q => z.cmd[e] = x.cmd[e] BY <2>2, <1>21, <1>24
    <3>3. Holds(z.port[q].queue, z.cmd, q) BY <3>1, <3>2, <1>11, HoldsSame
    <3> QED BY <3>1, <3>3, <1>11
  <2> QED BY <2>1, <2>2
<1>29. Sound(z) BY <1>11, <1>24, <1>28 DEF Sound
<1>30. /\ z.port[p].openCount = x.port[p].openCount /\ z.port[p].held = x.port[p].held
       /\ z.port[p].forced = x.port[p].forced /\ z.port[p].reopen = x.port[p].reopen
       /\ \A e \in Cmds : PortOf[e] # p => z.cmd[e] = x.cmd[e]
  BY <1>18, <1>19, <1>21, <1>24
<1>31. /\ \A q \in Sources \ {p} : z.port[q] = x.port[q]
       /\ z.port[p].sendTimer = x.port[p].sendTimer /\ ~z.port[p].waitTimer
  BY <1>18, <1>19, <1>24
<1> QED BY <1>10, <1>24, <1>26, <1>29, <1>30, <1>31

(* What port_serial_got_response leaves, its callback and the scheduler    *)
(* included, when it had a command to complete.                            *)
Answered(x, y, p, outcome, answer) ==
  /\ Sound(y) /\ Popped(x, y, p, outcome, answer)
  /\ y.sched.sources = x.sched.sources /\ y.sched.cur = x.sched.cur
  /\ IsCurrent(x.sched, p) => ~y.sched.inCommand
  /\ ~IsCurrent(x.sched, p) => y.sched.inCommand = x.sched.inCommand
  /\ \A q \in Sources \ {p} : Kept(x, y, q) \/ Emptied(x, y, q)
  /\ ~y.port[p].waitTimer /\ (y.port[p].sendTimer => x.port[p].sendTimer)
  /\ AllCounted(x, y)

LEMMA GotResponseEffect ==
  ASSUME NEW x, Sound(x), NEW p \in Sources, NEW outcome \in Outcomes,
         NEW answer \in Answers \union {None}, Queue(x, p) # <<>>,
         NEW y, y \in GotResponse(x, p, outcome, answer)
  PROVE  Answered(x, y, p, outcome, answer)
<1>1. PICK z : /\ Sound(z) /\ z.sched = x.sched /\ Popped(x, z, p, outcome, answer)
               /\ \A q \in Sources \ {p} : z.port[q] = x.port[q]
               /\ z.port[p].sendTimer = x.port[p].sendTimer /\ ~z.port[p].waitTimer
               /\ z.port[p].openCount = x.port[p].openCount /\ z.port[p].held = x.port[p].held
               /\ z.port[p].forced = x.port[p].forced /\ z.port[p].reopen = x.port[p].reopen
               /\ \A e \in Cmds : PortOf[e] # p => z.cmd[e] = x.cmd[e]
               /\ \E v \in Callback(z, p) : y = CommandDone(v, p)
  BY PoppedEffect
<1>2. PICK v \in Callback(z, p) : y = CommandDone(v, p) BY <1>1
<1>3. Called(z, v) /\ AllCounted(z, v) BY <1>1, <1>2, CallbackCalled
<1>4. /\ Sound(v) /\ SameTurn(z.sched, v.sched) /\ CmdsKept(z, v) /\ CacheKept(z, v)
      /\ \A q \in Sources : Kept(z, v, q) \/ Emptied(z, v, q)
  BY <1>3 DEF Called
<1>5. /\ Sound(y)
      /\ y.sched.sources = v.sched.sources /\ y.sched.cur = v.sched.cur
      /\ (IsCurrent(v.sched, p) => ~y.sched.inCommand)
      /\ (~IsCurrent(v.sched, p) => y.sched.inCommand = v.sched.inCommand)
      /\ y.cmd = v.cmd /\ y.cache = v.cache
      /\ \A q \in Sources \ {p} : y.port[q] = v.port[q]
  BY <1>2, <1>4, CommandDoneEffect
<1>6. /\ y.port[p].openCount = v.port[p].openCount /\ y.port[p].forced = v.port[p].forced
      /\ y.port[p].reopen = v.port[p].reopen /\ y.port[p].held = v.port[p].held
      /\ y.port[p].sendTimer = v.port[p].sendTimer /\ y.port[p].waitTimer = v.port[p].waitTimer
  BY <1>2, <1>4, CommandDoneEffect
<1>7. IsCurrent(v.sched, p) <=> IsCurrent(x.sched, p)
  BY <1>1, <1>4, SameArray DEF SameTurn, IsCurrent
<1>8. /\ y.sched.sources = x.sched.sources /\ y.sched.cur = x.sched.cur
      /\ IsCurrent(x.sched, p) => ~y.sched.inCommand
      /\ ~IsCurrent(x.sched, p) => y.sched.inCommand = x.sched.inCommand
  BY <1>1, <1>4, <1>5, <1>7 DEF SameTurn
<1>9. PICK c : c = Head(Queue(x, p)) OBVIOUS
<1>10. /\ c \in Cmds /\ PortOf[c] = p /\ x.cmd[c].state = "queued"
       /\ z.cmd[c].state \in {outcome, "cancelled"}
       /\ z.cmd[c].answer = answer /\ z.cmd[c].sent = x.cmd[c].sent
       /\ \A e \in Cmds \ {c} :
            /\ z.cmd[e].sent = x.cmd[e].sent
            /\ x.cmd[e].state \in Outcomes \/ z.cmd[e].state = "reply" => z.cmd[e] = x.cmd[e]
            /\ z.cmd[e].state = "new" => x.cmd[e].state = "new"
       /\ \A q \in Sources, t \in Texts :
            \/ z.cache[q][t] = x.cache[q][t] \/ z.cache[q][t] = None
            \/ q = p /\ t = Text[c] /\ outcome = "reply" /\ z.cache[q][t] = answer
  BY <1>1, <1>9 DEF Popped
<1>11. Popped(x, y, p, outcome, answer)
  <2>1. y.cmd[c] = z.cmd[c] BY <1>4, <1>5, <1>10 DEF CmdsKept, Outcomes
  <2>2. \A e \in Cmds \ {c} :
          /\ y.cmd[e].sent = x.cmd[e].sent
          /\ x.cmd[e].state \in Outcomes \/ y.cmd[e].state = "reply" => y.cmd[e] = x.cmd[e]
          /\ y.cmd[e].state = "new" => x.cmd[e].state = "new"
    <3> TAKE e \in Cmds \ {c}
    <3>1. /\ v.cmd[e].sent = z.cmd[e].sent
          /\ z.cmd[e].state \in Outcomes \/ v.cmd[e].state = "reply" => v.cmd[e] = z.cmd[e]
          /\ v.cmd[e].state = "new" => z.cmd[e].state = "new"
      BY <1>4 DEF CmdsKept
    <3>2. /\ z.cmd[e].sent = x.cmd[e].sent
          /\ x.cmd[e].state \in Outcomes \/ z.cmd[e].state = "reply" => z.cmd[e] = x.cmd[e]
          /\ z.cmd[e].state = "new" => x.cmd[e].state = "new"
      BY <1>10
    <3>3. y.cmd[e] = v.cmd[e] BY <1>5
    <3> QED BY <3>1, <3>2, <3>3
  <2>3. \A q \in Sources, t \in Texts :
          \/ y.cache[q][t] = x.cache[q][t] \/ y.cache[q][t] = None
          \/ q = p /\ t = Text[c] /\ outcome = "reply" /\ y.cache[q][t] = answer
    BY <1>4, <1>5, <1>10 DEF CacheKept
  <2> QED BY <1>9, <1>10, <2>1, <2>2, <2>3 DEF Popped
<1>12. \A e \in Cmds : z.cmd[e].state = "new" => x.cmd[e].state = "new"
  BY <1>10 DEF Outcomes
<1>13. ASSUME NEW q \in Sources \ {p}
       PROVE  (Kept(x, y, q) \/ Emptied(x, y, q)) /\ Counted(x, y, q)
  <2>1. z.port[q] = x.port[q] /\ y.port[q] = v.port[q] BY <1>1, <1>5
  <2>2. Counted(x, y, q) BY <2>1, <1>3 DEF AllCounted, Counted, IsOpen
  <2>3. CASE Kept(z, v, q)
    <3>1. Overtaken(z, v, q) => Overtaken(x, y, q)
      BY <1>5, <1>12, PortSerialAssumption DEF Overtaken
    <3>2. Queue(z, q) = Queue(x, q) /\ Queue(y, q) = Queue(v, q) BY <2>1 DEF Queue
    <3> QED BY <2>1, <2>2, <2>3, <3>1, <3>2 DEF Kept
  <2>4. CASE Emptied(z, v, q)
    <3>1. HasTurn(z, q) <=> HasTurn(x, q) BY <1>1 DEF HasTurn
    <3>2. \A e \in Cmds : PortOf[e] = q => z.cmd[e] = x.cmd[e] BY <1>1
    <3>3. Queue(y, q) = Queue(v, q) BY <2>1 DEF Queue
    <3>4. \A e \in Cmds : y.cmd[e] = v.cmd[e] BY <1>5
    <3> QED BY <2>1, <2>2, <2>4, <3>1, <3>2, <3>3, <3>4 DEF Emptied
  <2> QED BY <2>3, <2>4, <1>4
<1>14. ~y.port[p].waitTimer /\ (y.port[p].sendTimer => x.port[p].sendTimer)
  BY <1>1, <1>4, <1>6 DEF Kept, Emptied
<1>15. Counted(x, y, p) BY <1>1, <1>3, <1>6 DEF AllCounted, Counted, IsOpen
<1>16. AllCounted(x, y) BY <1>13, <1>15 DEF AllCounted
<1> QED BY <1>5, <1>8, <1>11, <1>13, <1>14, <1>16 DEF Answered

----------------------------------------------------------------------------
(* The parts of the invariant after a call and after a response.           *)
LEMMA OneTurn ==
  ASSUME NEW s, SchedOK(s), NEW p, NEW q, IsCurrent(s, p), IsCurrent(s, q)
  PROVE  p = q
<1>1. s \in SchedulerType /\ p \in Registered(s) /\ q \in Registered(s) BY DEF SchedOK, IsCurrent
<1>2. SourceAt(s, IndexOf(s, p)) = p /\ SourceAt(s, IndexOf(s, q)) = q BY <1>1, IndexOfRegistered
<1> QED BY <1>2 DEF IsCurrent

LEMMA HeadOf ==
  ASSUME NEW x, Sound(x), NEW p \in Sources, Queue(x, p) # <<>>, NEW c, c = Head(Queue(x, p))
  PROVE  c \in Cmds /\ PortOf[c] = p /\ x.cmd[c].state = "queued"
<1>1. PICK q : q = Queue(x, p) OBVIOUS
<1>2. q \in Seq(Cmds) /\ Holds(q, x.cmd, p) BY <1>1 DEF Sound, DaemonType, PortType, Queue
<1>3. c = q[1] /\ 1 \in 1 .. Len(q) /\ q[1] \in Cmds BY <1>1, <1>2
<1> QED BY <1>2, <1>3 DEF Holds

LEMMA KeptFlight ==
  ASSUME NEW x, NEW y, NEW p, Kept(x, y, p)
  PROVE  (InFlight(y, p) <=> InFlight(x, p)) /\ y.port[p].lost = x.port[p].lost
BY DEF Kept, InFlight

LEMMA KeptSends ==
  ASSUME NEW x, Sound(x), NEW y, NEW p \in Sources, RunFirst = {},
         Kept(x, y, p) \/ Emptied(x, y, p), \A c \in Cmds : y.cmd[c].sent = x.cmd[c].sent,
         SendsOK(x, p), HasTurn(x, p) => HasTurn(y, p)
  PROVE  SendsOK(y, p)
<1>1. CASE Kept(x, y, p)
  <2>1. InFlight(y, p) => HasTurn(y, p) BY <1>1, KeptFlight DEF SendsOK
  <2>2. ASSUME y.port[p].sendTimer PROVE Queue(y, p) # <<>> /\ y.cmd[Head(Queue(y, p))].sent = "part"
    <3>1. Queue(x, p) # <<>> /\ x.cmd[Head(Queue(x, p))].sent = "part" BY <1>1, <2>2 DEF Kept, SendsOK
    <3>2. Head(Queue(x, p)) \in Cmds BY <3>1, HeadOf
    <3>3. Queue(y, p) # <<>> /\ Head(Queue(y, p)) = Head(Queue(x, p))
      BY <1>1, <3>1 DEF Kept, Overtaken
    <3> QED BY <3>1, <3>2, <3>3
  <2> QED BY <2>1, <2>2 DEF SendsOK
<1>2. CASE Emptied(x, y, p) BY <1>2 DEF Emptied, SendsOK, InFlight
<1> QED BY <1>1, <1>2

LEMMA CalledKeeps ==
  ASSUME NEW x, Sound(x), NEW y, Called(x, y)
  PROVE  (TurnOK(x) => TurnOK(y)) /\ (SendOK(x) => SendOK(y))
<1>1. /\ SameTurn(x.sched, y.sched) /\ \A q \in Sources : Kept(x, y, q) \/ Emptied(x, y, q)
      /\ \A c \in Cmds : y.cmd[c].sent = x.cmd[c].sent
  BY DEF Called, CmdsKept
<1>2. \A q : HasTurn(y, q) <=> HasTurn(x, q) BY <1>1, SameTurns
<1>3. ASSUME TurnOK(x), y.sched.inCommand
      PROVE  \E q \in Sources : HasTurn(y, q) /\ (InFlight(y, q) \/ y.port[q].lost # "no")
  <2>1. PICK q \in Sources : HasTurn(x, q) /\ (InFlight(x, q) \/ x.port[q].lost # "no")
    BY <1>1, <1>3 DEF SameTurn, TurnOK
  <2>2. CASE Kept(x, y, q) BY <2>1, <2>2, <1>2, KeptFlight
  <2>3. CASE Emptied(x, y, q) BY <2>1, <2>3, <1>2 DEF Emptied
  <2> QED BY <2>2, <2>3, <1>1
<1>4. ASSUME SendOK(x), RunFirst = {}, NEW q \in Sources PROVE SendsOK(y, q)
  BY <1>1, <1>2, <1>4, KeptSends DEF SendOK
<1> QED BY <1>3, <1>4 DEF TurnOK, SendOK

LEMMA AnsweredKeeps ==
  ASSUME NEW x, Sound(x), NEW p \in Sources, NEW outcome, NEW answer, NEW y,
         Answered(x, y, p, outcome, answer)
  PROVE  /\ HasTurn(x, p) \/ TurnOK(x) => TurnOK(y)
         /\ (RunFirst = {} => ~x.port[p].sendTimer /\ \A q \in Sources \ {p} : SendsOK(x, q))
              => SendOK(y)
<1>1. /\ y.sched.sources = x.sched.sources /\ y.sched.cur = x.sched.cur
      /\ (IsCurrent(x.sched, p) => ~y.sched.inCommand)
      /\ (~IsCurrent(x.sched, p) => y.sched.inCommand = x.sched.inCommand)
      /\ \A q \in Sources \ {p} : Kept(x, y, q) \/ Emptied(x, y, q)
      /\ ~y.port[p].waitTimer /\ (y.port[p].sendTimer => x.port[p].sendTimer)
  BY DEF Answered
<1>2. \A c \in Cmds : y.cmd[c].sent = x.cmd[c].sent BY DEF Answered, Popped
<1>3. ~IsCurrent(x.sched, p) => \A q : HasTurn(y, q) <=> HasTurn(x, q)
  BY <1>1, SameTurns DEF SameTurn
<1>4. SchedOK(x.sched) BY DEF Sound
<1>5. ASSUME HasTurn(x, p) \/ TurnOK(x), y.sched.inCommand
      PROVE  \E q \in Sources : HasTurn(y, q) /\ (InFlight(y, q) \/ y.port[q].lost # "no")
  <2>1. ~IsCurrent(x.sched, p) /\ x.sched.inCommand BY <1>1, <1>5
  <2>2. PICK q \in Sources : HasTurn(x, q) /\ (InFlight(x, q) \/ x.port[q].lost # "no")
    BY <1>5, <2>1 DEF TurnOK, HasTurn
  <2>3. q \in Sources \ {p} BY <2>1, <2>2 DEF HasTurn
  <2>4. CASE Kept(x, y, q) BY <2>1, <2>2, <2>4, <1>3, KeptFlight
  <2>5. CASE Emptied(x, y, q) BY <2>1, <2>2, <2>5, <1>3 DEF Emptied
  <2> QED BY <2>3, <2>4, <2>5, <1>1
<1>6. ASSUME RunFirst = {}, ~x.port[p].sendTimer, \A q \in Sources \ {p} : SendsOK(x, q),
             NEW q \in Sources
      PROVE  SendsOK(y, q)
  <2>1. CASE q = p BY <2>1, <1>1, <1>6 DEF SendsOK, InFlight
  <2>2. CASE q # p
    <3>1. SendsOK(x, q) /\ (Kept(x, y, q) \/ Emptied(x, y, q)) BY <2>2, <1>1, <1>6
    <3>2. CASE IsCurrent(x.sched, p)
      <4>1. ~HasTurn(x, q) BY <2>2, <3>2, <1>4, OneTurn DEF HasTurn
      <4> QED BY <3>1, <4>1, <1>2, <1>6, KeptSends
    <3>3. CASE ~IsCurrent(x.sched, p) BY <3>1, <3>3, <1>2, <1>3, <1>6, KeptSends
    <3> QED BY <3>2, <3>3
  <2> QED BY <2>1, <2>2
<1> QED BY <1>5, <1>6 DEF TurnOK, SendOK

LEMMA CalledAnswers ==
  ASSUME NEW x, NEW y, Called(x, y), NEW S, AnswersOK(x, S)
  PROVE  AnswersOK(y, S)
<1>1. CmdsKept(x, y) /\ CacheKept(x, y) BY DEF Called
<1>2. ASSUME NEW p \in Sources \ S PROVE CacheOK(y, p)
  <2>1. CacheOK(x, p) BY DEF AnswersOK
  <2> QED BY <1>1, <2>1 DEF CacheKept, CacheOK
<1>3. ASSUME NEW c \in Cmds, PortOf[c] \notin S PROVE ReplyOK(y, c)
  <2>1. ReplyOK(x, c) BY <1>3 DEF AnswersOK
  <2> QED BY <1>1, <2>1 DEF CmdsKept, ReplyOK
<1> QED BY <1>2, <1>3 DEF AnswersOK

(* The answer fits the command at the head of the queue of p.              *)
Fits(x, p, answer) ==
  LET c == Head(Queue(x, p)) IN
  answer \in Cmds /\ Text[answer] = Text[c] /\ (c \notin Cacheable => answer = c)

LEMMA AnsweredAnswers ==
  ASSUME NEW x, NEW p \in Sources, NEW outcome \in Outcomes, NEW answer, NEW y,
         Answered(x, y, p, outcome, answer),
         NEW S, AnswersOK(x, S), p \notin S /\ outcome = "reply" => Fits(x, p, answer)
  PROVE  AnswersOK(y, S)
<1>1. PICK c : c = Head(Queue(x, p)) OBVIOUS
<1>2. /\ c \in Cmds /\ PortOf[c] = p
      /\ y.cmd[c].state \in {outcome, "cancelled"} /\ y.cmd[c].answer = answer
      /\ \A e \in Cmds \ {c} : y.cmd[e].state = "reply" => y.cmd[e] = x.cmd[e]
      /\ \A q \in Sources, t \in Texts :
           \/ y.cache[q][t] = x.cache[q][t] \/ y.cache[q][t] = None
           \/ q = p /\ t = Text[c] /\ outcome = "reply" /\ y.cache[q][t] = answer
  BY <1>1 DEF Answered, Popped
<1>3. p \notin S /\ outcome = "reply" =>
        answer \in Cmds /\ Text[answer] = Text[c] /\ (c \notin Cacheable => answer = c)
  BY <1>1 DEF Fits
<1>4. ASSUME NEW q \in Sources \ S PROVE CacheOK(y, q)
  <2>1. CacheOK(x, q) BY DEF AnswersOK
  <2> QED BY <1>2, <1>3, <2>1 DEF CacheOK
<1>5. ASSUME NEW e \in Cmds, PortOf[e] \notin S PROVE ReplyOK(y, e)
  <2>1. ReplyOK(x, e) BY <1>5 DEF AnswersOK
  <2>2. CASE e = c BY <2>1, <2>2, <1>2, <1>3, <1>5 DEF ReplyOK
  <2>3. CASE e # c BY <2>1, <2>3, <1>2 DEF ReplyOK
  <2> QED BY <2>2, <2>3
<1> QED BY <1>4, <1>5 DEF AnswersOK

LEMMA AnswersMore ==
  ASSUME NEW x, NEW S, AnswersOK(x, S), NEW T, S \subseteq T
  PROVE  AnswersOK(x, T)
BY DEF AnswersOK

----------------------------------------------------------------------------
(* port_serial_queue_process.                                              *)

(* The invariant but for the ghost, and what holds when p starts to send.  *)
Fine(x, w, S) == Sound(x) /\ TurnOK(x) /\ SendOK(x) /\ AnswersOK(x, S) /\ WireOK(x, w)

Ready(x, w, p, S) ==
  /\ Sound(x) /\ AnswersOK(x, S) /\ WireOK(x, w)
  /\ ~x.port[p].waitTimer /\ (HasTurn(x, p) \/ TurnOK(x))
  /\ RunFirst = {} => HasTurn(x, p) /\ \A q \in Sources \ {p} : SendsOK(x, q)

(* Only the port p may have changed, and of its record not the counts.     *)
OnlyPort(x, y, p) ==
  /\ y.sched = x.sched /\ y.cache = x.cache
  /\ \A q \in Sources \ {p} : y.port[q] = x.port[q]
  /\ y.port[p].openCount = x.port[p].openCount /\ y.port[p].held = x.port[p].held
  /\ y.port[p].forced = x.port[p].forced /\ y.port[p].reopen = x.port[p].reopen
  /\ y.port[p].queue = x.port[p].queue

(* The commands have only been sent further, and only that at the head.    *)
OnlySent(x, y, p) ==
  \A c \in Cmds :
    /\ y.cmd[c].state = x.cmd[c].state /\ y.cmd[c].answer = x.cmd[c].answer
    /\ PortOf[c] # p => y.cmd[c] = x.cmd[c]

LEMMA OnlyPortKept ==
  ASSUME NEW x, NEW y, NEW p, OnlyPort(x, y, p), OnlySent(x, y, p)
  PROVE  /\ \A q : HasTurn(y, q) <=> HasTurn(x, q)
         /\ \A q \in Sources \ {p} : Kept(x, y, q)
         /\ AllCounted(x, y)
         /\ \A S : AnswersOK(x, S) => AnswersOK(y, S)
<1>1. \A q : HasTurn(y, q) <=> HasTurn(x, q) BY DEF OnlyPort, HasTurn
<1>2. \A q \in Sources \ {p} : Kept(x, y, q) BY DEF OnlyPort, Kept, Queue
<1>3. AllCounted(x, y) BY DEF OnlyPort, AllCounted, Counted
<1>4. ASSUME NEW S, AnswersOK(x, S) PROVE AnswersOK(y, S)
  <2>1. \A q \in Sources \ S : CacheOK(y, q) BY <1>4 DEF AnswersOK, CacheOK, OnlyPort
  <2>2. \A c \in Cmds : PortOf[c] \notin S => ReplyOK(y, c)
    BY <1>4 DEF AnswersOK, ReplyOK, OnlySent
  <2> QED BY <2>1, <2>2 DEF AnswersOK
<1> QED BY <1>1, <1>2, <1>3, <1>4

LEMMA OnlyPortSound ==
  ASSUME NEW x, Sound(x), NEW y \in DaemonType, NEW p \in Sources,
         OnlyPort(x, y, p), OnlySent(x, y, p), PortOK(y.port[p])
  PROVE  Sound(y)
<1>1. ASSUME NEW q \in Sources PROVE Holds(y.port[q].queue, y.cmd, q) /\ PortOK(y.port[q])
  <2>1. /\ x.port[q].queue \in Seq(Cmds) /\ Holds(x.port[q].queue, x.cmd, q) /\ PortOK(x.port[q])
    BY DEF Sound, DaemonType, PortType
  <2>2. y.port[q].queue = x.port[q].queue /\ PortOK(y.port[q]) BY <2>1 DEF OnlyPort
  <2>3. Holds(x.port[q].queue, y.cmd, q) BY <2>1, HoldsSame DEF OnlySent
  <2> QED BY <2>2, <2>3
<1> QED BY <1>1 DEF Sound, OnlyPort

(* A state that p, not waiting before, leaves for a while or keeps.         *)
LEMMA SentFine ==
  ASSUME NEW x, NEW w, NEW p \in Sources, NEW S, Ready(x, w, p, S),
         NEW y \in DaemonType, OnlyPort(x, y, p), OnlySent(x, y, p), PortOK(y.port[p]),
         HasTurn(x, p) => InFlight(y, p) \/ y.port[p].lost # "no",
         RunFirst = {} => SendsOK(y, p), NEW v, WireOK(y, v)
  PROVE  Fine(y, v, S)
<1>1. Sound(x) /\ AnswersOK(x, S) /\ (HasTurn(x, p) \/ TurnOK(x)) BY DEF Ready
<1>2. Sound(y) BY <1>1, OnlyPortSound
<1>3. /\ \A q : HasTurn(y, q) <=> HasTurn(x, q)
      /\ \A q \in Sources \ {p} : Kept(x, y, q)
      /\ AnswersOK(y, S)
  BY <1>1, OnlyPortKept
<1>4. ASSUME y.sched.inCommand
      PROVE  \E q \in Sources : HasTurn(y, q) /\ (InFlight(y, q) \/ y.port[q].lost # "no")
  <2>1. CASE HasTurn(x, p) BY <2>1, <1>3
  <2>2. CASE ~HasTurn(x, p)
    <3>1. x.sched.inCommand BY <1>4 DEF OnlyPort
    <3>2. PICK q \in Sources : HasTurn(x, q) /\ (InFlight(x, q) \/ x.port[q].lost # "no")
      BY <2>2, <3>1, <1>1 DEF TurnOK
    <3>3. q \in Sources \ {p} BY <2>2, <3>2
    <3> QED BY <3>2, <3>3, <1>3, KeptFlight
  <2> QED BY <2>1, <2>2
<1>5. ASSUME RunFirst = {}, NEW q \in Sources PROVE SendsOK(y, q)
  <2>1. CASE q = p BY <2>1, <1>5
  <2>2. CASE q # p
    <3>1. SendsOK(x, q) BY <2>2, <1>5 DEF Ready
    <3>2. InFlight(y, q) => HasTurn(y, q) BY <2>2, <3>1, <1>3, KeptFlight DEF SendsOK
    <3>3. ASSUME y.port[q].sendTimer PROVE Queue(y, q) # <<>> /\ y.cmd[Head(Queue(y, q))].sent = "part"
      <4>1. x.port[q].sendTimer /\ Queue(y, q) = Queue(x, q) BY <2>2, <3>3 DEF OnlyPort, Queue
      <4>2. Queue(x, q) # <<>> /\ x.cmd[Head(Queue(x, q))].sent = "part" BY <3>1, <4>1 DEF SendsOK
      <4>3. Head(Queue(x, q)) \in Cmds /\ PortOf[Head(Queue(x, q))] = q BY <4>2, <1>1, HeadOf
      <4> QED BY <2>2, <4>1, <4>2, <4>3 DEF OnlySent
    <3> QED BY <3>2, <3>3 DEF SendsOK
  <2> QED BY <2>1, <2>2
<1> QED BY <1>2, <1>3, <1>4, <1>5 DEF Fine, TurnOK, SendOK

(* The same when the head of the queue ends at once.                        *)
LEMMA AnsweredFine ==
  ASSUME NEW x, NEW w, NEW p \in Sources, NEW S, Ready(x, w, p, S), ~x.port[p].sendTimer,
         NEW outcome \in Outcomes, NEW answer, NEW y, Answered(x, y, p, outcome, answer),
         p \notin S /\ outcome = "reply" => Fits(x, p, answer)
  PROVE  Fine(y, w, S)
<1>1. /\ Sound(x) /\ AnswersOK(x, S) /\ WireOK(x, w) /\ (HasTurn(x, p) \/ TurnOK(x))
      /\ RunFirst = {} => \A q \in Sources \ {p} : SendsOK(x, q)
  BY DEF Ready
<1>2. TurnOK(y) /\ SendOK(y) BY <1>1, AnsweredKeeps
<1>3. AnswersOK(y, S) BY <1>1, AnsweredAnswers
<1>4. \A c \in Cmds : y.cmd[c].sent = x.cmd[c].sent BY DEF Answered, Popped
<1>5. WireOK(y, w) BY <1>1, <1>4 DEF WireOK
<1> QED BY <1>2, <1>3, <1>5 DEF Fine, Answered

LEMMA AnsweredSame ==
  ASSUME NEW x, NEW u, NEW p \in Sources, OnlyPort(x, u, p), OnlySent(x, u, p),
         NEW outcome, NEW answer, NEW y, Answered(u, y, p, outcome, answer)
  PROVE  /\ \A q \in Sources \ {p} : Kept(x, y, q) \/ Emptied(x, y, q)
         /\ AllCounted(x, y)
<1>1. \A q : HasTurn(u, q) <=> HasTurn(x, q) BY OnlyPortKept
<1>2. ASSUME NEW q \in Sources \ {p} PROVE Kept(x, y, q) \/ Emptied(x, y, q)
  <2>1. u.port[q] = x.port[q] /\ Queue(u, q) = Queue(x, q) BY DEF OnlyPort, Queue
  <2>2. \A c \in Cmds : u.cmd[c].state = x.cmd[c].state BY DEF OnlySent
  <2>3. Overtaken(u, y, q) => Overtaken(x, y, q) BY <2>2, PortSerialAssumption DEF Overtaken
  <2>4. CASE Kept(u, y, q) BY <2>1, <2>3, <2>4 DEF Kept
  <2>5. CASE Emptied(u, y, q) BY <1>1, <2>1, <2>2, <2>5 DEF Emptied
  <2> QED BY <2>4, <2>5 DEF Answered
<1>3. AllCounted(x, y)
  <2>1. ASSUME NEW q \in Sources PROVE Counted(x, y, q)
    <3>1. /\ u.port[q].openCount = x.port[q].openCount /\ u.port[q].held = x.port[q].held
          /\ u.port[q].forced = x.port[q].forced /\ u.port[q].reopen = x.port[q].reopen
      BY DEF OnlyPort
    <3>2. Counted(u, y, q) BY DEF Answered, AllCounted
    <3> QED BY <3>1, <3>2 DEF Counted, IsOpen
  <2> QED BY <2>1 DEF AllCounted
<1> QED BY <1>2, <1>3

(* What queue_process did to the ports, for the action properties: nothing *)
(* was put on a wire but the head of the queue, which then waits, or ends. *)
Sends(x, y, w, v, p) ==
  \/ v = w
  \/ /\ \A q \in Sources \ {p} : v[q] = w[q]
     /\ \E c \in Cmds :
          /\ PortOf[c] = p /\ v[p] = Append(w[p], c)
          /\ \/ y.port[p].waitTimer /\ Queue(y, p) # <<>> /\ Head(Queue(y, p)) = c
             \/ x.cmd[c].state = "queued" /\ y.cmd[c].sent = "all" /\ y.cmd[c].state = "cancelled"

Processed(x, y, w, v, p) ==
  /\ \A q \in Sources \ {p} : Kept(x, y, q) \/ Emptied(x, y, q)
  /\ AllCounted(x, y) /\ Sends(x, y, w, v, p)

(* The states in which queue_process leaves the port.                      *)
Now(x, p) == [x EXCEPT !.port[p].sendTimer = FALSE]
Idle(x, p) == IF HasTurn(x, p) THEN [Now(x, p) EXCEPT !.port[p].lost = "empty"] ELSE Now(x, p)
PartSent(x, p, c) == [x EXCEPT !.cmd[c].sent = "part", !.port[p].sendTimer = TRUE]
AllSent(x, c) == [x EXCEPT !.cmd[c].sent = "all"]
WholeSent(x, y, c) == y.port = x.port /\ y.cmd[c].sent = "all"
Wired(w, p, c) == [w EXCEPT ![p] = Append(w[p], c)]

LEMMA QueueProcessCases ==
  ASSUME NEW x, NEW w, NEW p, NEW r, r \in QueueProcess(x, w, p),
         NEW now, now = Now(x, p), NEW c, c = Head(Queue(x, p))
  PROVE  /\ Queue(x, p) = <<>> => r.wire = w /\ r.state = Idle(x, p)
         /\ Queue(x, p) # <<>> =>
              \/ /\ c \in Cacheable /\ Cached(x, p, c) # None
                 /\ r.wire = w /\ r.state \in GotResponse(now, p, "reply", Cached(x, p, c))
              \/ r.wire = w /\ r.state \in GotResponse(now, p, "failed", None)
              \/ r \in Written(now, w, p, c)
              \/ x.cmd[c].sent = "no" /\ r.wire = w /\ r.state = PartSent(now, p, c)
<1> DEFINE Same(states) == {[state |-> y, wire |-> w] : y \in states}
<1>1. \A W : r \in Same(W) => r.wire = w /\ r.state \in W OBVIOUS
<1>2. CASE Queue(x, p) = <<>>
  <2>1. PICK idle : idle = Idle(x, p) OBVIOUS
  <2>2. r \in {[state |-> y, wire |-> w] : y \in {idle}}
    BY <1>2, <2>1, Zenon DEF QueueProcess, Idle, Now
  <2> QED BY <1>1, <1>2, <2>1, <2>2
<1>3. CASE Queue(x, p) # <<>>
  <2>1. PICK hit : hit = Cached(x, p, c) OBVIOUS
  <2>2. PICK part : part = PartSent(now, p, c) OBVIOUS
  <2>3. \/ /\ c \in Cacheable /\ hit # None
           /\ r \in {[state |-> y, wire |-> w] : y \in GotResponse(now, p, "reply", hit)}
        \/ r \in {[state |-> y, wire |-> w] : y \in GotResponse(now, p, "failed", None)}
        \/ r \in Written(now, w, p, c)
        \/ x.cmd[c].sent = "no" /\ r \in {[state |-> y, wire |-> w] : y \in {part}}
    BY <1>3, <2>1, <2>2, Zenon DEF QueueProcess, PartSent, Now
  <2> QED BY <1>1, <1>3, <2>1, <2>2, <2>3
<1> QED BY <1>2, <1>3

LEMMA WrittenCases ==
  ASSUME NEW x, NEW w, NEW p, NEW c, NEW r, r \in Written(x, w, p, c), NEW all, all = AllSent(x, c)
  PROVE  /\ r.state \in Wait(all, p, c)
         /\ \/ r.wire = w /\ x.cmd[c].sent = "all"
            \/ r.wire = Wired(w, p, c)
<1>1. PICK Y : Y = Wait(all, p, c) OBVIOUS
<1>2. Y = Wait([x EXCEPT !.cmd[c].sent = "all"], p, c) BY <1>1, Zenon DEF AllSent
<1>3. PICK v : v = Wired(w, p, c) OBVIOUS
<1>4. PICK wires : wires = IF x.cmd[c].sent = "all" THEN {w, v} ELSE {v} OBVIOUS
<1>5. r \in {[state |-> y, wire |-> u] : y \in Y, u \in wires} BY <1>2, <1>3, <1>4 DEF Written, Wired
<1>6. r.state \in Y /\ r.wire \in wires BY <1>5
<1> QED BY <1>1, <1>3, <1>4, <1>6

LEMMA NowReady ==
  ASSUME NEW x, NEW w, NEW p \in Sources, NEW S, Ready(x, w, p, S), NEW now, now = Now(x, p)
  PROVE  /\ Ready(now, w, p, S) /\ OnlyPort(x, now, p) /\ OnlySent(x, now, p)
         /\ now.cmd = x.cmd /\ ~now.port[p].sendTimer
<1>a. PICK pt : pt = [x.port[p] EXCEPT !.sendTimer = FALSE] OBVIOUS
<1>b. PICK l : l = [x.port EXCEPT ![p] = pt] OBVIOUS
<1>c. now = [x EXCEPT !.port = l] BY <1>a, <1>b, Zenon DEF Now
<1>1. /\ Sound(x) /\ AnswersOK(x, S) /\ WireOK(x, w)
      /\ ~x.port[p].waitTimer /\ (HasTurn(x, p) \/ TurnOK(x))
      /\ RunFirst = {} => HasTurn(x, p) /\ \A q \in Sources \ {p} : SendsOK(x, q)
  BY DEF Ready
<1>2. /\ x \in DaemonType /\ x.port \in [Sources -> PortType] /\ x.port[p] \in PortType
      /\ PortOK(x.port[p])
  BY <1>1 DEF Sound, DaemonType
<1>3. /\ pt \in PortType /\ pt.sendTimer = FALSE
      /\ pt.openCount = x.port[p].openCount /\ pt.forced = x.port[p].forced
      /\ pt.reopen = x.port[p].reopen /\ pt.held = x.port[p].held /\ pt.queue = x.port[p].queue
      /\ pt.waitTimer = x.port[p].waitTimer /\ pt.watchCancel = x.port[p].watchCancel
      /\ pt.lost = x.port[p].lost
  BY <1>a, <1>2, Zenon DEF PortType
<1>4. /\ l \in [Sources -> PortType] /\ l[p] = pt /\ \A q \in Sources \ {p} : l[q] = x.port[q]
  BY <1>b, <1>2, <1>3
<1>5. /\ now \in DaemonType /\ now.port = l /\ now.sched = x.sched /\ now.cmd = x.cmd
      /\ now.cache = x.cache
  BY <1>c, <1>2, <1>4, PortSet
<1>6. OnlyPort(x, now, p) /\ OnlySent(x, now, p) /\ ~now.port[p].sendTimer /\ ~now.port[p].waitTimer
  BY <1>1, <1>3, <1>4, <1>5 DEF OnlyPort, OnlySent
<1>7. PortOK(now.port[p]) BY <1>1, <1>2, <1>3, <1>4, <1>5 DEF PortOK
<1>8. Sound(now) BY <1>1, <1>5, <1>6, <1>7, OnlyPortSound
<1>9. /\ \A q : HasTurn(now, q) <=> HasTurn(x, q)
      /\ \A q \in Sources \ {p} : Kept(x, now, q)
      /\ AnswersOK(now, S)
  BY <1>1, <1>6, OnlyPortKept
<1>10. WireOK(now, w) BY <1>1, <1>5 DEF WireOK
<1>11. HasTurn(now, p) \/ TurnOK(now)
  <2>1. CASE HasTurn(x, p) BY <2>1, <1>9
  <2>2. ASSUME ~HasTurn(x, p), now.sched.inCommand
        PROVE  \E q \in Sources : HasTurn(now, q) /\ (InFlight(now, q) \/ now.port[q].lost # "no")
    <3>1. PICK q \in Sources : HasTurn(x, q) /\ (InFlight(x, q) \/ x.port[q].lost # "no")
      BY <1>1, <1>5, <2>2 DEF TurnOK
    <3>2. q \in Sources \ {p} BY <2>2, <3>1
    <3> QED BY <3>1, <3>2, <1>9, KeptFlight
  <2> QED BY <2>1, <2>2 DEF TurnOK
<1>12. ASSUME RunFirst = {} PROVE HasTurn(now, p) /\ \A q \in Sources \ {p} : SendsOK(now, q)
  <2>1. HasTurn(now, p) BY <1>1, <1>9, <1>12
  <2>2. ASSUME NEW q \in Sources \ {p} PROVE SendsOK(now, q)
    BY <1>1, <1>5, <1>9, <1>12, KeptSends
  <2> QED BY <2>1, <2>2
<1> QED BY <1>5, <1>6, <1>8, <1>9, <1>10, <1>11, <1>12 DEF Ready

LEMMA IdleFine ==
  ASSUME NEW x, NEW w, NEW p \in Sources, NEW S, Ready(x, w, p, S), Queue(x, p) = <<>>,
         NEW y, y = Idle(x, p)
  PROVE  Fine(y, w, S) /\ OnlyPort(x, y, p) /\ OnlySent(x, y, p)
<1>1. PICK now : now = Now(x, p) OBVIOUS
<1>2. /\ Ready(now, w, p, S) /\ OnlyPort(x, now, p) /\ OnlySent(x, now, p)
      /\ now.cmd = x.cmd /\ ~now.port[p].sendTimer
  BY <1>1, NowReady
<1>3. /\ now \in DaemonType /\ now.port \in [Sources -> PortType] /\ now.port[p] \in PortType
      /\ PortOK(now.port[p]) /\ ~now.port[p].waitTimer /\ WireOK(now, w)
  BY <1>2 DEF Ready, Sound, DaemonType
<1>4. HasTurn(now, p) <=> HasTurn(x, p) BY <1>2, OnlyPortKept
<1>5. CASE HasTurn(x, p)
  <2>1. PICK pt : pt = [now.port[p] EXCEPT !.lost = "empty"] OBVIOUS
  <2>2. PICK l : l = [now.port EXCEPT ![p] = pt] OBVIOUS
  <2>3. y = [now EXCEPT !.port = l] BY <1>1, <1>5, <2>1, <2>2, Zenon DEF Idle
  <2>4. /\ pt \in PortType /\ pt.lost = "empty" /\ pt.sendTimer = now.port[p].sendTimer
        /\ pt.openCount = now.port[p].openCount /\ pt.forced = now.port[p].forced
        /\ pt.reopen = now.port[p].reopen /\ pt.held = now.port[p].held
        /\ pt.queue = now.port[p].queue
        /\ pt.waitTimer = now.port[p].waitTimer /\ pt.watchCancel = now.port[p].watchCancel
    BY <1>3, <2>1, Zenon DEF PortType
  <2>5. /\ l \in [Sources -> PortType] /\ l[p] = pt /\ \A q \in Sources \ {p} : l[q] = now.port[q]
    BY <1>3, <2>2, <2>4
  <2>6. /\ y \in DaemonType /\ y.port = l /\ y.sched = now.sched /\ y.cmd = now.cmd
        /\ y.cache = now.cache
    BY <1>3, <2>3, <2>5, PortSet
  <2>7. OnlyPort(now, y, p) /\ OnlySent(now, y, p) BY <2>4, <2>5, <2>6 DEF OnlyPort, OnlySent
  <2>8. OnlyPort(x, y, p) /\ OnlySent(x, y, p)
    BY <1>2, <2>4, <2>5, <2>6 DEF OnlyPort, OnlySent
  <2>9. y.port[p].lost # "no" /\ PortOK(y.port[p]) BY <1>3, <2>4, <2>5, <2>6 DEF PortOK
  <2>10. SendsOK(y, p)
    BY <1>2, <1>3, <2>4, <2>5, <2>6 DEF SendsOK, InFlight
  <2>11. WireOK(y, w) BY <1>3, <2>6 DEF WireOK
  <2>12. Fine(y, w, S) BY <1>2, <2>6, <2>7, <2>9, <2>10, <2>11, SentFine
  <2> QED BY <2>8, <2>12
<1>6. CASE ~HasTurn(x, p)
  <2>1. y = now BY <1>1, <1>6 DEF Idle
  <2>2. OnlyPort(now, now, p) /\ OnlySent(now, now, p) BY DEF OnlyPort, OnlySent
  <2>3. SendsOK(now, p) BY <1>2, <1>3 DEF SendsOK, InFlight
  <2>4. Fine(now, w, S) BY <1>2, <1>3, <1>4, <1>6, <2>2, <2>3, SentFine
  <2> QED BY <1>2, <2>1, <2>4
<1> QED BY <1>5, <1>6

LEMMA PartFine ==
  ASSUME NEW x, NEW w, NEW p \in Sources, NEW S, Ready(x, w, p, S), Queue(x, p) # <<>>,
         NEW c, c = Head(Queue(x, p)), x.cmd[c].sent = "no",
         HasTurn(x, p) \/ RunFirst # {}, NEW y, y = PartSent(x, p, c)
  PROVE  Fine(y, w, S) /\ OnlyPort(x, y, p) /\ OnlySent(x, y, p)
<1>1. PICK pt : pt = [x.port[p] EXCEPT !.sendTimer = TRUE] OBVIOUS
<1>2. PICK l : l = [x.port EXCEPT ![p] = pt] OBVIOUS
<1>3. PICK m : m = [x.cmd[c] EXCEPT !.sent = "part"] OBVIOUS
<1>4. PICK k : k = [x.cmd EXCEPT ![c] = m] OBVIOUS
<1>5. y = [x EXCEPT !.cmd = k, !.port = l] BY <1>1, <1>2, <1>3, <1>4, Zenon DEF PartSent
<1>6. /\ Sound(x) /\ x \in DaemonType /\ x.port \in [Sources -> PortType] /\ x.port[p] \in PortType
      /\ x.cmd \in [Cmds -> CmdType]
      /\ PortOK(x.port[p]) /\ ~x.port[p].waitTimer /\ WireOK(x, w)
  BY DEF Ready, Sound, DaemonType
<1>7. c \in Cmds /\ PortOf[c] = p BY <1>6, HeadOf
<1>8. /\ pt \in PortType /\ pt.lost = x.port[p].lost /\ pt.sendTimer = TRUE
      /\ pt.openCount = x.port[p].openCount /\ pt.forced = x.port[p].forced
      /\ pt.reopen = x.port[p].reopen /\ pt.held = x.port[p].held
      /\ pt.queue = x.port[p].queue
      /\ pt.waitTimer = x.port[p].waitTimer /\ pt.watchCancel = x.port[p].watchCancel
  BY <1>1, <1>6, Zenon DEF PortType
<1>9. /\ l \in [Sources -> PortType] /\ l[p] = pt /\ \A q \in Sources \ {p} : l[q] = x.port[q]
  BY <1>2, <1>6, <1>8
<1>10. /\ m \in CmdType /\ m.sent = "part" /\ m.state = x.cmd[c].state
       /\ m.answer = x.cmd[c].answer
  BY <1>3, <1>6, <1>7 DEF CmdType
<1>11. k \in [Cmds -> CmdType] /\ k[c] = m /\ \A e \in Cmds \ {c} : k[e] = x.cmd[e]
  BY <1>4, <1>6, <1>7, <1>10
<1>12. /\ y \in DaemonType /\ y.port = l /\ y.cmd = k /\ y.sched = x.sched /\ y.cache = x.cache
  BY <1>5, <1>6, <1>9, <1>11, Zenon DEF DaemonType
<1>13. OnlyPort(x, y, p) BY <1>8, <1>9, <1>12 DEF OnlyPort
<1>14. OnlySent(x, y, p) BY <1>7, <1>10, <1>11, <1>12 DEF OnlySent
<1>15. PortOK(y.port[p]) BY <1>6, <1>8, <1>9, <1>12 DEF PortOK
<1>16. InFlight(y, p) BY <1>8, <1>9, <1>12 DEF InFlight
<1>17. RunFirst = {} => SendsOK(y, p)
  <2>1. RunFirst = {} => HasTurn(y, p) BY <1>12 DEF HasTurn
  <2>2. Queue(y, p) = Queue(x, p) BY <1>13 DEF OnlyPort, Queue
  <2>3. y.cmd[c].sent = "part" BY <1>10, <1>11, <1>12
  <2> QED BY <2>1, <2>2, <2>3 DEF SendsOK
<1>18. WireOK(y, w)
  <2>1. \A e \in Cmds : x.cmd[e].sent = "all" => y.cmd[e].sent = "all" BY <1>11, <1>12
  <2> QED BY <1>6, <2>1 DEF WireOK
<1>19. Fine(y, w, S) BY <1>12, <1>13, <1>14, <1>15, <1>16, <1>17, <1>18, SentFine
<1> QED BY <1>13, <1>14, <1>19

LEMMA SentReady ==
  ASSUME NEW x, NEW w, NEW p \in Sources, NEW S, Ready(x, w, p, S), Queue(x, p) # <<>>,
         NEW c, c = Head(Queue(x, p)), NEW y, y = AllSent(x, c),
         NEW v, v = w \/ v = Wired(w, p, c)
  PROVE  /\ Ready(y, v, p, S) /\ OnlyPort(x, y, p) /\ OnlySent(x, y, p)
         /\ WholeSent(x, y, c)
<1>1. /\ Sound(x) /\ AnswersOK(x, S) /\ WireOK(x, w)
      /\ ~x.port[p].waitTimer /\ (HasTurn(x, p) \/ TurnOK(x))
      /\ RunFirst = {} => HasTurn(x, p) /\ \A q \in Sources \ {p} : SendsOK(x, q)
  BY DEF Ready
<1>2. /\ x \in DaemonType /\ x.cmd \in [Cmds -> CmdType] /\ PortOK(x.port[p])
      /\ w \in [Sources -> Seq(Answers)]
  BY <1>1 DEF Sound, DaemonType, WireOK
<1>3. PICK m : m = [x.cmd[c] EXCEPT !.sent = "all"] OBVIOUS
<1>4. PICK k : k = [x.cmd EXCEPT ![c] = m] OBVIOUS
<1>5. y = [x EXCEPT !.cmd = k] BY <1>3, <1>4, Zenon DEF AllSent
<1>6. c \in Cmds /\ PortOf[c] = p BY <1>1, HeadOf
<1>7. m \in CmdType /\ m.sent = "all" /\ m.state = x.cmd[c].state /\ m.answer = x.cmd[c].answer
  BY <1>2, <1>3, <1>6 DEF CmdType
<1>8. k \in [Cmds -> CmdType] /\ k[c] = m /\ \A e \in Cmds \ {c} : k[e] = x.cmd[e]
  BY <1>2, <1>4, <1>6, <1>7
<1>9. /\ y \in DaemonType /\ y.cmd = k /\ y.sched = x.sched /\ y.port = x.port /\ y.cache = x.cache
  BY <1>2, <1>5, <1>8, CmdSet
<1>10. OnlyPort(x, y, p) /\ OnlySent(x, y, p)
  BY <1>6, <1>7, <1>8, <1>9 DEF OnlyPort, OnlySent
<1>11. Sound(y) BY <1>1, <1>2, <1>9, <1>10, OnlyPortSound
<1>12. (\A q : HasTurn(y, q) <=> HasTurn(x, q)) /\ AnswersOK(y, S) BY <1>1, <1>10, OnlyPortKept
<1>13. \A q : InFlight(y, q) <=> InFlight(x, q) BY <1>9 DEF InFlight
<1>14. HasTurn(y, p) \/ TurnOK(y) BY <1>1, <1>9, <1>12, <1>13 DEF TurnOK
<1>15. ASSUME RunFirst = {}, NEW q \in Sources \ {p} PROVE SendsOK(y, q)
  <2>1. SendsOK(x, q) /\ Queue(y, q) = Queue(x, q) BY <1>1, <1>9, <1>15 DEF Queue
  <2>2. Queue(x, q) # <<>> => y.cmd[Head(Queue(x, q))] = x.cmd[Head(Queue(x, q))]
    <3>1. Queue(x, q) # <<>> => Head(Queue(x, q)) \in Cmds \ {c} BY <1>1, <1>6, HeadOf
    <3> QED BY <3>1, <1>8, <1>9
  <2> QED BY <2>1, <2>2, <1>9, <1>12, <1>13 DEF SendsOK
<1>16. \A e \in Cmds : x.cmd[e].sent = "all" => y.cmd[e].sent = "all" BY <1>7, <1>8, <1>9
<1>17. y.cmd[c].sent = "all" BY <1>7, <1>8, <1>9
<1>18. WireOK(y, v)
  <2>1. CASE v = w BY <2>1, <1>1, <1>16 DEF WireOK
  <2>2. CASE v = Wired(w, p, c)
    <3>1. PICK s : s = Append(w[p], c) OBVIOUS
    <3>2. w[p] \in Seq(Answers) /\ c \in Answers BY <1>2, <1>6 DEF Answers
    <3>3. /\ s \in Seq(Answers) /\ Len(s) = Len(w[p]) + 1 /\ s[Len(w[p]) + 1] = c
          /\ Len(w[p]) \in Nat /\ \A i \in 1 .. Len(w[p]) : s[i] = w[p][i]
      BY <3>1, <3>2
    <3>4. v = [w EXCEPT ![p] = s] BY <2>2, <3>1 DEF Wired
    <3>5. v \in [Sources -> Seq(Answers)] /\ v[p] = s /\ \A q \in Sources \ {p} : v[q] = w[q]
      BY <3>3, <3>4, <1>2
    <3>6. \A i \in 1 .. Len(s) : s[i] \in Cmds => y.cmd[s[i]].sent = "all"
      <4> SUFFICES ASSUME NEW i \in 1 .. Len(s), s[i] \in Cmds PROVE y.cmd[s[i]].sent = "all"
        OBVIOUS
      <4>1. CASE i = Len(w[p]) + 1 BY <4>1, <3>3, <1>17
      <4>2. CASE i # Len(w[p]) + 1
        <5>1. i \in 1 .. Len(w[p]) /\ s[i] = w[p][i] BY <4>2, <3>3
        <5>2. x.cmd[s[i]].sent = "all" BY <5>1, <1>1 DEF WireOK
        <5> QED BY <5>2, <1>16
      <4> QED BY <4>1, <4>2
    <3>7. ASSUME NEW q \in Sources, NEW i \in 1 .. Len(v[q]), v[q][i] \in Cmds
          PROVE  y.cmd[v[q][i]].sent = "all"
      <4>1. CASE q = p BY <4>1, <3>5, <3>6, <3>7
      <4>2. CASE q # p
        <5>1. v[q] = w[q] BY <4>2, <3>5
        <5>2. x.cmd[v[q][i]].sent = "all" BY <5>1, <3>7, <1>1 DEF WireOK
        <5> QED BY <5>2, <3>7, <1>16
      <4> QED BY <4>1, <4>2
    <3> QED BY <3>5, <3>7 DEF WireOK
  <2> QED BY <2>1, <2>2
<1>19. ~y.port[p].waitTimer BY <1>1, <1>9
<1>20. RunFirst = {} => HasTurn(y, p) /\ \A q \in Sources \ {p} : SendsOK(y, q)
  BY <1>1, <1>12, <1>15
<1> QED BY <1>9, <1>10, <1>11, <1>12, <1>14, <1>17, <1>18, <1>19, <1>20 DEF Ready, WholeSent

LEMMA WaitFine ==
  ASSUME NEW x, NEW w, NEW p \in Sources, NEW S, Ready(x, w, p, S), Queue(x, p) # <<>>,
         NEW c, c = Head(Queue(x, p)), ~x.cmd[c].cancelled, ~x.port[p].sendTimer,
         NEW y, y \in Wait(x, p, c)
  PROVE  /\ Fine(y, w, S) /\ OnlyPort(x, y, p) /\ OnlySent(x, y, p)
         /\ y.port[p].waitTimer /\ y.cmd = x.cmd
<1>1. PICK wa : wa = IF c \in Cancellable THEN c ELSE x.port[p].watchCancel OBVIOUS
<1>2. PICK pt : pt = [x.port[p] EXCEPT !.waitTimer = TRUE, !.watchCancel = wa] OBVIOUS
<1>3. PICK l : l = [x.port EXCEPT ![p] = pt] OBVIOUS
<1>4. y = [x EXCEPT !.port = l] BY <1>1, <1>2, <1>3, Zenon DEF Wait
<1>5. /\ Sound(x) /\ x \in DaemonType /\ x.port \in [Sources -> PortType] /\ x.port[p] \in PortType
      /\ PortOK(x.port[p]) /\ WireOK(x, w)
      /\ RunFirst = {} => HasTurn(x, p)
  BY DEF Ready, Sound, DaemonType
<1>6. c \in Cmds /\ PortOf[c] = p BY <1>5, HeadOf
<1>7. wa \in {None} \union Cmds BY <1>1, <1>5, <1>6 DEF PortType
<1>8. /\ pt \in PortType /\ pt.lost = x.port[p].lost /\ pt.sendTimer = x.port[p].sendTimer
      /\ pt.openCount = x.port[p].openCount /\ pt.forced = x.port[p].forced
      /\ pt.reopen = x.port[p].reopen /\ pt.held = x.port[p].held
      /\ pt.queue = x.port[p].queue
      /\ pt.waitTimer = TRUE /\ pt.watchCancel = wa
  BY <1>2, <1>5, <1>7, Zenon DEF PortType
<1>9. /\ l \in [Sources -> PortType] /\ l[p] = pt /\ \A q \in Sources \ {p} : l[q] = x.port[q]
  BY <1>3, <1>5, <1>8
<1>10. /\ y \in DaemonType /\ y.port = l /\ y.sched = x.sched /\ y.cmd = x.cmd /\ y.cache = x.cache
  BY <1>4, <1>5, <1>9, PortSet
<1>11. OnlyPort(x, y, p) /\ OnlySent(x, y, p) BY <1>8, <1>9, <1>10 DEF OnlyPort, OnlySent
<1>12. PortOK(y.port[p]) BY <1>5, <1>8, <1>9, <1>10 DEF PortOK, Queue
<1>13. InFlight(y, p) /\ y.port[p].waitTimer /\ ~y.port[p].sendTimer
  BY <1>8, <1>9, <1>10 DEF InFlight
<1>14. RunFirst = {} => SendsOK(y, p) BY <1>5, <1>10, <1>13 DEF SendsOK, HasTurn
<1>15. WireOK(y, w) BY <1>5, <1>10 DEF WireOK
<1>16. Fine(y, w, S) BY <1>10, <1>11, <1>12, <1>13, <1>14, <1>15, SentFine
<1> QED BY <1>10, <1>11, <1>13, <1>16

LEMMA OnlyTwice ==
  ASSUME NEW x, NEW u, NEW y, NEW p, OnlyPort(x, u, p), OnlySent(x, u, p),
         OnlyPort(u, y, p), OnlySent(u, y, p)
  PROVE  OnlyPort(x, y, p) /\ OnlySent(x, y, p)
BY DEF OnlyPort, OnlySent

(* queue_process keeps the invariant.                                      *)
LEMMA ProcessEffect ==
  ASSUME NEW x, NEW w, NEW p \in Sources, NEW S, Ready(x, w, p, S), NEW r \in QueueProcess(x, w, p)
  PROVE  Fine(r.state, r.wire, S) /\ Processed(x, r.state, w, r.wire, p)
<1>1. PICK now : now = Now(x, p) OBVIOUS
<1>2. PICK c : c = Head(Queue(x, p)) OBVIOUS
<1>3. PICK y : y = r.state OBVIOUS
<1>4. /\ Ready(now, w, p, S) /\ OnlyPort(x, now, p) /\ OnlySent(x, now, p)
      /\ now.cmd = x.cmd /\ ~now.port[p].sendTimer
  BY <1>1, NowReady
<1>5. /\ Sound(now) /\ AnswersOK(now, S) /\ now \in DaemonType /\ Queue(now, p) = Queue(x, p)
      /\ w \in [Sources -> Seq(Answers)]
      /\ RunFirst = {} => HasTurn(now, p)
  BY <1>4 DEF Ready, Sound, OnlyPort, Queue, WireOK
<1>6. CASE Queue(x, p) = <<>>
  <2>1. r.wire = w /\ y = Idle(x, p) BY <1>1, <1>2, <1>3, <1>6, QueueProcessCases
  <2>2. Fine(y, w, S) /\ OnlyPort(x, y, p) /\ OnlySent(x, y, p) BY <1>6, <2>1, IdleFine
  <2>3. (\A q \in Sources \ {p} : Kept(x, y, q)) /\ AllCounted(x, y) BY <2>2, OnlyPortKept
  <2> QED BY <1>3, <2>1, <2>2, <2>3 DEF Processed, Sends
<1>7. CASE Queue(x, p) # <<>>
  <2>1. /\ c \in Cmds /\ PortOf[c] = p /\ x.cmd[c].state = "queued" /\ c = Head(Queue(now, p))
        /\ Queue(now, p) # <<>>
    BY <1>2, <1>4, <1>5, <1>7, HeadOf
  <2>2. \/ /\ c \in Cacheable /\ Cached(x, p, c) # None
           /\ r.wire = w /\ y \in GotResponse(now, p, "reply", Cached(x, p, c))
        \/ r.wire = w /\ y \in GotResponse(now, p, "failed", None)
        \/ r \in Written(now, w, p, c)
        \/ x.cmd[c].sent = "no" /\ r.wire = w /\ y = PartSent(now, p, c)
    BY <1>1, <1>2, <1>3, <1>7, QueueProcessCases
  <2>3. ASSUME NEW outcome \in Outcomes, NEW answer \in Answers \union {None},
               y \in GotResponse(now, p, outcome, answer), r.wire = w,
               p \notin S /\ outcome = "reply" => Fits(now, p, answer)
        PROVE  Fine(y, r.wire, S) /\ Processed(x, y, w, r.wire, p)
    <3>1. Answered(now, y, p, outcome, answer) BY <1>5, <2>1, <2>3, GotResponseEffect
    <3>2. Fine(y, w, S) BY <1>4, <2>3, <3>1, AnsweredFine
    <3>3. (\A q \in Sources \ {p} : Kept(x, y, q) \/ Emptied(x, y, q)) /\ AllCounted(x, y)
      BY <1>4, <3>1, AnsweredSame
    <3> QED BY <2>3, <3>2, <3>3 DEF Processed, Sends
  <2>4. CASE /\ c \in Cacheable /\ Cached(x, p, c) # None
             /\ r.wire = w /\ y \in GotResponse(now, p, "reply", Cached(x, p, c))
    <3>1. PICK hit : hit = Cached(x, p, c) OBVIOUS
    <3>2. Text[c] \in Texts BY <2>1 DEF Texts
    <3>3. hit = now.cache[p][Text[c]] /\ hit # None BY <2>4, <3>1, <1>4 DEF Cached, OnlyPort
    <3>4. hit \in Answers \union {None} BY <1>5, <3>2, <3>3 DEF DaemonType
    <3>5. p \notin S => Fits(now, p, hit)
      BY <1>5, <2>1, <2>4, <3>2, <3>3 DEF AnswersOK, CacheOK, Fits
    <3> QED BY <1>3, <2>3, <2>4, <3>1, <3>4, <3>5 DEF Outcomes
  <2>5. CASE r.wire = w /\ y \in GotResponse(now, p, "failed", None)
    BY <1>3, <2>3, <2>5 DEF Outcomes
  <2>6. CASE r \in Written(now, w, p, c)
    <3>1. PICK all : all = AllSent(now, c) OBVIOUS
    <3>2. PICK v : v = r.wire OBVIOUS
    <3>3. y \in Wait(all, p, c) /\ (v = w \/ v = Wired(w, p, c))
      BY <1>3, <2>6, <3>1, <3>2, WrittenCases
    <3>4. /\ Ready(all, v, p, S) /\ OnlyPort(now, all, p) /\ OnlySent(now, all, p)
          /\ all.port = now.port /\ all.cmd[c].sent = "all"
      <4>1. Ready(now, w, p, S) BY <1>4
      <4>2. Queue(now, p) # <<>> /\ c = Head(Queue(now, p)) BY <2>1
      <4>3. v = w \/ v = Wired(w, p, c) BY <3>3
      <4>4. Ready(all, v, p, S) BY ONLY p \in Sources, <4>1, <4>2, <4>3, <3>1, SentReady
      <4>5. OnlyPort(now, all, p) BY ONLY p \in Sources, <4>1, <4>2, <4>3, <3>1, SentReady
      <4>6. OnlySent(now, all, p) BY ONLY p \in Sources, <4>1, <4>2, <4>3, <3>1, SentReady
      <4>7. WholeSent(now, all, c) BY ONLY p \in Sources, <4>1, <4>2, <4>3, <3>1, SentReady
      <4> QED BY <4>4, <4>5, <4>6, <4>7 DEF WholeSent
    <3>5. /\ OnlyPort(x, all, p) /\ OnlySent(x, all, p) /\ ~all.port[p].sendTimer
          /\ Queue(all, p) = Queue(x, p) /\ Sound(all)
      BY <1>4, <1>5, <3>4, OnlyTwice DEF Queue, Ready
    <3>6. \/ v = w
          \/ (\A q \in Sources \ {p} : v[q] = w[q]) /\ v[p] = Append(w[p], c)
      BY <1>5, <3>3 DEF Wired
    <3>7. CASE all.cmd[c].cancelled
      <4>1. y \in GotResponse(all, p, "cancelled", None) BY <3>3, <3>7, Zenon DEF Wait
      <4>2. Answered(all, y, p, "cancelled", None) BY <1>7, <3>5, <4>1, GotResponseEffect DEF Outcomes
      <4>3. Fine(y, v, S) BY <3>4, <3>5, <4>2, AnsweredFine DEF Outcomes
      <4>4. (\A q \in Sources \ {p} : Kept(x, y, q) \/ Emptied(x, y, q)) /\ AllCounted(x, y)
        BY <3>5, <4>2, AnsweredSame
      <4>5. y.cmd[c].state = "cancelled" /\ y.cmd[c].sent = "all"
        BY <1>2, <3>4, <3>5, <4>2 DEF Answered, Popped
      <4>6. Sends(x, y, w, v, p) BY <2>1, <3>6, <4>5 DEF Sends
      <4> QED BY <1>3, <3>2, <4>3, <4>4, <4>6 DEF Processed
    <3>8. CASE ~all.cmd[c].cancelled
      <4>1. /\ Fine(y, v, S) /\ OnlyPort(all, y, p) /\ OnlySent(all, y, p)
            /\ y.port[p].waitTimer
        BY <1>2, <1>7, <3>3, <3>4, <3>5, <3>8, WaitFine
      <4>2. OnlyPort(x, y, p) /\ OnlySent(x, y, p) BY <3>5, <4>1, OnlyTwice
      <4>3. (\A q \in Sources \ {p} : Kept(x, y, q)) /\ AllCounted(x, y) BY <4>2, OnlyPortKept
      <4>4. Queue(y, p) = Queue(x, p) BY <4>2 DEF OnlyPort, Queue
      <4>5. Sends(x, y, w, v, p) BY <1>2, <1>7, <2>1, <3>6, <4>1, <4>4 DEF Sends
      <4> QED BY <1>3, <3>2, <4>1, <4>3, <4>5 DEF Processed
    <3> QED BY <3>7, <3>8
  <2>7. CASE x.cmd[c].sent = "no" /\ r.wire = w /\ y = PartSent(now, p, c)
    <3>1. now.cmd[c].sent = "no" /\ (HasTurn(now, p) \/ RunFirst # {}) BY <1>4, <1>5, <2>7
    <3>2. Fine(y, w, S) /\ OnlyPort(now, y, p) /\ OnlySent(now, y, p)
      BY <1>4, <2>1, <2>7, <3>1, PartFine
    <3>3. OnlyPort(x, y, p) /\ OnlySent(x, y, p) BY <1>4, <3>2, OnlyTwice
    <3>4. (\A q \in Sources \ {p} : Kept(x, y, q)) /\ AllCounted(x, y) BY <3>3, OnlyPortKept
    <3> QED BY <1>3, <2>7, <3>2, <3>4 DEF Processed, Sends
  <2> QED BY <1>3, <2>2, <2>4, <2>5, <2>6, <2>7
<1> QED BY <1>6, <1>7

----------------------------------------------------------------------------
(* Steps that change only what a port counts, with or without a close.     *)
OnlyCounts(x, y, p) ==
  /\ y.sched = x.sched /\ y.cmd = x.cmd /\ y.cache = x.cache
  /\ \A q \in Sources \ {p} : y.port[q] = x.port[q]
  /\ y.port[p].queue = x.port[p].queue
  /\ y.port[p].sendTimer = x.port[p].sendTimer /\ y.port[p].waitTimer = x.port[p].waitTimer
  /\ y.port[p].watchCancel = x.port[p].watchCancel /\ y.port[p].lost = x.port[p].lost

LEMMA CountsCalled ==
  ASSUME NEW x, Sound(x), NEW y \in DaemonType, NEW p \in Sources,
         OnlyCounts(x, y, p), PortOK(y.port[p])
  PROVE  Called(x, y)
<1>1. /\ SchedOK(x.sched)
      /\ \A q \in Sources : Holds(x.port[q].queue, x.cmd, q) /\ PortOK(x.port[q])
  BY DEF Sound
<1>2. ASSUME NEW q \in Sources PROVE Holds(y.port[q].queue, y.cmd, q) /\ PortOK(y.port[q])
  <2>1. CASE q = p BY <2>1, <1>1 DEF OnlyCounts
  <2>2. CASE q # p BY <2>2, <1>1 DEF OnlyCounts
  <2> QED BY <2>1, <2>2
<1>3. Sound(y) BY <1>1, <1>2 DEF Sound, OnlyCounts
<1>4. \A q \in Sources : Kept(x, y, q)
  <2> SUFFICES ASSUME NEW q \in Sources PROVE Kept(x, y, q) OBVIOUS
  <2>1. CASE q = p BY <2>1 DEF OnlyCounts, Kept, Queue
  <2>2. CASE q # p
    <3>1. y.port[q] = x.port[q] BY <2>2 DEF OnlyCounts
    <3> QED BY <3>1 DEF Kept, Queue
  <2> QED BY <2>1, <2>2
<1>5. SameTurn(x.sched, y.sched) /\ CmdsKept(x, y) /\ CacheKept(x, y)
  BY DEF OnlyCounts, SameTurn, CmdsKept, CacheKept
<1> QED BY <1>3, <1>4, <1>5 DEF Called

LEMMA ShutCalled ==
  ASSUME NEW x, Sound(x), NEW p \in Sources,
         NEW u \in DaemonType, OnlyCounts(x, u, p), PortOK(u.port[p]),
         NEW v, v = Shut(u, p),
         NEW y \in DaemonType, OnlyCounts(v, y, p), PortOK(y.port[p])
  PROVE  Called(x, y)
<1>1. Sound(u) BY CountsCalled DEF Called
<1>2. /\ Sound(v) /\ SameTurn(u.sched, v.sched) /\ CmdsKept(u, v) /\ CacheKept(u, v)
      /\ Emptied(u, v, p) /\ \A q \in Sources \ {p} : v.port[q] = u.port[q]
  BY <1>1, ShutSound
<1>3. Sound(y) BY <1>2, CountsCalled DEF Called
<1>4. u.sched = x.sched /\ u.cmd = x.cmd /\ u.cache = x.cache BY DEF OnlyCounts
<1>5. y.sched = v.sched /\ y.cmd = v.cmd /\ y.cache = v.cache BY DEF OnlyCounts
<1>6. SameTurn(x.sched, y.sched) /\ CmdsKept(x, y) /\ CacheKept(x, y)
  BY <1>2, <1>4, <1>5 DEF CmdsKept, CacheKept
<1>7. Emptied(x, y, p)
  <2>1. HasTurn(u, p) <=> HasTurn(x, p) BY <1>4 DEF HasTurn
  <2>2. /\ y.port[p].queue = v.port[p].queue
        /\ y.port[p].sendTimer = v.port[p].sendTimer /\ y.port[p].waitTimer = v.port[p].waitTimer
        /\ y.port[p].watchCancel = v.port[p].watchCancel /\ y.port[p].lost = v.port[p].lost
    BY DEF OnlyCounts
  <2> QED BY <1>2, <1>4, <1>5, <2>1, <2>2 DEF Emptied, Queue
<1>8. ASSUME NEW q \in Sources \ {p} PROVE Kept(x, y, q)
  <2>1. y.port[q] = x.port[q] BY <1>2 DEF OnlyCounts
  <2> QED BY <2>1 DEF Kept, Queue
<1> QED BY <1>3, <1>6, <1>7, <1>8 DEF Called

----------------------------------------------------------------------------
(* What a step does: it keeps the invariant, has a cause where it puts a   *)
(* port out of step, and keeps the counts.                                 *)
Skews(x, y, p) ==
  \E c \in Cmds :
    /\ PortOf[c] = p
    /\ \/ /\ y.cmd[c].sent = "all" /\ x.cmd[c].state \in {"new", "queued"}
          /\ y.cmd[c].state \in {"timeout", "cancelled", "closed"}
       \/ c \in RunFirst /\ x.cmd[c].state = "new" /\ y.cmd[c].state # "new"

Caused(x, y, w, v, S) == \A p \in Sources \ S : InStep(x, w, p) => InStep(y, v, p) \/ Skews(x, y, p)

Steady(x, y) ==
  \A p \in Sources :
    Balanced(x, p) /\ ~Balanced(y, p) => x.port[p].reopen # None /\ y.port[p].held < x.port[p].held

LEMMA CountedSteady ==
  ASSUME NEW x, Sound(x), NEW y, AllCounted(x, y)
  PROVE  Steady(x, y)
<1> SUFFICES ASSUME NEW p \in Sources, Balanced(x, p), ~Balanced(y, p)
             PROVE  x.port[p].reopen # None /\ y.port[p].held < x.port[p].held
  BY DEF Steady
<1>1. /\ x.port[p].held \in Nat /\ x.port[p].openCount \in Nat
      /\ x.port[p].reopen # None => x.port[p].openCount = 0
      /\ x.port[p].reopen = None \/ x.port[p].reopen \in Nat
  BY PortSerialAssumption DEF Sound, DaemonType, PortType, PortOK
<1>2. Counted(x, y, p) BY DEF AllCounted
<1>3. ~x.port[p].forced BY <1>2 DEF Balanced, Counted
<1>4. ~(y.port[p].openCount = x.port[p].openCount /\ y.port[p].held = x.port[p].held)
  BY <1>2 DEF Balanced, Counted
<1>5. /\ x.port[p].held > 0 /\ y.port[p].held = x.port[p].held - 1
      /\ y.port[p].openCount = IF x.port[p].forced \/ ~IsOpen(x, p) THEN x.port[p].openCount
                                                                  ELSE x.port[p].openCount - 1
  BY <1>2, <1>4 DEF Counted
<1>6. CASE x.port[p].reopen # None BY <1>1, <1>5, <1>6
<1>7. CASE x.port[p].reopen = None
  <2>1. y.port[p].reopen = None /\ ~y.port[p].forced BY <1>2, <1>3, <1>7 DEF Counted
  <2>2. x.port[p].held = x.port[p].openCount BY <1>3, <1>7 DEF Balanced
  <2>3. y.port[p].held = y.port[p].openCount BY <1>1, <1>3, <1>5, <2>2 DEF IsOpen
  <2> QED BY <2>1, <2>3 DEF Balanced
<1> QED BY <1>6, <1>7

(* A port that only other handlers' calls have touched.                     *)
LEMMA CauseElsewhere ==
  ASSUME NEW x, Sound(x), NEW y, NEW w, NEW v, NEW p \in Sources,
         Kept(x, y, p) \/ Emptied(x, y, p), v[p] = w[p], WireOK(y, v), InStep(x, w, p)
  PROVE  InStep(y, v, p) \/ Skews(x, y, p)
<1>1. CASE w[p] = <<>> BY <1>1 DEF InStep
<1>2. CASE x.port[p].waitTimer /\ Queue(x, p) # <<>> /\ w[p] = <<Head(Queue(x, p))>>
  <2>1. PICK h : h = Head(Queue(x, p)) OBVIOUS
  <2>2. h \in Cmds /\ PortOf[h] = p /\ x.cmd[h].state = "queued" BY <1>2, <2>1, HeadOf
  <2>3. y.cmd[h].sent = "all"
    <3>1. 1 \in 1 .. Len(v[p]) /\ v[p][1] = h BY <1>2, <2>1
    <3> QED BY <3>1, <2>2 DEF WireOK
  <2>4. CASE Kept(x, y, p)
    <3>1. /\ y.port[p].waitTimer /\ Queue(y, p) # <<>>
          /\ Head(Queue(y, p)) = Head(Queue(x, p)) \/ Overtaken(x, y, p)
      BY <1>2, <2>4 DEF Kept
    <3>2. CASE Head(Queue(y, p)) = Head(Queue(x, p)) BY <1>2, <3>1, <3>2 DEF InStep
    <3>3. CASE Overtaken(x, y, p) BY <3>3, PortSerialAssumption DEF Overtaken, Skews
    <3> QED BY <3>1, <3>2, <3>3
  <2>5. CASE Emptied(x, y, p) BY <2>2, <2>3, <2>5 DEF Emptied, Skews
  <2> QED BY <2>4, <2>5
<1> QED BY <1>1, <1>2 DEF InStep

LEMMA CalledFine ==
  ASSUME NEW x, NEW y, NEW w, NEW S, Fine(x, w, S), Called(x, y)
  PROVE  Fine(y, w, S) /\ Caused(x, y, w, w, S)
<1>1. Sound(x) /\ TurnOK(x) /\ SendOK(x) /\ AnswersOK(x, S) /\ WireOK(x, w) BY DEF Fine
<1>2. TurnOK(y) /\ SendOK(y) BY <1>1, CalledKeeps
<1>3. AnswersOK(y, S) BY <1>1, CalledAnswers
<1>4. WireOK(y, w) BY <1>1 DEF WireOK, Called, CmdsKept
<1>5. Sound(y) BY DEF Called
<1>6. \A p \in Sources : Kept(x, y, p) \/ Emptied(x, y, p) BY DEF Called
<1>7. Caused(x, y, w, w, S) BY <1>1, <1>4, <1>6, CauseElsewhere DEF Caused
<1> QED BY <1>2, <1>3, <1>4, <1>5, <1>7 DEF Fine

(* A command that was sent and ends without its answer.                     *)
LEMMA AnsweredStep ==
  ASSUME NEW x, NEW w, NEW S, Fine(x, w, S), NEW p \in Sources, Queue(x, p) # <<>>,
         RunFirst = {} => ~x.port[p].sendTimer,
         NEW outcome \in {"timeout", "cancelled"}, NEW y, Answered(x, y, p, outcome, None)
  PROVE  Fine(y, w, S) /\ Caused(x, y, w, w, S)
<1>1. Sound(x) /\ TurnOK(x) /\ SendOK(x) /\ AnswersOK(x, S) /\ WireOK(x, w) BY DEF Fine
<1>2. TurnOK(y) /\ SendOK(y) BY <1>1, AnsweredKeeps DEF SendOK
<1>3. AnswersOK(y, S) BY <1>1, AnsweredAnswers DEF Outcomes
<1>4. \A c \in Cmds : y.cmd[c].sent = x.cmd[c].sent BY DEF Answered, Popped
<1>5. WireOK(y, w) BY <1>1, <1>4 DEF WireOK
<1>6. Sound(y) BY DEF Answered
<1>7. ASSUME InStep(x, w, p) PROVE InStep(y, w, p) \/ Skews(x, y, p)
  <2>1. CASE w[p] = <<>> BY <2>1 DEF InStep
  <2>2. CASE w[p] = <<Head(Queue(x, p))>>
    <3>1. PICK h : h = Head(Queue(x, p)) OBVIOUS
    <3>2. h \in Cmds /\ PortOf[h] = p /\ x.cmd[h].state = "queued" BY <1>1, <3>1, HeadOf
    <3>3. y.cmd[h].state \in {"timeout", "cancelled"} BY <3>1 DEF Answered, Popped
    <3>4. 1 \in 1 .. Len(w[p]) /\ w[p][1] = h BY <2>2, <3>1
    <3>5. y.cmd[h].sent = "all" BY <3>2, <3>4, <1>5 DEF WireOK
    <3> QED BY <3>2, <3>3, <3>5 DEF Skews
  <2> QED BY <2>1, <2>2, <1>7 DEF InStep
<1>8. \A q \in Sources \ {p} : Kept(x, y, q) \/ Emptied(x, y, q) BY DEF Answered
<1>9. Caused(x, y, w, w, S) BY <1>1, <1>5, <1>7, <1>8, CauseElsewhere DEF Caused
<1> QED BY <1>2, <1>3, <1>5, <1>6, <1>9 DEF Fine

LEMMA CausedFrom ==
  ASSUME NEW x, NEW u, u.port = x.port, \A c \in Cmds : u.cmd[c].state = x.cmd[c].state,
         NEW y, NEW w, NEW v, NEW S, Caused(u, y, w, v, S)
  PROVE  Caused(x, y, w, v, S)
<1>1. \A p : Skews(u, y, p) => Skews(x, y, p) BY PortSerialAssumption DEF Skews
<1>2. \A p : InStep(x, w, p) <=> InStep(u, w, p) BY DEF InStep, Queue
<1> QED BY <1>1, <1>2 DEF Caused

(* The i-th answer is read, and those before it are lost.                   *)
LEMMA SubSeqRest ==
  ASSUME NEW A, NEW s \in Seq(A), NEW i \in 1 .. Len(s), NEW r, r = SubSeq(s, i + 1, Len(s))
  PROVE  r \in Seq(A) /\ Len(r) = Len(s) - i /\ \A j \in 1 .. Len(r) : r[j] = s[i + j]
OBVIOUS

WireRead(w, v, p, i) == v = [w EXCEPT ![p] = SubSeq(w[p], i + 1, Len(w[p]))]

LEMMA ReadWire ==
  ASSUME NEW x, NEW w, WireOK(x, w), NEW p \in Sources, NEW i \in 1 .. Len(w[p]),
         NEW v, WireRead(w, v, p, i),
         NEW y, \A c \in Cmds : y.cmd[c].sent = x.cmd[c].sent
  PROVE  /\ w[p][i] \in Answers /\ WireOK(y, v) /\ \A q \in Sources \ {p} : v[q] = w[q]
         /\ Len(w[p]) = 1 => i = 1 /\ v[p] = <<>>
<1>1. w \in [Sources -> Seq(Answers)] /\ w[p] \in Seq(Answers) BY DEF WireOK
<1>2. PICK r : r = SubSeq(w[p], i + 1, Len(w[p])) OBVIOUS
<1>3. r \in Seq(Answers) /\ Len(r) = Len(w[p]) - i /\ \A j \in 1 .. Len(r) : r[j] = w[p][i + j]
  BY <1>1, <1>2, SubSeqRest
<1>4. v = [w EXCEPT ![p] = r] BY <1>2 DEF WireRead
<1>5. v \in [Sources -> Seq(Answers)] /\ v[p] = r /\ \A q \in Sources \ {p} : v[q] = w[q]
  BY <1>1, <1>3, <1>4
<1>6. ASSUME NEW q \in Sources, NEW j \in 1 .. Len(v[q]), v[q][j] \in Cmds
      PROVE  y.cmd[v[q][j]].sent = "all"
  <2>1. CASE q = p
    <3>1. i + j \in 1 .. Len(w[p]) /\ v[q][j] = w[p][i + j]
      <4>1. j \in 1 .. Len(r) /\ v[q] = r BY <2>1, <1>5, <1>6
      <4>2. v[q][j] = w[p][i + j] BY <4>1, <1>3
      <4>3. PICK n \in Nat : n = Len(w[p]) BY <1>1
      <4>4. i \in 1 .. n /\ j \in 1 .. n - i BY <4>1, <4>3, <1>3
      <4>5. i + j \in 1 .. n BY <4>4
      <4> QED BY <4>2, <4>3, <4>5
    <3> QED BY <3>1, <1>6 DEF WireOK
  <2>2. CASE q # p
    <3>1. v[q] = w[q] BY <2>2, <1>5
    <3> QED BY <3>1, <1>6 DEF WireOK
  <2> QED BY <2>1, <2>2
<1>7. WireOK(y, v) BY <1>5, <1>6 DEF WireOK
<1>8. ASSUME Len(w[p]) = 1 PROVE i = 1 /\ v[p] = <<>>
  <2>1. i = 1 BY <1>8
  <2>2. Len(r) = 0 BY <2>1, <1>3, <1>8
  <2> QED BY <2>1, <2>2, <1>3, <1>5
<1> QED BY <1>1, <1>5, <1>7, <1>8

LEMMA DeliverStep ==
  ASSUME NEW x, NEW w, NEW S, Fine(x, w, S), NEW p \in Sources, Reads(x, p),
         NEW i \in 1 .. Len(w[p]), NEW outcome \in {"reply", "failed"},
         \A q \in Sources \ S : InStep(x, w, q),
         NEW y, y \in GotResponse(x, p, outcome, w[p][i]), NEW v, WireRead(w, v, p, i)
  PROVE  Fine(y, v, S) /\ Caused(x, y, w, v, S) /\ AllCounted(x, y)
<1>1. /\ Sound(x) /\ TurnOK(x) /\ SendOK(x) /\ AnswersOK(x, S) /\ WireOK(x, w)
      /\ x \in DaemonType /\ x.port \in [Sources -> PortType] /\ x.port[p] \in PortType
      /\ PortOK(x.port[p])
  BY DEF Fine, Sound, DaemonType
<1>2. PICK a : a = w[p][i] OBVIOUS
<1>3. /\ \A z : (\A c \in Cmds : z.cmd[c].sent = x.cmd[c].sent) => WireOK(z, v)
      /\ \A q \in Sources \ {p} : v[q] = w[q]
      /\ a \in Answers
      /\ Len(w[p]) = 1 => i = 1 /\ v[p] = <<>>
  BY <1>1, <1>2, ReadWire
<1>4. CASE Queue(x, p) = <<>>
  <2>1. PICK pt : pt = [x.port[p] EXCEPT !.waitTimer = FALSE, !.watchCancel = None] OBVIOUS
  <2>2. PICK l : l = [x.port EXCEPT ![p] = pt] OBVIOUS
  <2>3. PICK u : u = [x EXCEPT !.port = l] OBVIOUS
  <2>4. y \in {u} BY <1>4, <2>1, <2>2, <2>3, Zenon DEF GotResponse
  <2>5. ~x.port[p].waitTimer /\ x.port[p].waitTimer \in BOOLEAN /\ x.port[p].watchCancel = None
    BY <1>1, <1>4 DEF PortOK, PortType, Queue
  <2>6. x.port[p].waitTimer = FALSE BY <2>5
  <2>7. /\ pt \in PortType /\ pt.openCount = x.port[p].openCount /\ pt.held = x.port[p].held
        /\ pt.reopen = x.port[p].reopen /\ pt.forced = x.port[p].forced
        /\ pt.queue = x.port[p].queue /\ pt.sendTimer = x.port[p].sendTimer
        /\ pt.waitTimer = FALSE /\ pt.watchCancel = None /\ pt.lost = x.port[p].lost
    BY <1>1, <2>1, Zenon DEF PortType
  <2>8. /\ l \in [Sources -> PortType] /\ l[p] = pt /\ \A q \in Sources \ {p} : l[q] = x.port[q]
    BY <1>1, <2>2, <2>7
  <2>9. y \in DaemonType /\ y.port = l /\ y.sched = x.sched /\ y.cmd = x.cmd /\ y.cache = x.cache
    BY <1>1, <2>3, <2>4, <2>8, PortSet
  <2>10. OnlyCounts(x, y, p) BY <2>5, <2>6, <2>7, <2>8, <2>9 DEF OnlyCounts
  <2>11. PortOK(y.port[p]) BY <1>1, <2>5, <2>7, <2>8, <2>9 DEF PortOK
  <2>12. Called(x, y) BY <1>1, <2>9, <2>10, <2>11, CountsCalled
  <2>13. Fine(y, w, S) /\ Caused(x, y, w, w, S) BY <2>12, CalledFine
  <2>14. WireOK(y, v) BY <1>3, <2>9
  <2>15. Fine(y, v, S) BY <2>13, <2>14 DEF Fine
  <2>16. \A q \in Sources : Kept(x, y, q) \/ Emptied(x, y, q) BY <2>12 DEF Called
  <2>17. p \in S BY <1>4 DEF InStep
  <2>18. Caused(x, y, w, v, S)
    BY <1>1, <1>3, <2>14, <2>16, <2>17, CauseElsewhere DEF Caused
  <2>19. AllCounted(x, y)
    <3> SUFFICES ASSUME NEW q \in Sources PROVE Counted(x, y, q) BY DEF AllCounted
    <3>1. /\ y.port[q].openCount = x.port[q].openCount /\ y.port[q].held = x.port[q].held
          /\ y.port[q].forced = x.port[q].forced /\ y.port[q].reopen = x.port[q].reopen
      BY <2>7, <2>8, <2>9
    <3> QED BY <3>1 DEF Counted
  <2> QED BY <2>15, <2>18, <2>19
<1>5. CASE Queue(x, p) # <<>>
  <2>1. Answered(x, y, p, outcome, a) BY <1>1, <1>2, <1>3, <1>5, GotResponseEffect DEF Outcomes
  <2>2. RunFirst = {} => ~x.port[p].sendTimer /\ \A q \in Sources \ {p} : SendsOK(x, q)
    BY <1>1, <1>5 DEF SendOK, SendsOK, Reads
  <2>3. TurnOK(y) /\ SendOK(y) BY <1>1, <2>1, <2>2, AnsweredKeeps
  <2>4. ASSUME InStep(x, w, p) PROVE a = Head(Queue(x, p)) /\ v[p] = <<>>
    <3>1. w[p] = <<Head(Queue(x, p))>> BY <2>4 DEF InStep
    <3> QED BY <3>1, <1>2, <1>3
  <2>5. Head(Queue(x, p)) \in Cmds BY <1>1, <1>5, HeadOf
  <2>6. p \notin S => Fits(x, p, a) BY <2>4, <2>5 DEF Fits
  <2>7. AnswersOK(y, S)
    <3>1. outcome \in Outcomes BY DEF Outcomes
    <3>2. p \notin S /\ outcome = "reply" => Fits(x, p, a) BY <2>6
    <3> QED BY ONLY p \in Sources, <3>1, <3>2, <1>1, <2>1, AnsweredAnswers
  <2>8. \A c \in Cmds : y.cmd[c].sent = x.cmd[c].sent BY <2>1 DEF Answered, Popped
  <2>9. WireOK(y, v) BY <1>3, <2>8
  <2>10. Fine(y, v, S) BY <2>1, <2>3, <2>7, <2>9 DEF Fine, Answered
  <2>11. p \notin S => InStep(y, v, p) BY <2>4 DEF InStep
  <2>12. \A q \in Sources \ {p} : Kept(x, y, q) \/ Emptied(x, y, q) BY <2>1 DEF Answered
  <2>13. Caused(x, y, w, v, S)
    BY <1>1, <1>3, <2>9, <2>11, <2>12, CauseElsewhere DEF Caused
  <2> QED BY <2>1, <2>10, <2>13 DEF Answered
<1> QED BY <1>4, <1>5

LEMMA ProcessStep ==
  ASSUME NEW x, NEW w, NEW p \in Sources, NEW S, Ready(x, w, p, S), NEW r \in QueueProcess(x, w, p),
         NEW y, y = r.state, NEW v, v = r.wire
  PROVE  Fine(y, v, S) /\ Caused(x, y, w, v, S) /\ AllCounted(x, y)
<1>1. Fine(y, v, S) /\ Processed(x, y, w, v, p) BY ProcessEffect
<1>2. /\ Sound(x) /\ ~x.port[p].waitTimer /\ WireOK(y, v) /\ AllCounted(x, y) /\ Sends(x, y, w, v, p)
      /\ \A q \in Sources \ {p} : Kept(x, y, q) \/ Emptied(x, y, q)
  BY <1>1 DEF Ready, Fine, Processed
<1>3. \A q \in Sources \ {p} : v[q] = w[q] BY <1>2 DEF Sends
<1>4. ASSUME InStep(x, w, p) PROVE InStep(y, v, p) \/ Skews(x, y, p)
  <2>1. w[p] = <<>> BY <1>2, <1>4 DEF InStep
  <2>2. CASE v = w BY <2>1, <2>2 DEF InStep
  <2>3. CASE v # w
    <3>1. PICK c \in Cmds :
            /\ PortOf[c] = p /\ v[p] = Append(w[p], c)
            /\ \/ y.port[p].waitTimer /\ Queue(y, p) # <<>> /\ Head(Queue(y, p)) = c
               \/ x.cmd[c].state = "queued" /\ y.cmd[c].sent = "all" /\ y.cmd[c].state = "cancelled"
      BY <1>2, <2>3 DEF Sends
    <3>2. v[p] = <<c>> BY <2>1, <3>1
    <3>3. CASE y.port[p].waitTimer /\ Queue(y, p) # <<>> /\ Head(Queue(y, p)) = c
      BY <3>2, <3>3 DEF InStep
    <3>4. CASE x.cmd[c].state = "queued" /\ y.cmd[c].sent = "all" /\ y.cmd[c].state = "cancelled"
      BY <3>1, <3>4 DEF Skews
    <3> QED BY <3>1, <3>3, <3>4
  <2> QED BY <2>2, <2>3
<1>5. Caused(x, y, w, v, S) BY <1>2, <1>3, <1>4, CauseElsewhere DEF Caused
<1> QED BY <1>1, <1>2, <1>5

----------------------------------------------------------------------------
(* The actions.                                                            *)
Step ==
  /\ Fine(d', wire', skewed) /\ Steady(d, d')
  /\ strays' # strays \/ Caused(d, d', wire, wire', skewed)
  /\ strays' \in 0 .. MaxStray /\ aborted' \in BOOLEAN /\ (RunFirst = {} => ~aborted')

LEMMA IInvFine ==
  ASSUME IInv
  PROVE  /\ Fine(d, wire, skewed) /\ Sound(d) /\ d \in DaemonType /\ WireOK(d, wire)
         /\ d.port \in [Sources -> PortType] /\ d.cmd \in [Cmds -> CmdType]
         /\ \A p \in Sources : d.port[p] \in PortType /\ PortOK(d.port[p])
         /\ \A p \in Sources \ skewed : InStep(d, wire, p)
         /\ strays \in 0 .. MaxStray /\ aborted \in BOOLEAN /\ (RunFirst = {} => ~aborted)
BY DEF IInv, Fine, Sound, DaemonType

LEMMA StepKeeps ==
  ASSUME IInv, Step, WatchSkew
  PROVE  IInv'
<1>1. /\ Sound(d') /\ TurnOK(d') /\ SendOK(d') /\ AnswersOK(d', skewed) /\ WireOK(d', wire')
      /\ strays' \in 0 .. MaxStray /\ aborted' \in BOOLEAN /\ (RunFirst = {} => ~aborted')
  BY DEF Step, Fine
<1>2. skewed \in SUBSET Sources BY DEF IInv
<1>3. skewed' \in SUBSET Sources /\ skewed \subseteq skewed' BY <1>2 DEF WatchSkew
<1>4. \A p \in Sources \ skewed' : InStep(d', wire', p) BY DEF WatchSkew
<1>5. AnswersOK(d', skewed') BY <1>1, <1>3, AnswersMore
<1> QED BY <1>1, <1>3, <1>4, <1>5 DEF IInv

LEMMA StillStep ==
  ASSUME IInv, Called(d, d'), Steady(d, d'), UNCHANGED <<wire, strays, aborted>>
  PROVE  Step
<1>1. Fine(d', wire, skewed) /\ Caused(d, d', wire, wire, skewed) BY IInvFine, CalledFine
<1> QED BY <1>1, IInvFine DEF Step

(* Only the record of p has changed, and there only the named counts.      *)
CountsSet(x, y, p, pt) ==
  /\ y \in DaemonType /\ y.port[p] = pt
  /\ OnlyCounts(x, y, p)

LEMMA PortChange ==
  ASSUME NEW x \in DaemonType, NEW p \in Sources, NEW pt \in PortType,
         pt.queue = x.port[p].queue, pt.sendTimer = x.port[p].sendTimer,
         pt.waitTimer = x.port[p].waitTimer, pt.watchCancel = x.port[p].watchCancel,
         pt.lost = x.port[p].lost,
         NEW l, l = [x.port EXCEPT ![p] = pt], NEW y, y = [x EXCEPT !.port = l]
  PROVE  CountsSet(x, y, p, pt)
<1>1. x.port \in [Sources -> PortType] BY DEF DaemonType
<1>2. /\ l \in [Sources -> PortType] /\ l[p] = pt /\ \A q \in Sources \ {p} : l[q] = x.port[q]
  BY <1>1
<1>3. y \in DaemonType /\ y.port = l /\ y.sched = x.sched /\ y.cmd = x.cmd /\ y.cache = x.cache
  BY <1>2, PortSet
<1> QED BY <1>2, <1>3 DEF CountsSet, OnlyCounts

(* The other ports keep their counts.                                       *)
LEMMA SteadyAt ==
  ASSUME NEW x, NEW y, NEW p \in Sources, \A q \in Sources \ {p} : y.port[q] = x.port[q],
         Balanced(x, p) => Balanced(y, p)
  PROVE  Steady(x, y)
<1>1. ASSUME NEW q \in Sources PROVE Balanced(x, q) => Balanced(y, q)
  <2>1. CASE q = p BY <2>1
  <2>2. CASE q # p
    <3>1. y.port[q] = x.port[q] BY <2>2
    <3> QED BY <3>1 DEF Balanced
  <2> QED BY <2>1, <2>2
<1> QED BY <1>1 DEF Steady

LEMMA OpenStep ==
  ASSUME IInv, NEW p \in Sources, Open(p)
  PROVE  Step
<1>1. /\ Sound(d) /\ d \in DaemonType /\ d.port[p] \in PortType /\ PortOK(d.port[p])
      /\ d.port[p].openCount \in 0 .. Users /\ d.port[p].held \in 0 .. Users
  BY IInvFine DEF PortType
<1>2. ~d.port[p].forced /\ d.port[p].reopen = None
      /\ d.port[p].openCount + 1 \in 0 .. Users /\ d.port[p].held + 1 \in 0 .. Users
  BY <1>1, PortSerialAssumption DEF Open
<1>3. PICK m : m = d.port[p].openCount + 1 OBVIOUS
<1>4. PICK n : n = d.port[p].held + 1 OBVIOUS
<1>5. PICK pt : pt = [d.port[p] EXCEPT !.openCount = m, !.held = n] OBVIOUS
<1>6. PICK l : l = [d.port EXCEPT ![p] = pt] OBVIOUS
<1>7. d' = [d EXCEPT !.port = l] BY <1>3, <1>4, <1>5, <1>6, Zenon DEF Open
<1>8. m \in 0 .. Users /\ n \in 0 .. Users BY <1>2, <1>3, <1>4
<1>9. /\ pt \in PortType /\ pt.openCount = m /\ pt.held = n
      /\ pt.reopen = d.port[p].reopen /\ pt.forced = d.port[p].forced
      /\ pt.queue = d.port[p].queue /\ pt.sendTimer = d.port[p].sendTimer
      /\ pt.waitTimer = d.port[p].waitTimer /\ pt.watchCancel = d.port[p].watchCancel
      /\ pt.lost = d.port[p].lost
  BY <1>1, <1>5, <1>8, Zenon DEF PortType
<1>10. CountsSet(d, d', p, pt) BY <1>1, <1>6, <1>7, <1>9, PortChange
<1>11. PortOK(pt) BY <1>1, <1>2, <1>9 DEF PortOK
<1>12. Called(d, d') BY <1>1, <1>10, <1>11, CountsCalled DEF CountsSet
<1>13. Balanced(d, p) => Balanced(d', p)
  BY <1>1, <1>2, <1>3, <1>4, <1>9, <1>10 DEF Balanced, CountsSet
<1>14. Steady(d, d') BY <1>10, <1>13, SteadyAt DEF CountsSet, OnlyCounts
<1> QED BY <1>12, <1>14, StillStep DEF Open

LEMMA SetConnectedStep ==
  ASSUME IInv, NEW p \in Sources, SetConnected(p)
  PROVE  Step
<1>1. /\ Sound(d) /\ d \in DaemonType /\ d.port[p] \in PortType /\ PortOK(d.port[p])
  BY IInvFine
<1>2. PICK pt : pt = [d.port[p] EXCEPT !.connected = ~d.port[p].connected] OBVIOUS
<1>3. PICK l : l = [d.port EXCEPT ![p] = pt] OBVIOUS
<1>4. d' = [d EXCEPT !.port = l] BY <1>2, <1>3, Zenon DEF SetConnected
<1>5. /\ pt \in PortType /\ pt.openCount = d.port[p].openCount /\ pt.held = d.port[p].held
      /\ pt.reopen = d.port[p].reopen /\ pt.forced = d.port[p].forced
      /\ pt.queue = d.port[p].queue /\ pt.sendTimer = d.port[p].sendTimer
      /\ pt.waitTimer = d.port[p].waitTimer /\ pt.watchCancel = d.port[p].watchCancel
      /\ pt.lost = d.port[p].lost
  BY <1>1, <1>2, Zenon DEF PortType
<1>6. CountsSet(d, d', p, pt) BY <1>1, <1>3, <1>4, <1>5, PortChange
<1>7. PortOK(pt) BY <1>1, <1>5 DEF PortOK
<1>8. Called(d, d') BY <1>1, <1>6, <1>7, CountsCalled DEF CountsSet
<1>9. Balanced(d, p) => Balanced(d', p) BY <1>5, <1>6 DEF Balanced, CountsSet
<1>10. Steady(d, d') BY <1>6, <1>9, SteadyAt DEF CountsSet, OnlyCounts
<1> QED BY <1>8, <1>10, StillStep DEF SetConnected

LEMMA CloseByUserStep ==
  ASSUME IInv, NEW p \in Sources, CloseByUser(p)
  PROVE  Step
<1>1. Sound(d) /\ d.port[p].held > 0 /\ d' = Close(d, p) BY IInvFine DEF CloseByUser
<1>2. Called(d, d') /\ AllCounted(d, d') BY <1>1, CloseCalled
<1>3. Steady(d, d') BY <1>1, <1>2, CountedSteady
<1> QED BY <1>2, <1>3, StillStep DEF CloseByUser

LEMMA SubmitStep ==
  ASSUME IInv, NEW c \in Cmds, Submit(c)
  PROVE  Step
<1>1. Sound(d) /\ d.cmd[c].state = "new" /\ d' = Command(d, c) BY IInvFine DEF Submit
<1>2. Called(d, d') /\ AllCounted(d, d') BY <1>1, CommandCalled
<1>3. Steady(d, d') BY <1>1, <1>2, CountedSteady
<1> QED BY <1>2, <1>3, StillStep DEF Submit

LEMMA CountsThen ==
  ASSUME NEW x, NEW u, NEW p, OnlyCounts(x, u, p), NEW y, Called(u, y)
  PROVE  Called(x, y)
<1>1. u.sched = x.sched /\ u.cmd = x.cmd /\ u.cache = x.cache BY DEF OnlyCounts
<1>2. Sound(y) /\ SameTurn(x.sched, y.sched) /\ CmdsKept(x, y) /\ CacheKept(x, y)
  BY <1>1 DEF Called, CmdsKept, CacheKept
<1>3. ASSUME NEW q \in Sources PROVE Kept(x, y, q) \/ Emptied(x, y, q)
  <2>1. /\ u.port[q].queue = x.port[q].queue
        /\ u.port[q].sendTimer = x.port[q].sendTimer /\ u.port[q].waitTimer = x.port[q].waitTimer
        /\ u.port[q].watchCancel = x.port[q].watchCancel /\ u.port[q].lost = x.port[q].lost
    BY DEF OnlyCounts
  <2>2. HasTurn(u, q) <=> HasTurn(x, q) BY <1>1 DEF HasTurn
  <2>3. CASE Kept(u, y, q) BY <1>1, <2>1, <2>3 DEF Kept, Queue, Overtaken
  <2>4. CASE Emptied(u, y, q) BY <1>1, <2>2, <2>4 DEF Emptied
  <2> QED BY <2>3, <2>4 DEF Called
<1> QED BY <1>2, <1>3 DEF Called

LEMMA ForceEffect ==
  ASSUME NEW x, Sound(x), NEW p \in Sources, NEW y, y = CloseForce(x, p)
  PROVE  Called(x, y) /\ y.port[p].forced /\ \A q \in Sources \ {p} : y.port[q] = x.port[q]
<1>1. x \in DaemonType /\ x.port[p] \in PortType /\ PortOK(x.port[p]) BY DEF Sound, DaemonType
<1>2. CASE x.port[p].forced
  <2>1. y = x BY <1>2, Zenon DEF CloseForce
  <2> QED BY <1>2, <2>1, Nothing
<1>3. CASE ~x.port[p].forced
  <2>1. PICK pt : pt = [x.port[p] EXCEPT !.forced = TRUE, !.reopen = None] OBVIOUS
  <2>2. PICK l : l = [x.port EXCEPT ![p] = pt] OBVIOUS
  <2>3. PICK u : u = [x EXCEPT !.port = l] OBVIOUS
  <2>4. y = IF IsOpen(x, p) THEN Shut(u, p) ELSE u
    <3>1. u = [x EXCEPT !.port[p].forced = TRUE, !.port[p].reopen = None]
      BY <2>1, <2>2, <2>3, Zenon
    <3>2. CASE IsOpen(x, p)
      <4>1. y = Shut([x EXCEPT !.port[p].forced = TRUE, !.port[p].reopen = None], p)
        BY <1>3, <3>2, Zenon DEF CloseForce
      <4> QED BY <3>1, <3>2, <4>1, Zenon
    <3>3. CASE ~IsOpen(x, p)
      <4>1. y = [x EXCEPT !.port[p].forced = TRUE, !.port[p].reopen = None]
        BY <1>3, <3>3, Zenon DEF CloseForce
      <4> QED BY <3>1, <3>3, <4>1, Zenon
    <3> QED BY <3>2, <3>3
  <2>5. /\ pt \in PortType /\ pt.forced = TRUE /\ pt.reopen = None
        /\ pt.openCount = x.port[p].openCount /\ pt.held = x.port[p].held
        /\ pt.queue = x.port[p].queue /\ pt.sendTimer = x.port[p].sendTimer
        /\ pt.waitTimer = x.port[p].waitTimer /\ pt.watchCancel = x.port[p].watchCancel
        /\ pt.lost = x.port[p].lost
    BY <1>1, <2>1, Zenon DEF PortType
  <2>6. CountsSet(x, u, p, pt) BY <1>1, <2>2, <2>3, <2>5, PortChange
  <2>7. PortOK(pt) BY <1>1, <2>5 DEF PortOK
  <2>8. u \in DaemonType /\ u.port[p] = pt /\ OnlyCounts(x, u, p) BY <2>6 DEF CountsSet
  <2>9. Called(x, u) BY <1>1, <2>7, <2>8, CountsCalled
  <2>10. CASE IsOpen(x, p)
    <3>1. y = Shut(u, p) BY <2>4, <2>10
    <3>2. Sound(u) BY <2>9 DEF Called
    <3>3. /\ Sound(y) /\ y.port[p].forced = u.port[p].forced
          /\ \A q \in Sources \ {p} : y.port[q] = u.port[q]
      BY <3>1, <3>2, ShutSound
    <3>4. y \in DaemonType /\ PortOK(y.port[p]) /\ OnlyCounts(y, y, p)
      BY <3>3 DEF Sound, OnlyCounts
    <3>5. Called(x, y) BY <2>7, <2>8, <3>1, <3>4, ShutCalled
    <3> QED BY <2>5, <2>8, <3>3, <3>5 DEF OnlyCounts
  <2>11. CASE ~IsOpen(x, p) BY <2>4, <2>5, <2>8, <2>9, <2>11 DEF OnlyCounts
  <2> QED BY <2>10, <2>11
<1> QED BY <1>2, <1>3

LEMMA HangupStep ==
  ASSUME IInv, NEW p \in Sources, Hangup(p)
  PROVE  Step
<1>1. Sound(d) /\ d' = CloseForce(d, p) BY IInvFine DEF Hangup
<1>2. Called(d, d') /\ d'.port[p].forced /\ \A q \in Sources \ {p} : d'.port[q] = d.port[q]
  BY <1>1, ForceEffect
<1>3. Balanced(d', p) BY <1>2 DEF Balanced
<1>4. Steady(d, d') BY <1>2, <1>3, SteadyAt
<1> QED BY <1>2, <1>4, StillStep DEF Hangup

LEMMA ReopenStep ==
  ASSUME IInv, NEW p \in Sources, Reopen(p)
  PROVE  Step
<1>1. /\ Sound(d) /\ d \in DaemonType /\ d.port[p] \in PortType /\ PortOK(d.port[p])
      /\ d.port[p].openCount \in 0 .. Users /\ ~d.port[p].forced /\ d.port[p].reopen = None
      /\ Users \in Nat /\ None \notin Nat
  BY IInvFine, PortSerialAssumption DEF PortType, Reopen
<1>2. PICK n : n = d.port[p].openCount OBVIOUS
<1>3. PICK v : v = IF n > 0 THEN Shut(d, p) ELSE d OBVIOUS
<1>4. PICK pt : pt = [v.port[p] EXCEPT !.reopen = n] OBVIOUS
<1>5. PICK l : l = [v.port EXCEPT ![p] = pt] OBVIOUS
<1>6. d' = [v EXCEPT !.port = l] BY <1>2, <1>3, <1>4, <1>5, Zenon DEF Reopen
<1>7. /\ Sound(v) /\ v.port[p].openCount = 0 /\ v.port[p].forced = d.port[p].forced
      /\ v.port[p].held = d.port[p].held /\ \A q \in Sources \ {p} : v.port[q] = d.port[q]
  <2>1. CASE n > 0 BY <2>1, <1>1, <1>3, ShutSound
  <2>2. CASE ~(n > 0) BY <2>2, <1>1, <1>2, <1>3
  <2> QED BY <2>1, <2>2
<1>8. v \in DaemonType /\ v.port[p] \in PortType /\ PortOK(v.port[p]) BY <1>7 DEF Sound, DaemonType
<1>9. n \in {None} \union (0 .. Users) BY <1>1, <1>2
<1>10. /\ pt \in PortType /\ pt.reopen = n /\ pt.forced = v.port[p].forced
       /\ pt.openCount = v.port[p].openCount /\ pt.held = v.port[p].held
       /\ pt.queue = v.port[p].queue /\ pt.sendTimer = v.port[p].sendTimer
       /\ pt.waitTimer = v.port[p].waitTimer /\ pt.watchCancel = v.port[p].watchCancel
       /\ pt.lost = v.port[p].lost
  BY <1>4, <1>8, <1>9, Zenon DEF PortType
<1>11. CountsSet(v, d', p, pt) BY <1>5, <1>6, <1>8, <1>10, PortChange
<1>12. d' \in DaemonType /\ d'.port[p] = pt /\ OnlyCounts(v, d', p) BY <1>11 DEF CountsSet
<1>13. PortOK(pt) BY <1>7, <1>8, <1>10 DEF PortOK
<1>14. Called(d, d')
  <2>1. CASE n > 0
    <3>1. v = Shut(d, p) /\ OnlyCounts(d, d, p) BY <2>1, <1>3 DEF OnlyCounts
    <3> QED BY <1>1, <1>12, <1>13, <3>1, ShutCalled
  <2>2. CASE ~(n > 0) BY <2>2, <1>3, <1>7, <1>12, <1>13, CountsCalled
  <2> QED BY <2>1, <2>2
<1>15. Balanced(d, p) => Balanced(d', p)
  BY <1>1, <1>2, <1>7, <1>10, <1>12 DEF Balanced
<1>16. \A q \in Sources \ {p} : d'.port[q] = d.port[q] BY <1>7, <1>12 DEF OnlyCounts
<1>17. Steady(d, d') BY <1>15, <1>16, SteadyAt
<1> QED BY <1>14, <1>17, StillStep DEF Reopen

LEMMA ReopenTimerStep ==
  ASSUME IInv, NEW p \in Sources, ReopenTimer(p)
  PROVE  Step
<1>1. /\ Sound(d) /\ d \in DaemonType /\ d.port[p] \in PortType /\ PortOK(d.port[p])
      /\ d.port[p].reopen # None /\ d.port[p].reopen \in 0 .. Users /\ d.port[p].openCount = 0
  BY IInvFine DEF PortType, PortOK, ReopenTimer
<1>2. PICK n : n = d.port[p].reopen OBVIOUS
<1>3. PICK pt : pt = [d.port[p] EXCEPT !.reopen = None] OBVIOUS
<1>4. PICK l : l = [d.port EXCEPT ![p] = pt] OBVIOUS
<1>5. PICK due : due = [d EXCEPT !.port = l] OBVIOUS
<1>6. PICK k : k = due.port[p].openCount + n OBVIOUS
<1>7. PICK qt : qt = [due.port[p] EXCEPT !.openCount = k] OBVIOUS
<1>8. PICK m : m = [due.port EXCEPT ![p] = qt] OBVIOUS
<1>9. PICK u : u = [due EXCEPT !.port = m] OBVIOUS
<1>10. d' \in {u} \union (IF n > 0 THEN {CloseForce(due, p)} ELSE {})
  BY <1>2, <1>3, <1>4, <1>5, <1>6, <1>7, <1>8, <1>9, Zenon DEF ReopenTimer
<1>11. d' = u \/ d' = CloseForce(due, p) BY <1>10
<1>12. /\ pt \in PortType /\ pt.reopen = None /\ pt.forced = d.port[p].forced
       /\ pt.openCount = d.port[p].openCount /\ pt.held = d.port[p].held
       /\ pt.queue = d.port[p].queue /\ pt.sendTimer = d.port[p].sendTimer
       /\ pt.waitTimer = d.port[p].waitTimer /\ pt.watchCancel = d.port[p].watchCancel
       /\ pt.lost = d.port[p].lost
  BY <1>1, <1>3, Zenon DEF PortType
<1>13. CountsSet(d, due, p, pt) BY <1>1, <1>4, <1>5, <1>12, PortChange
<1>14. due \in DaemonType /\ due.port[p] = pt /\ OnlyCounts(d, due, p) BY <1>13 DEF CountsSet
<1>15. PortOK(pt) BY <1>1, <1>12 DEF PortOK
<1>16. Called(d, due) /\ Sound(due) BY <1>1, <1>14, <1>15, CountsCalled DEF Called
<1>17. CASE d' = u
  <2>1. k = n /\ k \in 0 .. Users BY <1>1, <1>2, <1>6, <1>12, <1>14
  <2>2. /\ qt \in PortType /\ qt.reopen = pt.reopen /\ qt.forced = pt.forced
        /\ qt.openCount = k /\ qt.held = pt.held
        /\ qt.queue = pt.queue /\ qt.sendTimer = pt.sendTimer
        /\ qt.waitTimer = pt.waitTimer /\ qt.watchCancel = pt.watchCancel
        /\ qt.lost = pt.lost
    BY <1>7, <1>12, <1>14, <2>1, Zenon DEF PortType
  <2>3. CountsSet(due, d', p, qt) BY <1>8, <1>9, <1>14, <1>17, <2>2, PortChange
  <2>4. d' \in DaemonType /\ d'.port[p] = qt /\ OnlyCounts(due, d', p) BY <2>3 DEF CountsSet
  <2>5. PortOK(qt) BY <1>12, <1>15, <2>2 DEF PortOK
  <2>6. Called(due, d') BY <1>16, <2>4, <2>5, CountsCalled
  <2>7. Called(d, d') BY <1>14, <2>6, CountsThen
  <2>8. Balanced(d, p) => Balanced(d', p)
    BY <1>1, <1>2, <1>12, <2>1, <2>2, <2>4 DEF Balanced
  <2>9. \A q \in Sources \ {p} : d'.port[q] = d.port[q] BY <1>14, <2>4 DEF OnlyCounts
  <2>10. Steady(d, d') BY <2>8, <2>9, SteadyAt
  <2> QED BY <2>7, <2>10, StillStep DEF ReopenTimer
<1>18. CASE d' = CloseForce(due, p)
  <2>1. Called(due, d') /\ d'.port[p].forced /\ \A q \in Sources \ {p} : d'.port[q] = due.port[q]
    BY <1>16, <1>18, ForceEffect
  <2>2. Called(d, d') BY <1>14, <2>1, CountsThen
  <2>3. \A q \in Sources \ {p} : d'.port[q] = d.port[q] BY <1>14, <2>1 DEF OnlyCounts
  <2>4. Balanced(d', p) BY <2>1 DEF Balanced
  <2>5. Steady(d, d') BY <2>3, <2>4, SteadyAt
  <2> QED BY <2>2, <2>5, StillStep DEF ReopenTimer
<1> QED BY <1>11, <1>17, <1>18

(* GotResponse clears the timer and the watch itself.                       *)
IdlePort(pt) == [pt EXCEPT !.waitTimer = FALSE, !.watchCancel = None]
IdleAt(x, p) == [x EXCEPT !.port[p] = IdlePort(x.port[p])]

LEMMA SameIdle ==
  ASSUME NEW x, NEW u, NEW p, Queue(u, p) = Queue(x, p),
         IdleAt(u, p) = IdleAt(x, p), NEW outcome, NEW answer
  PROVE  GotResponse(u, p, outcome, answer) = GotResponse(x, p, outcome, answer)
<1>1. PICK i : i = [x EXCEPT !.port[p] = IdlePort(x.port[p])] OBVIOUS
<1>2. i = [u EXCEPT !.port[p] = IdlePort(u.port[p])] BY <1>1, Zenon DEF IdleAt
<1>3. i = [x EXCEPT !.port[p] = [x.port[p] EXCEPT !.waitTimer = FALSE, !.watchCancel = None]]
  BY <1>1, Zenon DEF IdlePort
<1>4. i = [u EXCEPT !.port[p] = [u.port[p] EXCEPT !.waitTimer = FALSE, !.watchCancel = None]]
  BY <1>2, Zenon DEF IdlePort
<1> QED BY <1>3, <1>4, Zenon DEF GotResponse

LEMMA TimeoutStep ==
  ASSUME IInv, NEW p \in Sources, Timeout(p)
  PROVE  Step
<1>1. /\ Fine(d, wire, skewed) /\ Sound(d) /\ d \in DaemonType /\ d.port[p] \in PortType
      /\ d.port \in [Sources -> PortType]
      /\ PortOK(d.port[p]) /\ d.port[p].waitTimer
  BY IInvFine DEF Timeout
<1>2. Queue(d, p) # <<>> /\ ~d.port[p].sendTimer BY <1>1 DEF PortOK, Queue
<1>3. PICK pt : pt = [d.port[p] EXCEPT !.waitTimer = FALSE] OBVIOUS
<1>4. PICK l : l = [d.port EXCEPT ![p] = pt] OBVIOUS
<1>5. PICK u : u = [d EXCEPT !.port = l] OBVIOUS
<1>6. d' \in GotResponse(u, p, "timeout", None)
  BY <1>3, <1>4, <1>5, Zenon DEF Timeout
<1>7. pt \in PortType /\ pt.queue = d.port[p].queue /\ IdlePort(pt) = IdlePort(d.port[p])
  BY <1>1, <1>3, Zenon DEF PortType, IdlePort
<1>8. l \in [Sources -> PortType] /\ l[p] = pt BY <1>1, <1>4, <1>7
<1>9. u.port = l BY <1>1, <1>5, <1>8, PortSet
<1>10. Queue(u, p) = Queue(d, p) BY <1>7, <1>8, <1>9 DEF Queue
<1>11. IdleAt(u, p) = IdleAt(d, p)
  <2>1. PICK i : i = IdlePort(d.port[p]) OBVIOUS
  <2>2. IdlePort(u.port[p]) = i BY <2>1, <1>7, <1>8, <1>9
  <2>3. [u.port EXCEPT ![p] = i] = [d.port EXCEPT ![p] = i] BY <1>1, <1>4, <1>9
  <2>4. [u EXCEPT !.port[p] = i] = [d EXCEPT !.port[p] = i]
    <3>1. PICK k : k = [d.port EXCEPT ![p] = i] OBVIOUS
    <3>2. [u EXCEPT !.port = k] = [d EXCEPT !.port = k] BY <1>1, <1>5 DEF DaemonType
    <3> QED BY <2>3, <3>1, <3>2, Zenon
  <2> QED BY <2>1, <2>2, <2>4, Zenon DEF IdleAt
<1>12. d' \in GotResponse(d, p, "timeout", None) BY <1>6, <1>10, <1>11, SameIdle
<1>13. Answered(d, d', p, "timeout", None) BY <1>1, <1>2, <1>12, GotResponseEffect DEF Outcomes
<1>14. Fine(d', wire, skewed) /\ Caused(d, d', wire, wire, skewed)
  BY <1>1, <1>2, <1>13, AnsweredStep
<1>15. Steady(d, d') BY <1>1, <1>13, CountedSteady DEF Answered
<1> QED BY <1>14, <1>15, IInvFine DEF Step, Timeout

LEMMA CancelStep ==
  ASSUME IInv, NEW c \in Cmds, Cancel(c)
  PROVE  Step
<1>1. PICK p : p = PortOf[c] OBVIOUS
<1>2. /\ Fine(d, wire, skewed) /\ Sound(d) /\ d \in DaemonType /\ d.cmd \in [Cmds -> CmdType]
      /\ d.cmd[c].state = "queued" /\ p \in Sources /\ PortOK(d.port[p]) /\ SchedOK(d.sched)
      /\ \A q \in Sources : /\ d.port[q].queue \in Seq(Cmds)
                            /\ Holds(d.port[q].queue, d.cmd, q) /\ PortOK(d.port[q])
  BY <1>1, IInvFine, PortSerialAssumption DEF Cancel, Sound, PortType
<1>3. PICK m : m = [d.cmd[c] EXCEPT !.cancelled = TRUE] OBVIOUS
<1>4. PICK k : k = [d.cmd EXCEPT ![c] = m] OBVIOUS
<1>5. PICK x : x = [d EXCEPT !.cmd = k] OBVIOUS
<1>6. IF d.port[p].watchCancel = c THEN d' \in GotResponse(x, p, "cancelled", None) ELSE d' = x
  BY <1>1, <1>3, <1>4, <1>5, Zenon DEF Cancel
<1>7. m \in CmdType /\ m.state = d.cmd[c].state /\ m.sent = d.cmd[c].sent
  BY <1>2, <1>3 DEF CmdType
<1>8. k \in [Cmds -> CmdType] /\ k[c] = m /\ \A e \in Cmds \ {c} : k[e] = d.cmd[e]
  BY <1>2, <1>4, <1>7
<1>9. /\ x \in DaemonType /\ x.cmd = k /\ x.sched = d.sched /\ x.port = d.port /\ x.cache = d.cache
  BY <1>2, <1>5, <1>8, CmdSet
<1>10. \A e \in Cmds : x.cmd[e].state = d.cmd[e].state /\ x.cmd[e].sent = d.cmd[e].sent
  BY <1>7, <1>8, <1>9
<1>11. \A q \in Sources : Holds(x.port[q].queue, x.cmd, q) /\ PortOK(x.port[q])
  BY <1>2, <1>9, <1>10, HoldsSame
<1>12. Sound(x) BY <1>2, <1>9, <1>11 DEF Sound
<1>13. CmdsKept(d, x)
  <2>1. ASSUME NEW e \in Cmds, d.cmd[e].state \in Outcomes \/ x.cmd[e].state = "reply"
        PROVE  x.cmd[e] = d.cmd[e]
    <3>1. e # c BY <1>2, <1>10, <2>1 DEF Outcomes
    <3> QED BY <3>1, <1>8, <1>9
  <2> QED BY <2>1, <1>10 DEF CmdsKept
<1>14. Called(d, x)
  <2>1. \A q \in Sources : Kept(d, x, q) BY <1>9 DEF Kept, Queue
  <2> QED BY <2>1, <1>9, <1>12, <1>13 DEF Called, SameTurn, CacheKept
<1>15. AllCounted(d, x) BY <1>9 DEF AllCounted, Counted
<1>16. CASE d.port[p].watchCancel # c
  <2>1. d' = x BY <1>6, <1>16
  <2>2. Steady(d, d') BY <2>1, <1>2, <1>15, CountedSteady
  <2> QED BY <2>1, <2>2, <1>14, StillStep DEF Cancel
<1>17. CASE d.port[p].watchCancel = c
  <2>1. d' \in GotResponse(x, p, "cancelled", None) BY <1>6, <1>17
  <2>2. None \notin Cmds BY PortSerialAssumption
  <2>3. d.port[p].waitTimer BY <1>2, <1>17, <2>2 DEF PortOK
  <2>4. Queue(x, p) # <<>> /\ ~x.port[p].sendTimer BY <1>2, <1>9, <2>3 DEF PortOK, Queue
  <2>5. Answered(x, d', p, "cancelled", None)
    BY <1>2, <1>12, <2>1, <2>4, GotResponseEffect DEF Outcomes
  <2>6. Fine(x, wire, skewed) BY <1>2, <1>14, CalledFine
  <2>7. Fine(d', wire, skewed) /\ Caused(x, d', wire, wire, skewed)
    BY <1>2, <2>4, <2>5, <2>6, AnsweredStep
  <2>8. Caused(d, d', wire, wire, skewed) BY <1>9, <1>10, <2>7, CausedFrom
  <2>9. AllCounted(d, d')
    <3>1. AllCounted(x, d') BY <2>5 DEF Answered
    <3> QED BY <3>1, <1>9 DEF AllCounted, Counted, IsOpen
  <2>10. Steady(d, d') BY <1>2, <2>9, CountedSteady
  <2> QED BY <2>7, <2>8, <2>10, IInvFine DEF Step, Cancel
<1> QED BY <1>16, <1>17

LEMMA DeliverActionStep ==
  ASSUME IInv, NEW p \in Sources, Deliver(p)
  PROVE  Step
<1>1. /\ Fine(d, wire, skewed) /\ Sound(d) /\ Reads(d, p)
      /\ \A q \in Sources \ skewed : InStep(d, wire, q)
  BY IInvFine DEF Deliver
<1>2. PICK i \in 1 .. Len(wire[p]), outcome \in {"reply", "failed"} :
        /\ d' \in GotResponse(d, p, outcome, wire[p][i])
        /\ wire' = [wire EXCEPT ![p] = SubSeq(wire[p], i + 1, Len(wire[p]))]
  BY Zenon DEF Deliver
<1>3. WireRead(wire, wire', p, i) BY <1>2 DEF WireRead
<1>4. Fine(d', wire', skewed) /\ Caused(d, d', wire, wire', skewed) /\ AllCounted(d, d')
  BY <1>1, <1>2, <1>3, DeliverStep
<1>5. Steady(d, d') BY <1>1, <1>4, CountedSteady
<1> QED BY <1>4, <1>5, IInvFine DEF Step, Deliver

LEMMA DeviceStrayStep ==
  ASSUME IInv, NEW p \in Sources, DeviceStray(p)
  PROVE  Step
<1>1. /\ Fine(d, wire, skewed) /\ Sound(d) /\ WireOK(d, wire) /\ d' = d
      /\ wire \in [Sources -> Seq(Answers)] /\ wire[p] \in Seq(Answers)
      /\ Stray \in Answers /\ Stray \notin Cmds
  BY IInvFine, PortSerialAssumption DEF DeviceStray, WireOK, Answers
<1>2. PICK s : s = Append(wire[p], Stray) OBVIOUS
<1>3. wire' = [wire EXCEPT ![p] = s] BY <1>2 DEF DeviceStray
<1>4. /\ s \in Seq(Answers) /\ Len(s) = Len(wire[p]) + 1 /\ s[Len(wire[p]) + 1] = Stray
      /\ Len(wire[p]) \in Nat /\ \A i \in 1 .. Len(wire[p]) : s[i] = wire[p][i]
  BY <1>1, <1>2
<1>5. /\ wire' \in [Sources -> Seq(Answers)] /\ wire'[p] = s
      /\ \A q \in Sources \ {p} : wire'[q] = wire[q]
  BY <1>1, <1>3, <1>4
<1>6. ASSUME NEW q \in Sources, NEW i \in 1 .. Len(wire'[q]), wire'[q][i] \in Cmds
      PROVE  d.cmd[wire'[q][i]].sent = "all"
  <2>1. CASE q = p
    <3>1. i # Len(wire[p]) + 1 BY <2>1, <1>1, <1>4, <1>5, <1>6
    <3>2. i \in 1 .. Len(wire[p]) /\ wire'[q][i] = wire[p][i] BY <2>1, <3>1, <1>4, <1>5
    <3> QED BY <3>2, <1>1, <1>6 DEF WireOK
  <2>2. CASE q # p
    <3>1. wire'[q] = wire[q] BY <2>2, <1>5
    <3> QED BY <3>1, <1>1, <1>6 DEF WireOK
  <2> QED BY <2>1, <2>2
<1>7. WireOK(d', wire') BY <1>1, <1>5, <1>6 DEF WireOK
<1>8. Fine(d', wire', skewed) BY <1>1, <1>7 DEF Fine
<1>9. Steady(d, d') BY <1>1, Nothing, CountedSteady
<1>10. /\ strays' = strays + 1 /\ strays < MaxStray /\ strays \in 0 .. MaxStray /\ MaxStray \in Nat
       /\ aborted' \in BOOLEAN /\ (RunFirst = {} => ~aborted')
  BY IInvFine, PortSerialAssumption DEF DeviceStray
<1> QED BY <1>8, <1>9, <1>10 DEF Step

LEMMA QueueTimerStep ==
  ASSUME IInv, NEW p \in Sources, QueueTimer(p)
  PROVE  Step
<1>1. /\ Fine(d, wire, skewed) /\ Sound(d) /\ PortOK(d.port[p]) /\ d.port[p].sendTimer
  BY IInvFine DEF QueueTimer
<1>2. ~d.port[p].waitTimer BY <1>1 DEF PortOK
<1>3. PICK r \in QueueProcess(d, wire, p) : d' = r.state /\ wire' = r.wire
  BY <1>2 DEF QueueTimer
<1>4. Ready(d, wire, p, skewed) BY <1>1, <1>2 DEF Fine, Ready, SendOK, SendsOK, InFlight
<1>5. Fine(d', wire', skewed) /\ Caused(d, d', wire, wire', skewed) /\ AllCounted(d, d')
  BY <1>3, <1>4, ProcessStep
<1>6. Steady(d, d') BY <1>1, <1>5, CountedSteady
<1>7. strays' = strays /\ aborted' = aborted BY <1>2 DEF QueueTimer
<1> QED BY <1>5, <1>6, <1>7, IInvFine DEF Step

LEMMA SchedTimerStep ==
  ASSUME IInv, SchedTimer
  PROVE  Step
<1>1. /\ Fine(d, wire, skewed) /\ Sound(d) /\ d \in DaemonType /\ SchedOK(d.sched)
      /\ d.sched \in SchedulerType /\ d.sched.timer /\ ~d.sched.inCommand
      /\ \A q \in Sources : Holds(d.port[q].queue, d.cmd, q) /\ PortOK(d.port[q])
  BY IInvFine DEF SchedTimer, Sound, SchedOK
<1>2. PICK t : t = RunNext(d.sched) OBVIOUS
<1>3. PICK x : x = [d EXCEPT !.sched = t] OBVIOUS
<1>4. PICK p : p = SourceAt(x.sched, x.sched.cur) OBVIOUS
<1>5. IF ~AnyPending(d.sched) THEN d' = x /\ UNCHANGED <<wire, aborted>>
      ELSE IF InFlight(x, p) THEN aborted' = TRUE /\ UNCHANGED <<d, wire>>
      ELSE /\ \E r \in QueueProcess(x, wire, p) : d' = r.state /\ wire' = r.wire
           /\ UNCHANGED aborted
  BY <1>2, <1>3, <1>4, Zenon DEF SchedTimer
<1>6. strays' = strays BY DEF SchedTimer
<1>7. CASE ~AnyPending(d.sched)
  <2>2. /\ t \in SchedulerType /\ t.sources = d.sched.sources /\ t.pending = d.sched.pending
        /\ t.cur = d.sched.cur /\ t.inCommand = d.sched.inCommand /\ t.timer = FALSE
    BY <1>1, <1>2, <1>7, RunNextEffect
  <2>3. Registered(t) = Registered(d.sched) /\ Distinct(t) = Distinct(d.sched)
        /\ Indexes(t) = Indexes(d.sched)
    BY <2>2, SameArray
  <2>4. ~AnyPending(t) BY <1>7, <2>2, <2>3 DEF AnyPending, HasCommand, SourceAt
  <2>5. SchedOK(t) BY <1>1, <2>2, <2>3, <2>4 DEF SchedOK
  <2>6. /\ x \in DaemonType /\ x.sched = t /\ x.port = d.port /\ x.cmd = d.cmd /\ x.cache = d.cache
    BY <1>1, <1>3, <2>2, SchedSet
  <2>7. Sound(x) BY <1>1, <2>5, <2>6 DEF Sound
  <2>8. \A q \in Sources : Kept(d, x, q) BY <2>6 DEF Kept, Queue
  <2>9. Called(d, x)
    BY <2>2, <2>6, <2>7, <2>8 DEF Called, SameTurn, CmdsKept, CacheKept
  <2>10. AllCounted(d, x) BY <2>6 DEF AllCounted, Counted
  <2>11. d' = x /\ wire' = wire /\ aborted' = aborted BY <1>5, <1>7
  <2>12. Steady(d, d') BY <1>1, <2>10, <2>11, CountedSteady
  <2> QED BY <1>6, <2>9, <2>11, <2>12, StillStep
<1>8. CASE AnyPending(d.sched)
  <2>1. SchedOK(t) /\ t \in SchedulerType /\ p \in Sources /\ t.inCommand /\ IsCurrent(t, p)
        /\ x.sched = t
    <3>1. t \in SchedulerType BY <1>1, <1>2, <1>8, RunNextEffect DEF SchedOK
    <3>2. x.sched = t BY <1>1, <1>3, <3>1, SchedSet
    <3> QED BY <1>1, <1>2, <1>4, <1>8, <3>1, <3>2, RunSched
  <2>2. /\ x \in DaemonType /\ x.port = d.port /\ x.cmd = d.cmd /\ x.cache = d.cache
    BY <1>1, <1>3, <2>1, SchedSet
  <2>3. \A q : (InFlight(x, q) <=> InFlight(d, q)) /\ Queue(x, q) = Queue(d, q)
    BY <2>2 DEF InFlight, Queue
  <2>4. ASSUME RunFirst = {}, NEW q \in Sources PROVE ~InFlight(x, q)
    <3>1. SendsOK(d, q) BY <1>1, <2>4 DEF Fine, SendOK
    <3> QED BY <1>1, <2>3, <3>1 DEF SendsOK, HasTurn
  <2>5. CASE InFlight(x, p)
    <3>1. aborted' = TRUE /\ d' = d /\ wire' = wire BY <1>5, <1>8, <2>5
    <3>2. RunFirst # {} BY <2>1, <2>4, <2>5
    <3>3. Called(d, d) /\ AllCounted(d, d) BY <1>1, Nothing
    <3>4. Caused(d, d, wire, wire, skewed) BY <1>1, <3>3, CalledFine
    <3>5. Steady(d, d) BY <1>1, <3>3, CountedSteady
    <3> QED BY <1>1, <1>6, <3>1, <3>2, <3>4, <3>5, IInvFine DEF Step
  <2>6. CASE ~InFlight(x, p)
    <3>1. PICK r \in QueueProcess(x, wire, p) : d' = r.state /\ wire' = r.wire
      BY <1>5, <1>8, <2>6
    <3>2. aborted' = aborted BY <1>5, <1>8, <2>6
    <3>3. Sound(x) BY <1>1, <2>1, <2>2 DEF Sound
    <3>4. HasTurn(x, p) /\ ~x.port[p].waitTimer BY <2>1, <2>6 DEF HasTurn, InFlight
    <3>5. RunFirst = {} => \A q \in Sources \ {p} : SendsOK(x, q) BY <2>4 DEF SendsOK, InFlight
    <3>6. AnswersOK(x, skewed) /\ WireOK(x, wire)
      BY <1>1, <2>2 DEF Fine, AnswersOK, CacheOK, ReplyOK, WireOK
    <3>7. Ready(x, wire, p, skewed) BY <3>3, <3>4, <3>5, <3>6 DEF Ready
    <3>8. Fine(d', wire', skewed) /\ Caused(x, d', wire, wire', skewed) /\ AllCounted(x, d')
      BY <2>1, <3>1, <3>7, ProcessStep
    <3>9. Caused(d, d', wire, wire', skewed) BY <2>2, <3>8, CausedFrom
    <3>10. AllCounted(d, d') BY <2>2, <3>8 DEF AllCounted, Counted, IsOpen
    <3>11. Steady(d, d') BY <1>1, <3>10, CountedSteady
    <3> QED BY <1>6, <3>2, <3>8, <3>9, <3>11, IInvFine DEF Step
  <2> QED BY <2>5, <2>6
<1> QED BY <1>7, <1>8

LEMMA NextStep ==
  ASSUME IInv, Next
  PROVE  Step /\ IInv'
<1>1. Step
  <2>1. ASSUME NEW p \in Sources, PortAction(p) PROVE Step
    BY <2>1, OpenStep, CloseByUserStep, HangupStep, ReopenStep, ReopenTimerStep, SetConnectedStep,
       QueueTimerStep, DeliverActionStep, TimeoutStep, DeviceStrayStep DEF PortAction
  <2>2. ASSUME NEW c \in Cmds, Submit(c) \/ Cancel(c) PROVE Step BY <2>2, SubmitStep, CancelStep
  <2> QED BY <2>1, <2>2, SchedTimerStep DEF Next
<1>2. WatchSkew
  BY DEF Next, PortAction, Open, CloseByUser, Hangup, Reopen, ReopenTimer, SetConnected, QueueTimer,
         Deliver, Timeout, DeviceStray, Submit, Cancel, SchedTimer
<1> QED BY <1>1, <1>2, StepKeeps

----------------------------------------------------------------------------
(* The initial state.                                                      *)
LEMMA SetToSeqRegisters ==
  ASSUME NEW S, IsFiniteSet(S), NEW s, s = SetToSeq(S)
  PROVE  /\ s \in Seq(S)
         /\ \A i, j \in 1 .. Len(s) : s[i] = s[j] => i = j
         /\ \A e \in S : \E i \in 1 .. Len(s) : s[i] = e
<1>1. PICK n \in Nat : n = Cardinality(S) BY FS_CardinalityType
<1>2. \E f \in [1 .. n -> S] : IsInjective(f)
  BY <1>1, FS_CardinalityType DEF ExistsBijection, Bijection, Injection
<1>3. s \in [1 .. n -> S] /\ IsInjective(s) BY <1>1, <1>2 DEF SetToSeq
<1>4. s \in Injection(1 .. n, S) BY <1>3 DEF Injection
<1>5. Cardinality(1 .. n) = n BY FS_Interval
<1>6. s \in Surjection(1 .. n, S) BY <1>1, <1>4, <1>5, FS_Injection
<1>7. s \in Seq(S) /\ Len(s) = n /\ DOMAIN s = 1 .. n BY <1>3
<1>8. \A e \in S : \E i \in 1 .. n : s[i] = e BY <1>6 DEF Surjection
<1> QED BY <1>3, <1>7, <1>8 DEF IsInjective

LEMMA InitIInv == Init => IInv
<1> SUFFICES ASSUME Init PROVE IInv OBVIOUS
<1>1. PICK s : s = [NewScheduler EXCEPT !.sources = SetToSeq(Sources)] OBVIOUS
<1>2. PICK q : q = SetToSeq(Sources) OBVIOUS
<1>3. /\ q \in Seq(Sources) /\ \A i, j \in 1 .. Len(q) : q[i] = q[j] => i = j
      /\ \A e \in Sources : \E i \in 1 .. Len(q) : q[i] = e
  BY <1>2, SchedulerAssumption, SetToSeqRegisters
<1>4. /\ s \in SchedulerType /\ s.sources = q /\ ~s.inCommand /\ ~s.timer
      /\ s.pending = [p \in Sources |-> 0]
  BY <1>1, <1>2, <1>3, SchedulerAssumption DEF NewScheduler, SchedulerType
<1>5. Registered(s) = Sources /\ Distinct(s) BY <1>3, <1>4 DEF Registered, Distinct
<1>6. ~AnyPending(s)
  <2> SUFFICES ASSUME NEW idx \in Indexes(s) PROVE ~HasCommand(s, idx) BY DEF AnyPending
  <2>1. idx + 1 \in 1 .. Len(q) BY <1>3, <1>4 DEF Indexes
  <2>2. SourceAt(s, idx) \in Sources BY <1>3, <1>4, <2>1 DEF SourceAt
  <2> QED BY <1>4, <2>2 DEF HasCommand
<1>7. SchedOK(s) BY <1>4, <1>5, <1>6 DEF SchedOK
<1>8. NewPort \in PortType /\ PortOK(NewPort)
  BY PortSerialAssumption DEF NewPort, PortType, PortOK
<1>9. NewCmd \in CmdType BY DEF NewCmd, CmdType
<1>10. /\ d.sched = s /\ d.port = [p \in Sources |-> NewPort] /\ d.cmd = [c \in Cmds |-> NewCmd]
       /\ d.cache = [p \in Sources |-> [t \in Texts |-> None]]
  BY <1>1 DEF Init
<1>11. d \in DaemonType BY <1>1, <1>4, <1>8, <1>9 DEF Init, DaemonType
<1>12. ASSUME NEW p \in Sources PROVE Holds(d.port[p].queue, d.cmd, p)
  BY <1>10 DEF NewPort, NewCmd, Holds
<1>13. Sound(d) BY <1>7, <1>8, <1>10, <1>11, <1>12 DEF Sound
<1>14. TurnOK(d) /\ SendOK(d)
  BY <1>4, <1>10 DEF TurnOK, SendOK, SendsOK, InFlight, NewPort
<1>15. AnswersOK(d, skewed)
  BY <1>10 DEF AnswersOK, CacheOK, ReplyOK, NewCmd
<1>16. wire = [p \in Sources |-> <<>>] /\ strays = 0 /\ skewed = {} /\ aborted = FALSE BY DEF Init
<1>17. WireOK(d, wire) BY <1>16 DEF WireOK
<1>18. \A p \in Sources : InStep(d, wire, p) BY <1>16 DEF InStep
<1>19. strays \in 0 .. MaxStray /\ skewed \in SUBSET Sources /\ aborted \in BOOLEAN /\ ~aborted
  <2>1. MaxStray \in Nat BY PortSerialAssumption
  <2>2. strays \in 0 .. MaxStray BY <1>16, <2>1
  <2> QED BY <1>16, <2>2
<1> QED BY <1>13, <1>14, <1>15, <1>17, <1>18, <1>19 DEF IInv

----------------------------------------------------------------------------
(* The invariant holds in every reachable state: whatever users, callbacks, *)
(* timers and the device do, every handler leaves the queues, the turn, the *)
(* cache and the wires consistent.                                          *)
THEOREM Invariance == Spec => []IInv
<1>1. IInv /\ [Next]_vars => IInv'
  <2> SUFFICES ASSUME IInv, [Next]_vars PROVE IInv' OBVIOUS
  <2>1. CASE Next BY <2>1, NextStep
  <2>2. CASE UNCHANGED vars
    <3>1. d' = d /\ wire' = wire /\ strays' = strays /\ skewed' = skewed /\ aborted' = aborted
      BY <2>2 DEF vars
    <3> QED BY <3>1 DEF IInv
  <2> QED BY <2>1, <2>2
<1> QED BY InitIInv, <1>1, PTL DEF Spec

(* The types of the daemon's records, through every handler.                *)
THEOREM SpecTypeOK == Spec => []TypeOK
<1>1. IInv => TypeOK BY DEF IInv, Sound, WireOK, TypeOK
<1> QED BY <1>1, Invariance, PTL

(* The queue of every port holds exactly the commands that wait, each once. *)
THEOREM SpecQueueExact == Spec => []QueueExact
<1>1. IInv => QueueExact
  <2> SUFFICES ASSUME IInv, NEW p \in Sources, NEW W, W = {c \in Cmds : PortOf[c] = p /\ d.cmd[c].state = "queued"}
               PROVE  Range(Queue(d, p)) = W /\ Len(Queue(d, p)) = Cardinality(W)
    BY DEF QueueExact
  <2>1. PICK q : q = Queue(d, p) OBVIOUS
  <2>2. q \in Seq(Cmds) /\ Holds(q, d.cmd, p)
    BY <2>1, IInvFine DEF Sound, PortType, Queue
  <2>3. PICK n \in Nat : n = Len(q) BY <2>2
  <2>4. q \in [1 .. n -> Cmds] /\ DOMAIN q = 1 .. n BY <2>2, <2>3
  <2>5. /\ \A i, j \in 1 .. n : q[i] = q[j] => i = j
        /\ \A i \in 1 .. n : q[i] \in W
        /\ \A c \in W : \E i \in 1 .. n : q[i] = c
    BY <2>2, <2>3, <2>4 DEF Holds
  <2>6. Range(q) = W BY <2>4, <2>5 DEF Range
  <2>7. q \in [1 .. n -> W] BY <2>4, <2>5
  <2>8. q \in Bijection(1 .. n, W)
    BY <2>5, <2>7 DEF Bijection, Injection, Surjection, IsInjective
  <2>9. IsFiniteSet(1 .. n) /\ Cardinality(1 .. n) = n BY FS_Interval
  <2>10. Cardinality(W) = n BY <2>8, <2>9, FS_Bijection DEF ExistsBijection
  <2> QED BY <2>1, <2>3, <2>6, <2>10
<1> QED BY <1>1, Invariance, PTL

(* While a source has the turn, one of its timers will end it, or the end   *)
(* is one of the two known losses.                                          *)
THEOREM SpecNoPortStall == Spec => []NoPortStall
<1>1. IInv => NoPortStall BY DEF IInv, TurnOK, NoPortStall
<1> QED BY <1>1, Invariance, PTL

(* In step, every reply, cached or not, is the one to the user's command.   *)
THEOREM SpecAnswerIsForCommand == Spec => []AnswerIsForCommand
<1>1. IInv => AnswerIsForCommand BY DEF IInv, AnswersOK, ReplyOK, AnswerIsForCommand
<1> QED BY <1>1, Invariance, PTL

(* Without run_next commands no assert of the sending handlers fails.       *)
THEOREM SpecNoAbort ==
  ASSUME RunFirst = {}
  PROVE  Spec => []NoAbort
<1>1. IInv => NoAbort BY DEF IInv, NoAbort
<1> QED BY <1>1, Invariance, PTL

(* Answers get out of step only by a stray, by a sent command that ends     *)
(* without its answer, or by a command that goes first.                     *)
THEOREM SpecSkewCause == Spec => SkewCause
<1> DEFINE Cause ==
      \A p \in skewed' \ skewed :
        \/ strays' # strays
        \/ \E c \in Cmds :
             /\ PortOf[c] = p
             /\ \/ d'.cmd[c].sent = "all" /\ Ends(c, {"timeout", "cancelled", "closed"})
                \/ c \in RunFirst /\ d.cmd[c].state = "new" /\ d'.cmd[c].state # "new"
<1>1. IInv /\ [Next]_vars => [Cause]_vars
  <2> SUFFICES ASSUME IInv, Next PROVE Cause OBVIOUS
  <2>1. Step BY NextStep
  <2>2. WatchSkew
    BY DEF Next, PortAction, Open, CloseByUser, Hangup, Reopen, ReopenTimer, SetConnected,
           QueueTimer, Deliver, Timeout, DeviceStray, Submit, Cancel, SchedTimer
  <2> SUFFICES ASSUME NEW p \in skewed' \ skewed, strays' = strays
               PROVE  \E c \in Cmds :
                        /\ PortOf[c] = p
                        /\ \/ d'.cmd[c].sent = "all" /\ Ends(c, {"timeout", "cancelled", "closed"})
                           \/ c \in RunFirst /\ d.cmd[c].state = "new" /\ d'.cmd[c].state # "new"
    OBVIOUS
  <2>3. p \in Sources \ skewed /\ ~InStep(d', wire', p) BY <2>2 DEF WatchSkew
  <2>4. InStep(d, wire, p) BY <2>3 DEF IInv
  <2>5. Skews(d, d', p) BY <2>1, <2>3, <2>4 DEF Step, Caused
  <2> QED BY <2>5 DEF Skews, Ends
<1> QED BY <1>1, Invariance, PTL DEF Spec, SkewCause

(* Only a close during a reopen unbalances the open count of a port.        *)
THEOREM SpecOpenCountKept == Spec => OpenCountKept
<1>1. IInv /\ [Next]_vars => [Steady(d, d')]_vars BY NextStep DEF Step
<1>2. [Steady(d, d')]_vars =>
      [\A p \in Sources :
         Balanced(d, p) /\ ~Balanced(d', p) =>
           d.port[p].reopen # None /\ d'.port[p].held < d.port[p].held]_vars
  BY DEF Steady
<1> QED BY <1>1, <1>2, Invariance, PTL DEF Spec, OpenCountKept
=============================================================================
