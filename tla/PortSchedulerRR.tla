-------------------------- MODULE PortSchedulerRR --------------------------
(***************************************************************************)
(* The round-robin port scheduler of src/src/mm-port-scheduler-rr.c, as    *)
(* operators on a record that stands for one MMPortSchedulerRR object:     *)
(*                                                                         *)
(*   sources    priv->sources, the ids in registration order               *)
(*   pending    num_pending of each source                                 *)
(*   cur        priv->cur_source, a 0-based index, GMaxUint at first       *)
(*   inCommand  priv->in_command                                           *)
(*   timer      next_pending_id # 0: run_next_command is scheduled         *)
(*                                                                         *)
(* Every entry point is an operator from the record to its next value, so  *)
(* that the synchronous calls the ports make in the middle of their own    *)
(* handlers (PortSerial) compose into one step.  The inter-port delay only *)
(* says when the timer fires; here it fires at any later time.             *)
(***************************************************************************)
EXTENDS Integers, Sequences, FiniteSets, SequencesExt

CONSTANTS
  Sources,   \* the ports that may register, src/src/mm-port-serial.c
  GMaxUint   \* G_MAXUINT32, the initial cur_source

(* register_source asserts sources->len < UINT_MAX.                        *)
ASSUME SchedulerAssumption ==
  /\ GMaxUint \in Nat
  /\ IsFiniteSet(Sources)
  /\ Cardinality(Sources) < GMaxUint

SchedulerType ==
  [sources   : Seq(Sources),
   pending   : [Sources -> Nat],
   cur       : Nat,
   inCommand : BOOLEAN,
   timer     : BOOLEAN]

NewScheduler ==
  [sources   |-> <<>>,
   pending   |-> [p \in Sources |-> 0],
   cur       |-> GMaxUint,
   inCommand |-> FALSE,
   timer     |-> FALSE]

Registered(s) == {s.sources[i] : i \in 1 .. Len(s.sources)}

Indexes(s) == 0 .. Len(s.sources) - 1

SourceAt(s, idx) == s.sources[idx + 1]

(* find_source: the index of a registered id.                              *)
IndexOf(s, p) == CHOOSE idx \in Indexes(s) : SourceAt(s, idx) = p

IsCurrent(s, p) == p \in Registered(s) /\ IndexOf(s, p) = s.cur

----------------------------------------------------------------------------
(* find_next_source.  The walk starts after cur_source, whose increment     *)
(* wraps as a guint and then at the end of the array, and visits every      *)
(* index once, the current one last.                                        *)

(* Mutant: the walk starts at the current source instead of after it.       *)
FirstVisitedCurrent(s) ==
  IF s.cur >= Len(s.sources) THEN 0 ELSE s.cur

FirstVisited(s) ==
  IF s.cur = GMaxUint \/ s.cur + 1 >= Len(s.sources) THEN 0 ELSE s.cur + 1

Visited(s, i) ==
  IF FirstVisited(s) + i < Len(s.sources)
    THEN FirstVisited(s) + i
    ELSE FirstVisited(s) + i - Len(s.sources)

HasCommand(s, idx) == s.pending[SourceAt(s, idx)] > 0

IsNext(s, i) ==
  /\ HasCommand(s, Visited(s, i))
  /\ \A j \in 0 .. i - 1 : ~HasCommand(s, Visited(s, j))

AnyPending(s) == \E idx \in Indexes(s) : HasCommand(s, idx)

NextIndex(s) == Visited(s, CHOOSE i \in Indexes(s) : IsNext(s, i))

----------------------------------------------------------------------------
(* Mutant: schedule_next_command without the test of in_command.            *)
ScheduleNextAnytime(s) ==
  [s EXCEPT !.timer = s.timer \/ AnyPending(s)]

(* schedule_next_command                                                   *)
ScheduleNext(s) ==
  [s EXCEPT !.timer = s.timer \/ (~s.inCommand /\ AnyPending(s))]

(* run_next_command, the handler of the timer.  The send-command signal it *)
(* emits goes to the source that is current afterwards.                    *)
RunNext(s) ==
  IF AnyPending(s)
    THEN [s EXCEPT !.timer = FALSE, !.cur = NextIndex(s), !.inCommand = TRUE]
    ELSE [s EXCEPT !.timer = FALSE]

RegisterSource(s, p) ==
  IF p \in Registered(s)
    THEN s
    ELSE [s EXCEPT !.sources = Append(s.sources, p), !.pending = [@ EXCEPT ![p] = 0]]

(* unregister_source: the array closes up over the removed entry while      *)
(* cur_source and in_command keep their values.                             *)
UnregisterSource(s, p) ==
  IF p \notin Registered(s)
    THEN s
    ELSE LET removed == [s EXCEPT !.sources = RemoveAt(s.sources, IndexOf(s, p) + 1),
                                  !.pending = [@ EXCEPT ![p] = 0]]
         IN  IF s.cur = IndexOf(s, p) THEN ScheduleNext(removed) ELSE removed

NotifyNumPending(s, p, n) ==
  IF p \in Registered(s) /\ s.pending[p] # n
    THEN ScheduleNext([s EXCEPT !.pending = [@ EXCEPT ![p] = n]])
    ELSE s

(* Mutants: in_command is not cleared; the depth is not stored.             *)
NotifyCommandDoneHeld(s, p, n) ==
  IF IsCurrent(s, p) THEN ScheduleNext([s EXCEPT !.pending = [@ EXCEPT ![p] = n]]) ELSE s

NotifyCommandDoneStale(s, p, n) ==
  IF IsCurrent(s, p) THEN ScheduleNext([s EXCEPT !.inCommand = FALSE]) ELSE s

(* notify_command_done: unknown and non-current sources only get a warning. *)
NotifyCommandDone(s, p, n) ==
  IF IsCurrent(s, p)
    THEN ScheduleNext([s EXCEPT !.inCommand = FALSE, !.pending = [@ EXCEPT ![p] = n]])
    ELSE s

----------------------------------------------------------------------------
(* Nobody is registered twice (register_source refuses it).                  *)
Distinct(s) ==
  \A i, j \in 1 .. Len(s.sources) : s.sources[i] = s.sources[j] => i = j
=============================================================================
