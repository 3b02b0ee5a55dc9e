---------------------------- MODULE SupportCheck ----------------------------
(***************************************************************************)
(* The support check of one device (src/src/mm-plugin-manager.c): which    *)
(* plugin handles it.  A check (DeviceContext) runs a port context for     *)
(* every port of the device; each asks its plugins in turn, may be         *)
(* deferred, may wait for what another port finds out, and suggests what   *)
(* it found to the others.                                                 *)
(*                                                                         *)
(* The code is callbacks run in place: completing a port may complete the  *)
(* others and the whole check before the call returns.  A check is         *)
(* therefore a record and every operation of the code a function on it;    *)
(* DeviceProbing owns the records and takes the steps.                     *)
(***************************************************************************)
EXTENDS Integers, Sequences, FiniteSets, SequencesExt

CONSTANTS
  Ports,       \* kernel ports of the device
  Plugins,     \* as loaded, in order, without the generic one
  Generic,     \* the generic plugin
  Hint,        \* what mm_plugin_discard_port_early says, per plugin and port
  NoIcera,     \* plugins with MM_PLUGIN_FORBIDDEN_ICERA
  OnlyIcera,   \* plugins with MM_PLUGIN_ALLOWED_ICERA
  Filtered,    \* ports mm_filter_device_and_port rejects
  None         \* no plugin

AllPlugins == Range(Plugins) \cup {Generic}
Hints == {"unsupported", "maybe", "likely", "supported"}

ASSUME SupportCheckAssumption ==
  /\ IsFiniteSet(Ports) /\ Plugins \in Seq(Range(Plugins))
  /\ Generic \notin Range(Plugins) /\ None \notin AllPlugins \cup Ports
  /\ Hint \in [Range(Plugins) \X Ports -> Hints]
  /\ NoIcera \cap OnlyIcera = {}
  /\ Filtered \subseteq Ports

(* A port context: the stage its task is at, its cancellable, the position in *)
(* the plugin list (0: NULL), its best and its suggested plugin.              *)
(* "deferred" and "recheck" have defer_id set, "until" is                     *)
(* defer_until_suggested, "returning" returns its task from an idle, "done"   *)
(* is completing in place.                                                    *)
Stages == {"none", "waiting", "checking", "deferred", "recheck", "until", "returning", "done"}
PortContexts == [stage : Stages, cancelled : BOOLEAN, current : Nat,
                 best : AllPlugins \cup {None}, suggested : AllPlugins \cup {None}]
NoPortContext == [stage |-> "none", cancelled |-> FALSE, current |-> 0,
                  best |-> None, suggested |-> None]

Results == AllPlugins \cup {None, "unsupported", "cancelled"}

(* A DeviceContext; "ignored" are the ports it had the device ignore, stale   *)
(* is set when a port context that was freed is used, broken when a g_assert  *)
(* of the file fails.                                                         *)
DeviceContexts ==
  [task : BOOLEAN, cancelled : BOOLEAN, minWait : BOOLEAN, minProbing : BOOLEAN,
   extraProbing : BOOLEAN, waiting : Seq(Ports), running : Seq(Ports),
   port : [Ports -> PortContexts], best : AllPlugins \cup {None}, result : Results,
   ignored : SUBSET Ports, stale : BOOLEAN, broken : BOOLEAN]

device_context_run ==
  [task |-> TRUE, cancelled |-> FALSE, minWait |-> TRUE, minProbing |-> TRUE,
   extraProbing |-> FALSE, waiting |-> <<>>, running |-> <<>>,
   port |-> [p \in Ports |-> NoPortContext], best |-> None, result |-> None,
   ignored |-> {}, stale |-> FALSE, broken |-> FALSE]

(* What is left of a check whose task has returned.                           *)
Finished(c) == [device_context_run EXCEPT !.task = FALSE, !.minWait = FALSE, !.minProbing = FALSE,
                  !.running = c.running, !.port = c.port, !.broken = c.broken, !.stale = c.stale]

Runs(c, p) == p \in Range(c.running)

(* The elements of s that are in T, in their order.                           *)
Kept(s, T) ==
  LET kept[i \in 0 .. Len(s)] ==
        IF i = 0 THEN <<>>
        ELSE IF s[i] \in T THEN Append(kept[i - 1], s[i]) ELSE kept[i - 1]
  IN kept[Len(s)]
Without(s, p) == Kept(s, Ports \ {p})

-----------------------------------------------------------------------------
(* Plugins to try on a port: the likely ones are prepended, one that is sure  *)
(* replaces the list and ends the search, and the generic one is last.        *)
plugin_manager_build_plugins_list(p) ==
  LET sure == {i \in DOMAIN Plugins : Hint[<<Plugins[i], p>>] = "supported"}
      likely == Kept(Plugins, {g \in Range(Plugins) : Hint[<<g, p>>] = "likely"})
      maybe  == Kept(Plugins, {g \in Range(Plugins) : Hint[<<g, p>>] = "maybe"})
  IN Append(IF sure # {} THEN <<Plugins[Min(sure)]>> ELSE Reverse(likely) \o maybe, Generic)

Plugin(p, i) == plugin_manager_build_plugins_list(p)[i]

(* g_list_find (current, plugin): from here to the end of the list, or NULL.  *)
Find(p, from, g) ==
  LET list == plugin_manager_build_plugins_list(p)
      at == IF from = 0 THEN {} ELSE {i \in from .. Len(list) : list[i] = g}
  IN IF at = {} THEN 0 ELSE Min(at)

(* All running ports only wait for a suggestion, p aside.                     *)
OnlyWaiters(c, p) == \A q \in Range(c.running) \ {p} : c.port[q].stage = "until"

-----------------------------------------------------------------------------
(* Completion, and what it sets off in place.                                 *)

device_context_complete(c) ==
  IF c.minProbing \/ c.extraProbing THEN c
  ELSE IF ~c.task THEN [c EXCEPT !.broken = TRUE]
  ELSE [c EXCEPT !.task = FALSE,
                 !.broken = @ \/ c.minWait,
                 !.result = IF c.cancelled THEN "cancelled"
                            ELSE IF c.best = None THEN "unsupported" ELSE c.best]

(* Completing a port may complete others in place, one inside the other: the  *)
(* operations that may do so take the completion of the ones inside as a      *)
(* function of the check and the port.                                        *)

(* A suggestion ends the wait of a port that only waits for one; a specific   *)
(* plugin is also noted by the ports that still look for theirs.              *)
port_context_set_suggestion(complete, c, p, g) ==
  LET pc == c.port[p] IN
  IF ~Runs(c, p) THEN [c EXCEPT !.stale = TRUE]
  ELSE IF pc.best # None \/ pc.suggested # None THEN c
  ELSE IF pc.stage = "until"
    THEN IF g = None THEN complete[c][p]
         ELSE [c EXCEPT !.port[p].stage = "recheck", !.port[p].suggested = g,
                        !.port[p].current = Find(p, pc.current, g)]
  ELSE IF g \in {None, Generic} \cup NoIcera THEN c
  ELSE [c EXCEPT !.port[p].suggested = g]

(* The list is copied first, the port contexts on it are not referenced.      *)
device_context_suggest_plugin(complete, c, p, g) ==
  IF g = None /\ ~OnlyWaiters(c, p) THEN c
  ELSE FoldLeft(LAMBDA a, q : port_context_set_suggestion(complete, a, q, g), c, c.running)

device_context_set_best_plugin(complete, c, p, g) ==
  IF g = None
    THEN IF c.best # None THEN c
         ELSE device_context_suggest_plugin(complete, [c EXCEPT !.ignored = @ \cup {p}], p, None)
  ELSE IF c.best = None \/ (c.best = Generic /\ g # Generic)
    THEN device_context_suggest_plugin(complete, [c EXCEPT !.best = g], p, g)
  ELSE IF g \in OnlyIcera /\ c.best \in NoIcera THEN [c EXCEPT !.best = g]
  ELSE c

device_context_continue(complete, c) ==
  IF c.running = <<>> THEN device_context_complete(c)
  ELSE IF OnlyWaiters(c, None) THEN device_context_suggest_plugin(complete, c, None, None)
  ELSE c

(* A port that is done tells what it found, if it was not cancelled, and goes. *)
Told(complete, c, p) ==
  IF c.port[p].cancelled THEN c
  ELSE device_context_set_best_plugin(complete, c, p, c.port[p].best)
Dropped(c, p) ==
  [c EXCEPT !.running = Without(@, p), !.port[p] = NoPortContext, !.broken = @ \/ ~Runs(c, p)]

(* MUTANT: the check is not continued when a port is done.                    *)
port_context_run_ready_alone(complete, c, p) == Dropped(Told(complete, c, p), p)

(* A cancelled task returns the cancellation whatever was found.              *)
port_context_run_ready(complete, c, p) ==
  device_context_continue(complete, Dropped(Told(complete, c, p), p))

port_context_complete_with(complete, c, p) ==
  IF c.port[p].stage \in {"done", "returning"} THEN c
  ELSE port_context_run_ready(complete, [c EXCEPT !.port[p].stage = "done"], p)

(* Every completion inside another is of one port less.  At most as many as   *)
(* there are ports are nested; one more would be a port that is not there.    *)
Nested[n \in 0 .. Cardinality(Ports)] ==
  [c \in DeviceContexts |-> [p \in Ports |->
    IF n = 0 THEN [c EXCEPT !.broken = TRUE]
    ELSE port_context_complete_with(Nested[n - 1], c, p)]]
InPlace == Nested[Cardinality(Ports)]

port_context_complete(c, p) == port_context_complete_with(InPlace, c, p)

-----------------------------------------------------------------------------
(* One port: ask the plugins one after the other.                             *)

port_context_next(c, p) ==
  IF c.port[p].cancelled \/ c.port[p].current = 0 THEN port_context_complete(c, p)
  ELSE [c EXCEPT !.port[p].stage = "checking"]

port_context_unsupported(c, p, g) ==
  LET pc == c.port[p]
      len == Len(plugin_manager_build_plugins_list(p)) IN
  IF pc.suggested = None
    THEN port_context_next([c EXCEPT !.port[p].current = IF pc.current = len THEN 0 ELSE @ + 1], p)
  ELSE IF pc.suggested = g THEN port_context_complete(c, p)
  ELSE port_context_next([c EXCEPT !.port[p].current = Find(p, pc.current, pc.suggested)], p)

port_context_supported(c, p, g) ==
  port_context_complete([c EXCEPT !.port[p].best = g], p)

port_context_defer(c, p) ==
  LET pc == c.port[p] IN
  [c EXCEPT !.port[p].stage = "deferred",
            !.port[p].current = IF pc.suggested = None THEN @ ELSE Find(p, @, pc.suggested)]

port_context_defer_until_suggested(c, p, g) ==
  LET pc == c.port[p] IN
  IF pc.suggested = None THEN [c EXCEPT !.port[p].stage = "until"]
  ELSE IF pc.suggested = g THEN port_context_supported(c, p, g)
  ELSE port_context_next([c EXCEPT !.port[p].current = Find(p, pc.current, pc.suggested)], p)

Answers == {"supported", "unsupported", "defer", "until"}

(* An error is an unsupported port, and a cancelled check answers with one.   *)
plugin_supports_port_ready(c, p, answer) ==
  LET g == Plugin(p, c.port[p].current)
      said == IF c.port[p].cancelled THEN "unsupported" ELSE answer
  IN CASE said = "supported"   -> port_context_supported(c, p, g)
       [] said = "unsupported" -> port_context_unsupported(c, p, g)
       [] said = "defer"       -> port_context_defer(c, p)
       [] said = "until"       -> port_context_defer_until_suggested(c, p, g)

port_context_defer_ready(c, p) == port_context_next(c, p)

(* The task of a port with no plugin to ask returns in the next iteration.    *)
port_context_return(c, p) ==
  port_context_run_ready(InPlace, [c EXCEPT !.port[p].stage = "done"], p)

port_context_cancel(c, p) ==
  LET pc == c.port[p]
      a == [c EXCEPT !.port[p].cancelled = TRUE] IN
  IF pc.stage \in {"done", "returning"} \/ pc.cancelled THEN c
  ELSE IF pc.stage \in {"deferred", "recheck", "until"} THEN port_context_complete(a, p)
  ELSE a

-----------------------------------------------------------------------------
(* The whole check.                                                           *)

(* What was found so far comes first, unless it is the generic plugin.        *)
device_context_run_port_context(c, p) ==
  LET suggested == IF c.best = Generic THEN None ELSE c.best
      first == IF suggested = None THEN 1 ELSE Find(p, 1, suggested)
  IN [c EXCEPT !.port[p] = [NoPortContext EXCEPT
        !.stage = IF first = 0 THEN "returning" ELSE "checking",
        !.current = first, !.suggested = suggested]]

device_context_port_added(c, p) ==
  LET armed == [c EXCEPT !.extraProbing = TRUE] IN
  IF p \in Range(c.running) \cup Range(c.waiting) THEN c
  ELSE IF c.minWait
    THEN [armed EXCEPT !.waiting = <<p>> \o @, !.port[p].stage = "waiting"]
  ELSE device_context_run_port_context([armed EXCEPT !.running = <<p>> \o @], p)

Launched(c, p) ==
  IF p \in Filtered THEN [c EXCEPT !.port[p] = NoPortContext]
  ELSE device_context_run_port_context([c EXCEPT !.running = Append(@, p)], p)

device_context_min_wait_time_elapsed(c) ==
  FoldLeft(Launched,
           [c EXCEPT !.minWait = FALSE, !.waiting = <<>>, !.broken = @ \/ c.running # <<>>],
           c.waiting)

device_context_min_probing_time_elapsed(c) ==
  device_context_continue(InPlace, [c EXCEPT !.minProbing = FALSE])

device_context_extra_probing_time_elapsed(c) ==
  device_context_continue(InPlace, [c EXCEPT !.extraProbing = FALSE])

(* MUTANT: the probing timers are left out of the cancellation of a check.    *)
device_context_cancel_timed(c) ==
  LET cancel(a, p) == IF Runs(a, p) THEN port_context_cancel(a, p) ELSE a
      done == FoldLeft(cancel, [c EXCEPT !.cancelled = TRUE, !.waiting = <<>>], c.running)
  IN device_context_continue(InPlace, [done EXCEPT !.minProbing = FALSE, !.extraProbing = FALSE])

(* The signal is connected as long as the check runs.                         *)
device_context_port_released(c, p) ==
  IF ~c.task THEN c
  ELSE IF p \in Range(c.waiting)
    THEN [c EXCEPT !.waiting = Without(@, p), !.port[p] = NoPortContext]
  ELSE IF Runs(c, p) THEN port_context_cancel(c, p)
  ELSE c

(* The running contexts are cancelled one by one while completing in place    *)
(* takes them off the list that is walked.                                    *)
NoneWaiting(c) ==
  [c EXCEPT !.cancelled = TRUE, !.waiting = <<>>,
     !.port = [p \in Ports |-> IF @[p].stage = "waiting" THEN NoPortContext ELSE @[p]],
     !.broken = @ \/ ~c.task \/ c.cancelled \/ (c.waiting # <<>> /\ c.running # <<>>)]
PortCancelled(c, p) ==
  IF Runs(c, p) THEN port_context_cancel(c, p) ELSE [c EXCEPT !.stale = TRUE]
AllCancelled(c) == FoldLeft(PortCancelled, NoneWaiting(c), c.running)

device_context_cancel(c) ==
  device_context_continue(InPlace,
    [AllCancelled(c) EXCEPT !.minWait = FALSE, !.minProbing = FALSE, !.extraProbing = FALSE])
=============================================================================
