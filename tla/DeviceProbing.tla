---------------------------- MODULE DeviceProbing ----------------------------
(***************************************************************************)
(* From kernel ports to a modem on the bus, for one physical device: the   *)
(* manager that hears of ports (src/src/mm-base-manager.c), the device     *)
(* object that owns them and the modem (src/src/mm-device.c), the support  *)
(* checks (SupportCheck) and what the modem does to its own existence      *)
(* (src/src/mm-base-modem.c, src/src/mm-iface-modem.c).                    *)
(*                                                                         *)
(* A physical device that is removed and plugged again is a new device     *)
(* object with the same uid while callbacks of the old one may still be    *)
(* on their way.  The daemon is one record; a handler is a function on it, *)
(* with everything that it runs in place, and an action applies one.       *)
(***************************************************************************)
EXTENDS SupportCheck

CONSTANTS
  NetPorts,     \* ports that no plugin probes: they wait for a suggestion
  Mute,         \* a control port may also end up waiting for a suggestion
  Refusing,     \* plugins whose create_modem fails
  Late,         \* plugins whose probing may have to be deferred
  MaxInputs     \* bound on reported ports, deferrals, modem events and inhibitions

ASSUME DeviceProbingAssumption ==
  /\ NetPorts \subseteq Ports /\ Mute \in BOOLEAN /\ Late \cup Refusing \subseteq AllPlugins
  /\ MaxInputs \in Nat

VARIABLES
  plugged,   \* the ports the kernel has
  daemon,    \* the daemon
  inputs     \* how much of MaxInputs is used

vars == <<plugged, daemon, inputs>>

(* MMDevice: its probe lists, plugin and modem (0: NULL), whether the reprobe *)
(* timer is armed and whether it is inhibited.                                *)
NewDevice == [probes |-> <<>>, ignored |-> {}, plugin |-> None, modem |-> 0,
              reprobe |-> FALSE, inhibited |-> FALSE]
(* MMBaseModem: its device; path is set with the first export and kept; idle  *)
(* is the pending source that sets it invalid.                                *)
NewModem(d) == [device |-> d, valid |-> FALSE, path |-> FALSE, exported |-> FALSE,
                reprobe |-> FALSE, cancelled |-> FALSE, idle |-> FALSE, torn |-> FALSE]

(* Calls whose callback is still to come, and the reason of a modem removal.  *)
Kinds == {"setup", "initialize", "sim", "disable", "additional", "invalid", "inhibit"}
Removals == {"additional", "invalid", "inhibit"}

(* How the daemon ends: a g_assert that fails, or a freed object in use.      *)
Crashes == {"check", "freed", "ongoing", "modem", "inhibited", "device"}

Init ==
  /\ plugged = {}
  /\ daemon = [devices |-> <<>>, listed |-> 0, checks |-> <<>>, tracked |-> 0,
               modems |-> <<>>, tasks |-> {}, inhibition |-> <<>>, inhibiting |-> FALSE,
               crashed |-> {}]
  /\ inputs = 0

Abort(w, what) == [w EXCEPT !.crashed = @ \cup {what}]
Require(w, holds, what) == IF holds THEN w ELSE Abort(w, what)

Call(w, kind, d, m) ==
  LET n == Cardinality({t \in w.tasks : t.kind = kind /\ t.device = d /\ t.modem = m})
  IN [w EXCEPT !.tasks = @ \cup {[kind |-> kind, device |-> d, modem |-> m, n |-> n]}]

-----------------------------------------------------------------------------
(* The modem object of a device.                                              *)

(* MUTANT: a modem without ports.                                             *)
create_modem_bare(w, d) ==
  LET a == Require(w, w.devices[d].modem = 0, "modem") IN
  IF w.devices[d].inhibited \/ w.devices[d].plugin \in Refusing THEN a
  ELSE [a EXCEPT !.modems = Append(@, NewModem(d)), !.devices[d].modem = Len(a.modems) + 1]

mm_device_create_modem(w, d) ==
  LET a == Require(w, w.devices[d].modem = 0, "modem") IN
  IF w.devices[d].inhibited \/ w.devices[d].probes = <<>>
       \/ w.devices[d].plugin \in Refusing THEN a
  ELSE [a EXCEPT !.modems = Append(@, NewModem(d)), !.devices[d].modem = Len(a.modems) + 1]

Created(before, after) == Len(after.modems) > Len(before.modems)

(* Dispose removes the idle source, unexporting happens before if at all.     *)
clear_modem(w, d) ==
  LET m == w.devices[d].modem IN
  IF m = 0 THEN w
  ELSE [w EXCEPT !.devices[d].modem = 0, !.modems[m].idle = FALSE, !.modems[m].cancelled = TRUE]

mm_device_remove_modem(w, d, why) ==
  LET m == w.devices[d].modem IN
  IF m = 0 THEN Call(w, why, d, 0)
  ELSE Call([w EXCEPT !.modems[m] =
              [@ EXCEPT !.exported = FALSE, !.cancelled = TRUE, !.torn = TRUE,
                        !.idle = w.modems[m].idle \/ ~w.modems[m].cancelled]], why, d, m)

mm_device_remove_modem_quick(w, d) ==
  LET m == w.devices[d].modem IN
  IF m = 0 THEN w ELSE clear_modem([w EXCEPT !.modems[m].exported = FALSE], d)

export_modem(w, m) ==
  IF w.modems[m].path THEN w
  ELSE [w EXCEPT !.modems[m] = [@ EXCEPT !.path = TRUE, !.exported = TRUE]]

(* The notification of "valid" reaches the device while the modem is its own. *)
modem_valid(w, m) ==
  LET d == w.modems[m].device IN
  IF w.devices[d].modem # m THEN w
  ELSE IF w.modems[m].valid THEN export_modem(w, m)
  ELSE mm_device_remove_modem(w, d, "invalid")

mm_base_modem_set_valid(w, m, valid) ==
  IF valid /\ w.modems[m].valid THEN w
  ELSE modem_valid([w EXCEPT !.modems[m].valid = valid], m)

mm_device_initialize_modem(w, d) ==
  IF w.devices[d].modem = 0 THEN w ELSE Call(w, "initialize", d, w.devices[d].modem)

-----------------------------------------------------------------------------
(* Support checks and the device they are for.                                *)

mm_device_ignore_port(w, d, ports) ==
  LET mine == ports \cap Range(w.devices[d].probes)
  IN [w EXCEPT !.devices[d].probes = Kept(@, Ports \ mine), !.devices[d].ignored = @ \cup mine]

(* The check is untracked, the plugin set, the modem created and its setup run.*)
device_support_check_ready(w, k) ==
  LET c == w.checks[k].check
      d == w.checks[k].device
      a == [w EXCEPT !.tracked = IF @ = k THEN 0 ELSE @]
      b == mm_device_create_modem([a EXCEPT !.devices[d].plugin = c.result], d)
  IN IF c.result \in {"unsupported", "cancelled"} THEN a
     ELSE IF Created(a, b) THEN Call(b, "setup", d, 0) ELSE b

(* An operation of the plugin manager took check k to c; nothing reads a      *)
(* check any more once its task has returned.                                 *)
Checked(w, k, c) ==
  LET old == w.checks[k].check
      d == w.checks[k].device
      a == Require(Require([w EXCEPT !.checks[k].check = c], ~c.broken, "check"), ~c.stale, "freed")
      b == mm_device_ignore_port(a, d, c.ignored \ old.ignored)
  IN IF old.task /\ ~c.task
       THEN [device_support_check_ready(b, k) EXCEPT !.checks[k].check = Finished(c)]
       ELSE b

mm_plugin_manager_device_support_check(w, d) ==
  IF w.tracked # 0 THEN w
  ELSE [w EXCEPT !.checks = Append(@, [device |-> d, check |-> device_context_run]),
                 !.tracked = Len(w.checks) + 1]

mm_plugin_manager_device_support_check_add_port(w, p) ==
  LET k == w.tracked IN Checked(w, k, device_context_port_added(w.checks[k].check, p))

device_support_check_add_single_port(w, d, p) ==
  mm_plugin_manager_device_support_check_add_port(mm_plugin_manager_device_support_check(w, d), p)

AllReported(w, ports) == FoldLeft(mm_plugin_manager_device_support_check_add_port, w, ports)

device_support_check_add_all_ports(w, d) ==
  AllReported(mm_plugin_manager_device_support_check(Require(w, w.tracked = 0, "ongoing"), d),
              w.devices[d].probes)

mm_plugin_manager_device_support_check_cancel(w) ==
  LET k == w.tracked IN
  IF k = 0 THEN w
  ELSE Checked([w EXCEPT !.tracked = 0], k, device_context_cancel(w.checks[k].check))

-----------------------------------------------------------------------------
(* Ports come and go.                                                         *)

Owned(w) == IF w.listed = 0 THEN {}
            ELSE Range(w.devices[w.listed].probes) \cup w.devices[w.listed].ignored

(* The signal of device d reaches its checks.                                 *)
PortReleased(w, k, d, p) ==
  IF w.checks[k].device # d THEN w
  ELSE Checked(w, k, device_context_port_released(w.checks[k].check, p))

mm_device_release_port_name(w, d, p) ==
  FoldLeftDomain(LAMBDA v, k : PortReleased(v, k, d, p),
    [w EXCEPT !.devices[d].probes = Without(@, p), !.devices[d].ignored = @ \ {p}],
    w.checks)

device_inhibited_untrack_port(w, p) == [w EXCEPT !.inhibition = Without(@, p)]

(* MUTANT: the modem stays, as nothing tells it.                              *)
device_removed_modem_kept(w, p) ==
  LET d == w.listed
      a == mm_device_release_port_name(w, d, p)
      b == mm_plugin_manager_device_support_check_cancel(a)
  IN IF p \notin Owned(w) THEN device_inhibited_untrack_port(w, p)
     ELSE IF a.devices[d].probes # <<>> THEN a
     ELSE [b EXCEPT !.listed = 0]

(* The device goes with its last probe, and with it its check and its modem.  *)
device_removed(w, p) ==
  LET d == w.listed
      a == mm_device_release_port_name(w, d, p)
      b == mm_device_remove_modem_quick(mm_plugin_manager_device_support_check_cancel(a), d)
  IN IF p \notin Owned(w) THEN device_inhibited_untrack_port(w, p)
     ELSE IF a.devices[d].probes # <<>> THEN a
     ELSE [b EXCEPT !.listed = 0]

existing_port(w, d, p) ==
  IF w.devices[d].plugin # None /\ w.devices[d].modem # 0 THEN w
  ELSE device_support_check_add_single_port(w, d, p)

mm_device_grab_port(w, d, p) == [w EXCEPT !.devices[d].probes = <<p>> \o @]

additional_port(w, d, p) ==
  LET a == mm_device_grab_port(w, d, p)
      dev == a.devices[d] IN
  IF a.tracked # 0 THEN device_support_check_add_single_port(a, d, p)
  ELSE IF dev.plugin = None
    THEN device_support_check_add_all_ports(Require(a, dev.modem = 0, "modem"), d)
  ELSE IF dev.modem = 0 THEN device_support_check_add_all_ports(a, d)
  ELSE mm_device_remove_modem(a, d, "additional")

first_port(w, p) ==
  LET d == Len(w.devices) + 1
      a == mm_device_grab_port([w EXCEPT !.devices = Append(@, NewDevice), !.listed = d], d, p)
  IN device_support_check_add_single_port(a, d, p)

device_inhibited_track_port(w, p) ==
  IF p \in Range(w.inhibition) THEN w ELSE [w EXCEPT !.inhibition = Append(@, p)]

device_added(w, p) ==
  IF w.inhibiting THEN device_inhibited_track_port(w, p)
  ELSE IF p \in Owned(w) THEN existing_port(w, w.listed, p)
  ELSE IF w.listed # 0 THEN additional_port(w, w.listed, p)
  ELSE first_port(w, p)

-----------------------------------------------------------------------------
(* Inhibition: a client keeps the device out of the daemon's hands.           *)

mm_device_uninhibit(w, d) ==
  LET a == Require(w, w.devices[d].inhibited, "inhibited")
      b == mm_device_create_modem([a EXCEPT !.devices[d].inhibited = FALSE], d)
  IN IF Created(a, b) THEN mm_device_initialize_modem(b, d) ELSE b

AllRemoved(w, ports) == FoldLeft(device_removed, w, ports)
AllAdded(w, ports) == FoldLeft(device_added, w, ports)

(* Ports that came meanwhile force a new device object: the ports left on the *)
(* old one are released first and added again after the others.               *)
remove_device_inhibition(w) ==
  LET d == w.listed
      ports == w.inhibition
      left == IF d = 0 THEN <<>> ELSE w.devices[d].probes
      a == [w EXCEPT !.inhibiting = FALSE, !.inhibition = <<>>]
      gone == AllRemoved(a, left)
  IN IF ports = <<>> THEN IF d = 0 THEN a ELSE mm_device_uninhibit(a, d)
     ELSE AllAdded(Require(gone, gone.listed = 0, "device"), ports \o left)

-----------------------------------------------------------------------------
(* What a finished modem removal goes on with.                                *)
Removed(w, t) ==
  LET a == IF t.modem = 0 THEN w ELSE clear_modem(w, t.device) IN
  CASE t.kind = "additional" -> device_support_check_add_all_ports(a, t.device)
    [] t.kind = "invalid"    -> IF t.modem # 0 /\ w.modems[t.modem].reprobe
                                  THEN [a EXCEPT !.devices[t.device].reprobe = TRUE] ELSE a
    [] t.kind = "inhibit"    -> [a EXCEPT !.inhibiting = TRUE, !.inhibition = <<>>]

Running == daemon.crashed = {}
Step(w) == Running /\ daemon' = w
Input == inputs < MaxInputs /\ inputs' = inputs + 1

PortAdded(p) ==
  /\ Input
  /\ plugged' = plugged \cup {p}
  /\ Step(device_added(daemon, p))

(* Also a port that is no candidate any more.                                 *)
PortRemoved(p) ==
  /\ p \in plugged /\ plugged' = plugged \ {p}
  /\ Step(device_removed(daemon, p))
  /\ UNCHANGED inputs

(* mm_plugin_supports_port: only a port that is still the device's is probed. *)
AnswersFor(k, p) ==
  LET g == Plugin(p, daemon.checks[k].check.port[p].current) IN
  IF p \notin Range(daemon.devices[daemon.checks[k].device].probes) THEN {"unsupported"}
  ELSE IF p \in NetPorts THEN {"unsupported", "until"}
  ELSE {"supported", "unsupported"} \cup (IF Mute THEN {"until"} ELSE {})
         \cup (IF g \in Late /\ inputs < MaxInputs THEN {"defer"} ELSE {})

PluginAnswers(k, p, answer) ==
  /\ daemon.checks[k].check.port[p].stage = "checking"
  /\ answer \in AnswersFor(k, p)
  /\ inputs' = inputs + (IF answer = "defer" THEN 1 ELSE 0)
  /\ Step(Checked(daemon, k, plugin_supports_port_ready(daemon.checks[k].check, p, answer)))
  /\ UNCHANGED plugged

(* The sources of a check: deferred ports, an idle, the three timers.  Net    *)
(* ports answer from an idle, long before any of the timers.                  *)
CheckStep(k, stage, Op(_, _), p) ==
  /\ daemon.checks[k].check.port[p].stage = stage
  /\ Step(Checked(daemon, k, Op(daemon.checks[k].check, p)))
  /\ UNCHANGED <<plugged, inputs>>

Deferred(k, p) == CheckStep(k, "deferred", port_context_defer_ready, p)
Rechecked(k, p) == CheckStep(k, "recheck", port_context_defer_ready, p)
Returned(k, p) == CheckStep(k, "returning", port_context_return, p)

Prompt(c) == {p \in Ports : \/ c.port[p].stage \in {"recheck", "returning"}
                            \/ c.port[p].stage = "checking" /\ p \in NetPorts}

TimerStep(k, armed, Op(_)) ==
  /\ armed /\ Prompt(daemon.checks[k].check) = {}
  /\ Step(Checked(daemon, k, Op(daemon.checks[k].check)))
  /\ UNCHANGED <<plugged, inputs>>

MinWaitElapsed(k) ==
  TimerStep(k, daemon.checks[k].check.minWait, device_context_min_wait_time_elapsed)

(* 2 s, 4 s and 2 s after the last port: the first timer is the minimum wait. *)
MinProbingElapsed(k) ==
  LET c == daemon.checks[k].check IN
  TimerStep(k, c.minProbing /\ ~c.minWait, device_context_min_probing_time_elapsed)

ExtraProbingElapsed(k) ==
  LET c == daemon.checks[k].check IN
  TimerStep(k, c.extraProbing /\ ~c.minWait, device_context_extra_probing_time_elapsed)

(* The callback of a pending call; ok is how it ended.                        *)
TaskReady(t, ok) ==
  LET w == [daemon EXCEPT !.tasks = @ \ {t}] IN
  /\ Step(CASE t.kind = "setup"      -> mm_device_initialize_modem(w, t.device)
            [] t.kind = "initialize" -> IF ok THEN mm_base_modem_set_valid(w, t.modem, TRUE) ELSE w
            [] t.kind = "sim"        -> mm_base_modem_set_valid(w, t.modem, FALSE)
            [] t.kind = "disable"    -> IF ok /\ ~w.modems[t.modem].cancelled
                                          THEN mm_device_remove_modem(w, t.device, "inhibit") ELSE w
            [] OTHER                 -> Removed(w, t))
  /\ UNCHANGED <<plugged, inputs>>

(* base_modem_invalid_idle, after the modem was cancelled.                    *)
ModemInvalidated(m) ==
  /\ daemon.modems[m].idle
  /\ Step(mm_base_modem_set_valid([daemon EXCEPT !.modems[m].idle = FALSE], m, FALSE))
  /\ UNCHANGED <<plugged, inputs>>

Current(m) == daemon.devices[daemon.modems[m].device].modem = m
Event(m) == Input /\ Current(m) /\ ~daemon.modems[m].torn

(* port_removed_cb and, without a reprobe, port_timed_out_cb, until the ports   *)
(* are torn down.  Only the first one cancels.                                *)
PortLost(m, reprobe) ==
  /\ Event(m)
  /\ Step([daemon EXCEPT !.modems[m] =
             [@ EXCEPT !.reprobe = daemon.modems[m].reprobe \/ reprobe,
                       !.cancelled = TRUE,
                       !.idle = daemon.modems[m].idle \/ ~daemon.modems[m].cancelled]])
  /\ UNCHANGED plugged

SimEvent(m) ==
  /\ Event(m)
  /\ Step(Call([daemon EXCEPT !.modems[m].reprobe = TRUE], "sim", daemon.modems[m].device, m))
  /\ UNCHANGED plugged

Reprobe(d) ==
  LET w == [daemon EXCEPT !.devices[d].reprobe = FALSE]
      a == mm_device_create_modem(w, d) IN
  /\ daemon.devices[d].reprobe
  /\ Step(IF Created(w, a) THEN mm_device_initialize_modem(a, d) ELSE a)
  /\ UNCHANGED <<plugged, inputs>>

Inhibit ==
  LET d == daemon.listed
      m == daemon.devices[d].modem IN
  /\ Input /\ d # 0
  /\ ~daemon.devices[d].inhibited /\ m # 0 /\ daemon.modems[m].path
  /\ Step(Call([daemon EXCEPT !.devices[d].inhibited = TRUE], "disable", d, m))
  /\ UNCHANGED plugged

(* By the client, or because it left the bus.                                 *)
Uninhibit ==
  /\ daemon.inhibiting
  /\ Step(remove_device_inhibition(daemon))
  /\ UNCHANGED <<plugged, inputs>>

CheckNext(k) ==
  \/ \E p \in Ports, answer \in Answers : PluginAnswers(k, p, answer)
  \/ \E p \in Ports : Deferred(k, p) \/ Rechecked(k, p) \/ Returned(k, p)
  \/ MinWaitElapsed(k) \/ MinProbingElapsed(k) \/ ExtraProbingElapsed(k)

Next ==
  \/ \E p \in Ports : PortAdded(p) \/ PortRemoved(p)
  \/ \E k \in DOMAIN daemon.checks : CheckNext(k)
  \/ \E t \in daemon.tasks, ok \in BOOLEAN : TaskReady(t, ok)
  \/ \E m \in DOMAIN daemon.modems : ModemInvalidated(m) \/ SimEvent(m)
  \/ \E m \in DOMAIN daemon.modems, reprobe \in BOOLEAN : PortLost(m, reprobe)
  \/ \E d \in DOMAIN daemon.devices : Reprobe(d)
  \/ Inhibit
  \/ Uninhibit

Spec == Init /\ [][Next]_vars

-----------------------------------------------------------------------------
(* The state is of the declared shape; a tracked check and the listed device  *)
(* exist, and a device has a modem only with a plugin.                        *)
Devices == [probes : Seq(Ports), ignored : SUBSET Ports, plugin : AllPlugins \cup {None},
            modem : Nat, reprobe : BOOLEAN, inhibited : BOOLEAN]
Modems == [device : Nat, valid : BOOLEAN, path : BOOLEAN, exported : BOOLEAN, reprobe : BOOLEAN,
           cancelled : BOOLEAN, idle : BOOLEAN, torn : BOOLEAN]

TypeOK ==
  /\ plugged \subseteq Ports /\ inputs \in 0 .. MaxInputs
  /\ daemon.devices \in Seq(Devices) /\ daemon.modems \in Seq(Modems)
  /\ \A k \in DOMAIN daemon.checks : /\ daemon.checks[k].check \in DeviceContexts
                                     /\ daemon.checks[k].device \in DOMAIN daemon.devices
  /\ daemon.listed \in {0} \cup DOMAIN daemon.devices
  /\ daemon.tracked \in {0} \cup DOMAIN daemon.checks
  /\ \A t \in daemon.tasks : t.kind \in Kinds
  /\ daemon.crashed \subseteq Crashes /\ daemon.inhibition \in Seq(Ports)
  /\ Running => \A d \in DOMAIN daemon.devices :
       daemon.devices[d].modem # 0 => daemon.devices[d].plugin # None

(* Whatever completes in place, released ports included, every g_assert of    *)
(* the plugin manager holds: a check that is completed or cancelled still has *)
(* its task and no armed timer, and a port that completes is on the list.     *)
CheckAssertsHold == "check" \notin daemon.crashed

(* No device that left the table keeps a modem, whichever callbacks of its    *)
(* support check, setup, removal or reprobe were still to come.               *)
GoneIsBare ==
  Running => \A d \in DOMAIN daemon.devices \ {daemon.listed} : daemon.devices[d].modem = 0

(* Every support check goes on until it has an answer, even when ports come,  *)
(* go or wait for each other and plugins defer: as long as its task has not   *)
(* returned there is a timer armed, a plugin to answer, a deferral to expire  *)
(* or an idle to run, and a port that waits for its first timer is waited for.*)
Goes(c) ==
  /\ \/ c.minWait \/ c.minProbing \/ c.extraProbing
     \/ \E p \in Range(c.running) : c.port[p].stage \in {"checking", "deferred", "recheck", "returning"}
  /\ c.waiting # <<>> => c.minWait
CheckGoesOn ==
  Running => \A k \in DOMAIN daemon.checks :
               daemon.checks[k].check.task => Goes(daemon.checks[k].check)
=============================================================================
