# ModemManager in TLA+

A verification project for the ModemManager daemon (`src/src/*.c` of the
repository). It models the parts of the daemon that decide *when* something may
happen: which plugin gets a device and when its modem goes away, who may talk on a
serial port, who may run an operation on a modem, what state a modem shows, what a
data bearer may do next, which parts make a text message, which voice calls are in
progress. Each model is translated from the C source, checked
by TLC on small instances and, where that is worth while, proved by TLAPS for
every instance.

The daemon is one GLib main loop. A handler (timer, I/O watch, D-Bus method,
completion of an asynchronous call) runs to its end with every synchronous call
and signal emission in it, and asynchronous calls are answered by a later
handler. So one handler is one action; concurrency is the order in which the
main loop runs handlers, and what is stale is what a handler stored before an
asynchronous call and uses after it.

1. [Inventory](#1-inventory)
2. [Modules](#2-modules)
3. [Runs](#3-runs)
4. [Proofs](#4-proofs)
5. [Findings](#5-findings)
6. [What is not modelled](#6-what-is-not-modelled)
7. [Plan](#7-plan)

## 1. Inventory

Paths are below `src/src/`. "Correct" names what makes the component correct,
not only what is checked here.

**Port scheduler** (`mm-port-scheduler-rr.c`, interface in
`mm-port-scheduler.c`). State: the array of registered sources with their
`num_pending`, `cur_source`, `in_command`, the `next_pending_id` timer.
Operations: register and unregister a source, notify the number of pending
commands, notify command done, the timer. It emits `send-command`,
synchronously, at the port whose turn it is. Hard: array indexes shift when a
source goes away, and a wake-up must be armed on every path. Correct: one
command on the wire, no lost wake-up, round robin, nobody starves.

**Serial port** (`mm-port-serial.c`; AT, QCDM and GPS ports derive from it).
State: command queue, `queue_id` (send) and `timeout_id` (response) timers, the
reply cache, `open_count`, `forced_close`, `reopen_task`, `connected` (data
mode), the cancellable of the command in flight. Operations: command, open,
close, reopen, hangup (`G_IO_HUP`), set connected, send, receive, time out,
cancel. Talks to the scheduler both ways, to its users by completion callbacks
which may call it again. Hard: answers carry no identification and are matched
with the head of the queue, so a late, stray or overtaken answer shifts all
later ones; closing in the middle of everything. Correct: each command ends once
and with its own answer, users' opens and closes balance, a closed port is
quiet, the turn is given back.

**Exclusive operation lock** (`mm-base-modem.c`, `mm-iface-op-lock.c`). State:
the list `scheduled_operations`, its forbidden flag, the id counter. Operations:
lock (ordinary or override), unlock, authorize and lock, and the state
operations (initialize, enable, disable, sync) that take the lock around
themselves. Hard: results reach callers in later iterations; an override aborts
the others. Correct: mutual exclusion, service in order, nobody forgotten,
override last.

**Base modem** (`mm-base-modem.c`, the rest). State: grabbed ports and their
roles, valid, hotplugged, reprobe, the modem's cancellable. Operations: grab,
organise, set valid, wait for link port. Its owner is the device.

**Base bearer** (`mm-base-bearer.c`). State: status, the D-Bus properties, the
connect cancellable, the connection monitor, duration and statistics timers,
byte counters, what forbids a connection in 3GPP and CDMA, the deferred
unregistration timers, the ignore-disconnection-reports flag. Operations:
connect, disconnect, forced disconnect, reports from the device, sync,
registration changes and the polls. Hard: attempts, disconnects, device reports
and polls race, and answers arrive when the connection they are about is gone.
Correct: status and everything that belongs to it change together, a
disconnection lasts, a cancelled attempt does not connect, statistics add up.

**Bearer list** (`mm-bearer-list.c`). A list with find, sequential
disconnect-all and sync-all. Correct: disconnect-all leaves nobody connected.

**Modem interface** (`mm-iface-modem.c`). State: modem state with its
consolidation from per-subsystem states, lock status, power, signal quality.
Operations: initialize, enable, disable, set power state, update state, the
periodic checks, SIM hot swap. Correct: enabling and disabling states do not
overlap, the consolidated state follows its parts, waits for a final state end.

**3GPP registration** (`mm-iface-modem-3gpp.c`). State: CS, PS, EPS and 5GS
registration, deferred updates, the pending registration request and its
timeout, the periodic check. Correct: the reported state is the consolidation of
the last report of each domain; a pending request ends once.

**Simple connect** (`mm-iface-modem-simple.c`). A sequence of steps (unlock,
wait, enable, register, choose bearer, connect), each of which waits for another
component. Correct: ends connected or with an error and no half-made bearer.

**Other interfaces** (voice, USSD, messaging, location, time, signal, firmware,
profile manager, CDMA, OMA, SAR, cell broadcast). Most are sequences of plugin
calls at enable and disable; voice keeps a call list, USSD a session state.

**Device and plugin support check** (`mm-device.c`, `mm-plugin-manager.c`,
`mm-plugin.c`, `mm-port-probe*.c`). State: ports of a device, device and port
contexts of the check, minimum wait, minimum and maximum probing timers,
deferred tasks. Correct: the check ends once, with the plugin that the most
specific port chose, also if ports come and go; a modem has exactly one owner.

**Base manager** (`mm-base-manager.c`, `mm-sleep-context.c`). Devices by uid,
scan, suspend and resume.

**SMS and cell broadcast** (`mm-base-sms.c`, `mm-sms-list.c`, `mm-sms-part*.c`,
`mm-cbm*.c`). State: messages with parts indexed by sequence, reference and
number. Correct: a message is complete exactly when all its parts arrived; no
part lands in another message.

**Calls** (`mm-base-call.c`, `mm-call-list.c`, `mm-iface-modem-voice.c`). State:
the call objects with number, index and state, the ringing timer of each, the
polling of the list, the in-call context. Operations: create, delete, start,
accept, deflect, hang up, the operations on all calls, rings, the modem's list of
calls. Hard: what the modem reports has to be matched with the calls by whatever it
names; the end of a call that was not answered is not reported at all. Correct: no
call rings for ever, the modem is set up for a call while one is in progress.

**SIM** (`mm-base-sim.c`), **broadband modem and bearer**
(`mm-broadband-modem.c`, `mm-broadband-bearer.c`), **QMI and MBIM backends**,
**other ports and parsers**, **helpers and conversions**, **daemon plumbing**,
**kernel device backends**, **plugins**, **libmm-glib**, **libqcdm**, **mmcli
and tools**: device protocols, conversions, I/O and clients. See section 6.

How they interact: the manager owns devices; a device runs the support check and
creates a modem; the modem creates ports, which share a scheduler, and bearers;
interfaces and D-Bus handlers take the operation lock, send commands through the
ports and change the modem state; registration changes go to the bearers, whose
status goes back to the modem state.

What in this code is hard to test is listed in `PROJECT.json` under `hazards`,
each at its line with the properties that cover it, or why none does yet.

## 2. Modules

| module | models | role |
|---|---|---|
| `CommandToken` | theory of operation in `mm-port-scheduler-rr.c` | abstract turn taking |
| `PortSchedulerRR` | `mm-port-scheduler-rr.c` | each entry point as an operator on a record |
| `PortScheduling` | the same under the sources' contract | specification; refines `CommandToken` |
| `PortSchedulingProofs` | | its theorems |
| `PortSerial` | `mm-port-serial.c`, composed with `PortSchedulerRR` | specification |
| `PortSerialProofs` | | its theorems |
| `OperationMutex` | `mm-iface-op-lock.h` | abstract lock |
| `ModemOpLock` | exclusive operation in `mm-base-modem.c` | specification; refines `OperationMutex` |
| `ModemOpLockProofs` | | its theorems |
| `BaseBearer` | `mm-base-bearer.c` | specification |
| `BaseBearerProofs` | | its theorems |
| `SupportCheck` | `mm-plugin-manager.c` | each callback of a support check as an operator on a record |
| `DeviceProbing` | `mm-device.c`, `mm-base-manager.c`, the device's side of `mm-base-modem.c`, composed with `SupportCheck` | specification |
| `DeviceProbingProofs` | | its theorems |
| `ModemState` | `mm-iface-modem.c`, `mm-iface-modem-simple.c`, `mm-bearer-list.c`, `mm-iface-modem-3gpp.c`, the enabling and disabling sequences of `mm-broadband-modem.c` | specification |
| `ModemStateProofs` | | its theorems |
| `MultipartSms` | `mm-base-sms.c`, `mm-sms-list.c`, `mm-sms-at.c`, `mm-iface-modem-messaging.c`, the storage locks of `mm-broadband-modem.c` | specification |
| `MultipartSmsProofs` | | its theorems |
| `VoiceCalls` | `mm-base-call.c`, `mm-call-list.c`, the calls of `mm-iface-modem-voice.c`, the voice part of `mm-broadband-modem.c` | specification |
| `VoiceCallsProofs` | | its theorems |
| `MC*` | | the same modules for TLC |

Definitions named `...` + a deviation, with a comment that begins with
"Mutant:", are wrong on purpose: each is a plausible mistake in the definition
after it, and `PROJECT.json` says which property notices it.

**PortSchedulerRR and PortScheduling.** `PortSchedulerRR` has a record for the
object and one operator per virtual function (`RegisterSource`,
`UnregisterSource`, `NotifyNumPending`, `NotifyCommandDone`, `RunNext`) on top
of `find_next_source` and `schedule_next_command`. The walk of
`find_next_source`, including the `guint` wrap of its start, is a function of
the step, and its result the first pending index on the walk. `PortScheduling`
adds what the sources do by their contract: queue lengths, who was told to send
(`owes`). Ghosts: `dropped` records that a source at or before the running one
was unregistered, after which the code can stall; `overtook` is the history the
round-robin property needs. Inter-port delays are left out: the timer fires at
any later time.

**PortSerial.** `d` is the daemon's state: the scheduler, the ports, the
commands and the reply cache. Handlers are operators from `d` to the set of
states they may leave, because users' completion callbacks (do nothing, submit
another command, close the port), write errors and partial writes are free; an
action picks one. That keeps the call structure of the C code: for instance
`GotResponse` pops the head, completes it, which runs the callback, and then
notifies command done with the length that is left. Bytes are commands as model values, with
`Text` for those with equal bytes. The device answers what reached it in order,
late, or never, and may send one stray response; as in
`port_serial_got_response`, an answer completes whatever is at the head of the
queue, sent or not, and is dropped when the queue is empty. Ghosts: `held`
(opens not closed by users), `lost` (why a turn was lost), `skewed` (answers
were once out of step).

**ModemOpLock.** `ops` is the list; `phase` is where each request's `GTask` is:
authorizing, waiting, granted (result on its way), running, aborting. The id
counter wraps at `MaxId`, which stands for `G_MAXSSIZE`. Requests are slots that
are used again after they end.

**BaseBearer.** `bearer` holds the private structure, `dialing` how far each
attempt is in the plugin and in the statistics probe after it, `leaving` the
plugin disconnects in flight, `queries` the polls in flight with the connection
they asked about, `bytes` what the device counts. `UpdateStatus` is
`bearer_update_status` with all it does to properties and timers; `Becomes`
installs its result, tells a disconnect that waits for the status, and counts
the plugin disconnects the handler started. The device may report a disconnection
in any state, and a query is answered at any time, also when the connection it asked
about is over. What plugins can do is a constant: `HasMonitor`, `HasSync` and
`HasStats` say which queries they implement, `Techs` which registration handlers
run, `Registrations` what the network may say, `Methods` whether the connection may be
PPP; `MaxQueries` bounds the queries in flight. Two history variables record what the
code cannot cope with (section 5): `disturbed`, that a report took down a bearer that
was connecting or disconnecting, until the bearer is disconnected and the plugin is
asked for nothing any more (`AtRest`); and `again`, the bytes that late answers
about a former connection counted once more.

**SupportCheck and DeviceProbing.** `SupportCheck` is one support check: a
record with a context per port (where it is in the plugin list, what it waits
for, the suggestion it was given), the timers of the device context and its
`GTask`. As in the C code most steps happen inside others: a plugin's answer
completes a port, which suggests its plugin to the other ports, which may
complete the check. The operators nest the same way and return the record. What
may complete inside another completion is a function from checks and ports to
checks (`Nested`), one level for each port there is; a deeper one would be a port
that completes twice and is marked as a failed assert. `None` stands for NULL and
is neither a plugin nor a port.
`DeviceProbing` owns the checks: the table of devices, modems as their owner
sees them, and the *tasks*, callbacks on their way that hold a device or a modem
by reference (initialization, setup, teardown, inhibition, removal, reprobe)
whatever has become of it. One physical device with a control and a net port is
plugged in, unplugged, replugged, inhibited; each plugin may answer yes, no, or
defer. Net ports are never probed and wait until a plugin is suggested; with `Mute` a
control port may do so too, as a cdc-wdm port does with a plugin that probes neither
QMI nor MBIM (`mm-plugin.c:846`). What a failed `g_assert` does is recorded in `crashed` by kind; the
asserts outside the plugin manager (`mm-device.c:592`, `mm-device.c:882`,
`mm-base-manager.c:367`) can fail in the model, see section 5, and nothing goes
on after one.

**ModemState.** `modem` is one record, `inputs` counts what was started. A step
is one turn of the main loop, and a change of the state property is notified in
place: `Tell` goes through the handlers in the order they were connected, so one
step may complete those who wait, start the disabling sequence and ask the first
bearer to disconnect. `waiters` are those who wait; of the order it matters only
who is told before the sequence under way (`ahead`), because two Simple.Connect calls
that are told do not touch each other. A `GTask` that returns in the turn that created it is
answered in a later turn: `seen` and `answer` hold the result meanwhile.
`op.kind` is the operation lock. `SetState` is `update_state_internal` with the
consolidation of subsystem states and the rule that registration updates do not
move a modem with a connected bearer. Bearers are `BaseBearer` in outline:
a status, an attempt that may be cancelled, a disconnection that may fail.
`restored` remembers that a failed operation put an old state back. Clients may ask
for anything in any state. The history variable `strayed` records a request that a
disable cannot know of: a bearer asked to connect while the modem is not enabled, a
Simple.Connect that begins in the turn between the abort and DISABLING, or one that
the abort missed; it is cleared when the modem is disabled with no bearer and no
Simple.Connect on its way (`AtRest`).

**MultipartSms.** `device` is what the modem stores and which storages it has
selected; `daemon` is the messages, the two storage locks and `at`, the queue of
AT commands with the operation each belongs to. A command is sent, executed or
refused by the device, and answered; the answer's callback runs the next step of
its operation. A part is a sequence number, a reference, the `state` in which the
modem lists it and its `origin`, which
identifies the part for the properties and is invisible to the code. `pdu` is the
format in which messages are exchanged: in text a message is always a single one
(`AsShown`), and the listing ends without unlocking mem1, which the history variable
`kept` records (section 5). What the storages hold when messaging is enabled is a
constant, `InitialStores`: received, stored and sent parts, single or multipart.

**VoiceCalls.** `voice` holds the call objects with their timers, the polling of
the call list and the in-call context; `op` is the operation of the Voice
interface under way with the calls it took note of when it started; `line` is what the
network and the modem know of each line. Nothing tells the daemon that a caller
gave up before the call was answered: it notices by a ring that is not heard
again, or with AT+CLCC (`clcc`) by polling, whose answer may be as old as the
question. Ghosts: `missed` (a check of the in-call state found a set-up or
clean-up with the opposite aim under way, or no check was made) and `again` (a
call was reported ringing in a state that does not ring).

## 3. Runs

Every run is exhaustive within its bounds. "Fails" runs check one claim of a
comment, an assertion or a document that the code does not keep; section 5 has
what they show.

| run | asks | outcome |
|---|---|---|
| `scheduler` | three sources in every order: `NoStall`, `PendingIsQueue`, `RoundRobin`, `Served`, refinement `TokenSpec` | holds |
| `port_lifecycle` | one port with two users and three cacheable commands, of which two have the same bytes and one is run-next and cancellable: `QueueExact`, `NoPortStall`, `AnswerIsForCommand`, `OpenCountKept`, `SkewCause` | holds |
| `port_live` | two ports on one scheduler, no run-next: `NoAbort`; `EveryCommandEnds`, unless a turn was lost | holds |
| `port_turn_lost` | `EveryTurnEnds` without that exception | fails |
| `op_lock` | three ordinary requests and an override, each used again and again: `AssertsHold`, `ServedInOrder`, `OverrideIsLast`, `EveryRequestEnds`, refinement `MutexSpec` | holds |
| `bearer` | two attempts, 3GPP and CDMA registration, the device reports a disconnection at any time, polls are answered at any time: `StatusIsWhole`, `DisconnectSticks`, `TotalIsCarried`, `AssertsHold`, `CancelledNeverConnects`, `RoamingNeverConnects`, `PppStays`, `DeferredIsDue`, `DisconnectEnds` | holds |
| `device_probing` | a control and a net port, a vendor plugin and the generic one: `CheckAssertsHold`, `CheckGoesOn`, `GoneIsBare` | holds |
| `modem_state` | Enable, Disable, Simple.Connect and Disconnect, two bearers that clients connect in any state, registration: `NoLostWakeup`, `NobodyIsOrphaned`, `DisabledIsDisconnected`, `ConnectedIsShown`, `OnlyEnablingLeavesDisabled` | holds |
| `connect_not_aborted` | two Simple.Connect calls, one aborted: `AbortReaches` | fails |
| `multipart_sms` | parts arrive, are indicated, listed, deleted, stored and sent, as PDUs and as text: `LocksAreHeld`, `ReceivedIsWhole`, `ReadsRightStorage`, `NothingTwice` | holds |
| `sms_wrong_deleted` | the default storage changes while a part is read: `DeletesOnlyItself` | fails |
| `voice_calls` | calls come in, go out, are answered, held, ended and deleted, with and without AT+CLCC, and polls and set-ups fail: `InCallIsDue`, `RingingEnds` | holds |

`TypeOK` is proved for the scheduler, the serial port, the lock, the bearer and the
modem state, and stated in the other modules for the reader. The run `device_probing`
has `Mute = FALSE`; with `Mute` its `CheckGoesOn` does not hold (section 5).

**Bounds.** Scheduler: three sources are the smallest number at which a round,
an overtaking and a removal before, at and behind the current source differ; two
commands per queue distinguish "has more" from "has none". Ports: three commands
allow one in flight, one queued and one submitted by a callback; two users let
one close while the other holds the port open; one stray puts answers out of
step, and being out of step by two adds nothing that a late answer after a stray
does not show. Lock: three ordinary requests are needed for two to wait in an
order, and the override meets a running and two waiting operations, and later
the closed lock; `MaxId = 2` makes the counter wrap with operations in the list.
Bearer: two attempts are what it takes for one to outlive the start of the next,
and for something of the first connection to reach the second; with one byte per
connection a counter starts again, a total goes on, and an answer about the first
connection adds to the second; one query in flight besides the first statistics of a
connection lets an answer about the first meet the second
(`MaxQueries = 1`). Emergency-only registration is not among the `Registrations` of the
run: the code treats it like roaming when it is reported and like unregistered in
`Connect`; the theorems include it. Probing: two ports
are what it takes for one to wait for the other; the vendor plugin may defer and the
generic one may fail to create a modem. `MaxInputs = 3` lets a device be unplugged, plugged in again
and disturbed once more, with every callback of the first life still on its way.
Modem state: two bearers let one fail while the other is connected, and
`MaxInputs = 7` lets two operations, a Simple.Connect, a client's connection, a
registration and two drops overlap. Messages: two parts per message and two slots per
storage are the smallest in which a part can be taken for another message's, an index
be used again, and a storage be full; `multipart_sms` starts with a received single
message in one storage and, in the other, part 2 of 2 of a stored message with the
reference of what may arrive, and has four messages and five inputs; the
counterexample of `sms_wrong_deleted` needs three and four, and PDUs only.
Calls: two lines and two call objects let one wait, be held or be ringing while
the other is in progress, and one line ring again while the daemon still has its
last call; one Voice operation at a time, because a second one adds only another
snapshot; one error of a poll or a set-up. `MaxInputs = 4` lets a call ring, be
accepted, be joined by another and end.
`MaxPending`, `Users`, `MaxStray`, `MaxAttempts`, `MaxQueries`, `MaxBytes`, `MaxSms`,
`MaxInputs`, `MaxCalls` and `MaxErrors` are guards of what users, the device, the
network and the polling timers start, never of the handler of an answer.

**Symmetry** is used for the two bearers of `modem_state`, which checks safety only and
treats them alike. The other runs in which it would be sound check liveness too, and
are small without it, or have one actor of each kind.

**Deadlock** is checked except in the `PortSerial` runs, where a command is
submitted once and a closed port with nothing left to do is an end, in the
runs with `MaxInputs`, which end when the last input has been dealt with, and in
`bearer`, where a disturbed bearer may fail an assertion, which ends the program.

**Fairness.** The main loop dispatches a source that is due: weak fairness of
the scheduler's timer, of the ports' send, response and reopen timers, and of
the delivery of a finished `GTask`. A source that was told to send finishes
because every command has a timeout (`PortScheduling`); `PortSerial` models that
timeout instead of assuming it. Operations under the lock and plugin calls end
because they are made of commands with timeouts: in `BaseBearer` the connects and
disconnects the plugin was asked for are answered (`Answer`), its queries need not
be. Nothing is assumed of users, of
the device or of the network: no fairness of answers, of opens or of
disconnection reports. In `VoiceCalls` the polling timer elapses, the
timer of a call elapses unless rings go on restarting it, and an AT command is
answered; nothing is assumed of callers. `DeviceProbing`, `ModemState` and
`MultipartSms` state no fairness and check safety only: `CheckGoesOn`, `NoLostWakeup` and `NobodyIsOrphaned` say instead that
whoever has not been answered has somebody left who will answer.

## 4. Proofs

`PortSchedulingProofs`, for every finite set of sources smaller than `GMaxUint`
(the code asserts it) and every `MaxPending`:

* `SpecTypeOK`, `SpecOneCommand`, `SpecNoStall`, `SpecPendingIsQueue`,
  `SpecWakeupArmed`: the invariants;
* `SpecRoundRobin`: the action property;
* `SpecImplementsToken`: `Spec` implements `CommandToken`.

The inductive invariant `IInv` adds to them that a registered id occurs once in
the array, that only registered sources owe anything, that somebody owing
implies `in_command`, that the timer is only armed without `in_command`, and
what a removal mid-command leaves behind. It is needed because
`notify_command_done` is ignored unless the index of the caller is `cur_source`:
without "at most one source owes, and it is the current one unless an index
before it was removed" the step of `Finish` proves nothing. The proof goes by
effect lemmas: one says what each entry point of the scheduler does to the
record (`RegisterEffect`, `UnregisterEffect`, `NotifyEffect`, `DoneEffect`,
`RunNextEffect`), resting on lemmas about the walk (`VisitedIndex`,
`EveryIndexVisited`, `NextIndexPending`) and `RemoveAt`; one lemma per action
then shows that `IInv` is kept. `RoundRobin` needs a second
invariant, `RoundOK`: whoever had the turn while a source waits comes after it in the
round that starts behind `cur_source` (`Precedes`). The walk visits the indexes in
this order (`WalkInOrder`), also where `cur_source` wraps around or is beyond an
array that shrank, so the first one found overtakes nobody. The lemmas that speak of
the record alone, on the walk and on `NotifyEffect`, `DoneEffect` and `RunNextEffect`,
are stated again in `PortSerialProofs`: its ports take turns by the same scheduler.

`PortSerialProofs`, for every finite set of ports smaller than `GMaxUint` and all
sets of commands and users, every choice of the port, the text and the options of
a command, and every `MaxStray`:

* `SpecTypeOK`, `SpecQueueExact`, `SpecNoPortStall`, `SpecAnswerIsForCommand`: the
  invariants;
* `SpecNoAbort`, under `RunFirst = {}`;
* `SpecSkewCause`, `SpecOpenCountKept`: the action properties.

A command that goes first is put before the one in flight. If a stray answer then
ends it, the scheduler gives the turn away while the first one still waits for
its answer, and `scheduler_send_command` may find that wait under way when it
asserts that there is none. TLC finds this with one such command, one other and a
stray answer; `NoAbort` is therefore claimed only without such commands, which is
how the run `port_live` checks it.

`IInv` has a part for each thing a handler can get wrong. `Sound` says that the
scheduler is consistent (`SchedOK`), that a queue and the commands that wait agree
in both directions (`Holds`), and which timers of a port exclude each other
(`PortOK`). `TurnOK` is `NoPortStall`; `SendOK` says that without commands that go
first only the port with the turn has a timer, and that a port with a send timer
has sent a part of the head of its queue. Outside `skewed`, `InStep` compares the
wire with the queue, `AnswersOK` the cache and the replies with the texts of the
commands, and `WireOK` says that only a command that was sent whole has an answer
on a wire: without it a command that is sent now could already have one.

Completing a command calls its user, who may submit, close or reopen before the
handler goes on. A handler is therefore a set of results, and `Called` says what
such a call may have done when it returns: every port is either as it was, up to
commands at the end of its queue (`Kept`), or closed and empty (`Emptied`).
Each handler has one effect lemma (`CommandEffect`, `ShutEffect`,
`GotResponseEffect`, `ProcessEffect`, ...), which after such a call knows no more
than `Called`.
`Step` states for a pair of states at once that the invariant is kept, that a port
only gets out of step for a reason (`Caused`) and that only the known step
unbalances an open count (`Steady`); it is shown once per action.

`ModemOpLockProofs`, for every set of requests, every choice of overrides and
every `MaxId`, so for every place where the id counter wraps:

* `SpecTypeOK`, `SpecMutualExclusion`, `SpecAssertsHold`, `SpecNobodyForgotten`:
  the invariants;
* `SpecOverrideIsLast`, `SpecServedInOrder`: the action properties;
* `SpecImplementsMutex`: `Spec` implements `OperationMutex`.

`IInv` says that exactly the head of the list is not waiting, that the list and
the phases agree in both directions, that the holder's id is the head's, and
that after an override only overrides wait. Both lock and unlock pass through a
moment where the list is *ready* (the head may not run yet), so the invariant is
split into `Core` (list, phases and ids) and the rest, and `RunEffect` shows
once that running the head of a ready list establishes `Core`. Uniqueness of ids
is not needed: the holder alone can call unlock, which compares with the head.
`ServedInOrder` goes by what each entry point does to the list: an ordinary lock
appends (`OrdinaryLinesUp`), an unlock removes the head (`UnlockAdvances`), granting
changes nothing behind it (`RunKeepsOrder`), and an override leaves nobody waiting
whom it could overtake.

`BaseBearerProofs`, for every choice of technologies, of what the network may say, of
connection methods and of what the plugin can do, every `MaxAttempts`, `MaxQueries` and
`MaxBytes`, and with reports and late answers at any time:

* `SpecTypeOK`, `SpecAssertsHold`, `SpecStatusIsWhole`, `SpecDisconnectSticks`,
  `SpecDeferredIsDue`, `SpecTotalIsCarried`: the invariants;
* `SpecCancelledNeverConnects`, `SpecRoamingNeverConnects`, `SpecPppStays`: the
  action properties.

There are two invariants. `Base` holds in every state: types, `DeferredIsDue`, that a
disconnected bearer is bare (`Sound`), and that a bearer that is, or may come back,
connected has a connection. `IInv` holds unless the bearer is disturbed (`Orderly`).
It says that at most one attempt *or* one disconnection
is with the plugin, and that this one decides what the bearer has: while it
connects nothing of a connection is there and it is the last attempt that was
started, while a user's disconnection is under way everything still is, because
its failure makes the bearer CONNECTED again. Without this the step of
`ConnectReady` could start the statistics timer a second time, and the failure of
a disconnection bring back a connection without its timers. `AttemptAlone` also
carries over from the start of an attempt that the network permits it: a change
of registration cancels it otherwise. A late answer to a poll is no danger to `IInv`: it
finds the bearer at rest or connected, or counts as a report on the way.
`RestsInOrder` says why `disturbed` may end: at rest `Base` alone gives `IInv`
again. One lemma per operator on the record says what
the operator does, one per action that `Base` and `IInv` are kept; `Steps` says once
what any step may do to the status, and the action properties follow from it.

`SpecTotalIsCarried` compares a counter with a sum over all connections, in any
state. `Carried` is the strengthening: what the latest attempt has received and is not
counted of it yet can still be added (`total + (bytes[attempts] - rx)` is within the sum
and `again`), and the attempts to come have received nothing. Most steps are `Still`:
they count nothing and receive nothing. The sum is the recursive `SumFunction` of the community
modules, so the proof begins with what is true of every sum: that the recursion has a
solution (`EveryStepSolvable`, on the sets of at most n indices for each n), that a
sum of naturals is a natural (`SumType`) and that it follows an increment
(`SumIncrement`). Each is an induction over the set of indices, stated for a *set* of
subsets (`IndexInduction`) and proved from a smallest set outside it, since the
library's induction theorems take an operator and cannot be used.

`MultipartSmsProofs`, for all sets of storages, of parts that may arrive and of
sizes of messages, every finite set of places in a storage, every order of listing
and every `MaxSms` and `MaxInputs`:

* `SpecLocksAreHeld`, `SpecReadsRightStorage`, `SpecReceivedIsWhole`,
  `SpecNothingTwice`: the invariants of the run.

`IInv` has three parts. `QueueInv` is about the AT commands in flight: each is one
its operation can have sent (`CommandOK`), at most one of them holds either lock
and then the lock is marked as held (`Alone`; of mem1 only while nobody has `kept` it,
`Owned`), and a command that reads or deletes
by index holds the lock of mem1 and means the storage that mem1 is, or will be once
the AT+CPMS before it in the queue has been executed (`Means`, `Selects`): a lock
alone does not say which storage the modem has selected. `GotInv` and `DeviceInv`
say of every part that arrived where it is: there is a function from the order of
arrival to parts and places such that whatever is stored, or was read and is on its
way to the daemon, agrees with it. `IInv` says "there is", so no history of arrivals
is needed in the model. `SmsInv` says of every message that what it knows of a
part agrees with that function too, that one whose parts came in is receiving or
received, and received exactly when it is whole (`StateOK`), that no two received messages have the same
reference and number of parts, and that no two single parts are believed to be in
one place; `NothingTwice` follows because a part that is in two messages has one
reference and one place. The code takes the parts of a list in a loop; the
induction over the loop is by the set of parts taken so far, with a smallest
counterexample (`MinExists`), because no induction theorem can be used here.
The constants are assumed to be what the code can meet: places are numbered from 1,
what was in the modem before did not arrive, and storages and parts have their types.
What the storages hold at first is any set of parts in any state, and both formats of
messages are covered.

`VoiceCallsProofs`, for every finite set of lines and every number of calls, inputs
and errors:

* `SpecInCallIsDue`.

`IInv` compares, in every state, what the modem is set up for *or is being set up
for* (`Aim`) with whether a listed call is in progress, unless a check is due or
was missed (`Settled`). What the handlers have in common is `Leads`: they leave the
set-up alone, and either whether a call is in progress stays as it is, or a check is
due after them. It is transitive, so the handlers that change calls one after
another (a report of all calls, a hang-up of all) come apart into single changes.
`Settled` is needed because between the start of a set-up and its answer calls end
and come: only the aim, not the state, can be compared then.

`ModemStateProofs`, for all sets of bearers and Simple.Connect calls and every
`MaxInputs`, whatever clients ask for and when; `None` is only
assumed to differ from what it stands beside:

* `SpecTypeOK`, `SpecNoLostWakeup`, `SpecNobodyIsOrphaned`,
  `SpecDisabledIsDisconnected`, `SpecConnectedIsShown`: the invariants;
* `SpecOnlyEnablingLeavesDisabled`: the action property.

`IInv` says of each record that it fits what is under way: a bearer that is connecting
or disconnecting has an attempt or a hang-up with the plugin, and never both
(`BearersOK`); a Simple.Connect waits exactly in the two steps that wait, unless its
answer is due (`ConnectsOK`), and in its last step dials a bearer that knows it
(`DialsOK`); the state is ENABLING or DISABLING exactly while such a sequence is under
way and no longer waits (`OpOK`); a disconnection of the list that is busy has an
answer due or asked exactly one bearer, and the disabling sequence is at its bearers
exactly while its own is busy (`ListsOK`, `LinkOK`). `AllSleep` is `NoLostWakeup`
in the form of the code: `Wanted`, what `state_changed` tests, is false for
everybody who waits.

A handler passes through moments where this does not hold. A connection that was
answered ends its Simple.Connect after the bearer has settled, and a
disconnection of the list that was answered takes the next bearer only after the
state was notified, which may start the disabling sequence and another
disconnection. `Fine(m, X, S)` is therefore the invariant but for the Simple.Connect
calls in `X`, whose bearer has answered, and the disconnections in `S`, which are
about to go on. There is one lemma per operator, which says for which `X` and `S` it
keeps `Fine` and whom it leaves awake (`Tell` nobody, `SetState` whoever waits for
the state it sets), and one per action. The lemmas on the disconnection (`ListDone`,
`DisconnectNext`, `OpFailed`) are used both inside the notification and after it.

The last three properties need more than `IInv`, and are claimed until a request
strays. `DownInvariance` proves `Orderly`, that `Down` holds unless one has. A step is
`Straight` if nothing has strayed after it and the modem is not at rest; every such
step that starts from `IInv` and `Down` keeps `Down`. Where a modem comes to rest,
`AtRestDown` gives `Down` from `IInv` alone, so that the exception ends there.
The core of `Down` is what
a disabling sequence has still to do (`Course`): while it waits, every
Simple.Connect it was to abort is cancelled (`Halting`), so that nobody can begin
to connect; while it disconnects, each bearer that is not down is in the snapshot that
is left or was asked by it (`Leaving`); after that all are down (`Emptied`). `Rest` and
`Shown` relate the state to the bearers and to the Simple.Connect calls that may still
connect one (`MayDial`), and say that a DISABLED modem takes no registration reports.
`Seeing` is about the one turn between the start of a sequence and its being
told of a state: what it is told is still true as far as DISABLED goes. As for `IInv`
there is one lemma per operator and one per action. `Follows(m, y, U)` sums up what
the notification of a state may do to Simple.Connect calls (none but those in `U`
comes nearer to a connection, no abort is undone), and for the disconnection of
the list `Course(m, B)` lets out the bearers in `B`, which it is just about.
That only enabling leaves DISABLED is one more case analysis: in a DISABLED modem
nothing is under way that could answer (`DisabledIsIdle`).

`DeviceProbingProofs`, for every finite set of ports, every list of plugins with
every hint about every port, every choice of the constants that say what a plugin may
do, and every `MaxInputs`:

* `SpecDInv`: the inductive invariant;
* `SpecCheckAssertsHold`, `SpecGoneIsBare`: two invariants of the run;
* `SpecCheckGoesOn`: the third, under `~Mute`.

`DInv` has four parts. `Base` says that whatever refers to a device, a modem or a
check refers to one that exists, that a device that is not listed has neither probes
nor a modem, and that no assert of the plugin manager failed. `Goods` says that every
check is `Good` between two turns of the main loop. `Follows` says that the tracked
check has its task, is not cancelled, and that no port that left the device still waits
in it for anything. `Stray` says that no other check that still runs is for the listed
device. `GoneIsBare` needs the second clause of `Base` because `create_modem` refuses a
device without probes, and `Stray` because a check that is not tracked any more is never
cancelled: its result must not reach a device that is in the table. TLC found `DInv` to
hold in all states of the run before it was proved.

`Good` is an invariant of a single check. `CheckInv` says that a port is on the list
exactly while it is busy, what each stage knows of plugins, and in which order the minimum
wait, the ports and the task follow each other. `NetInv` says that a net port is asked
for the first time only while a probing timer runs, since it answers from an idle: it is
what keeps the last probing timer from elapsing before the last wait for a suggestion has
begun. `Alive` is `CheckGoesOn` with what it takes to be preserved: without a timer there
is a port that does *not only* wait for a suggestion. Inside a handler `Alive` does not
hold, because the port that completes is about to leave the list, and the list is walked
from a copy while completions take ports off it. `After` says what a completion in place
may have done to the check when it returns: each other port is as it was, was told
of a plugin, or is gone, and the timers were left alone. `Leads` says it of a
whole operation.

Completion is nested as deep as there are ports. `NestedCompletes` says that the function
of level n completes a port of any check with at most n ports that are busy, and keeps
the rest: `CompleteWith` takes the step from one level to the next, and every completion
inside is of one busy port less (`OneLessBusy`). The level that the operations use is
the number of ports, so it always suffices (`InPlaceCompletes`). That `Nested` and
the folds over lists satisfy their recursive equations has itself to be
proved: a table of solutions up to each step exists (`NestedTableExists` and the lemmas
named `...TableExists`), by induction over a *set* of numbers (`UpTo`). From these every fold
over a list is a walk `w[0], w[1], ..., w[n]`, and `Walked` carries a property along it:
the ports that are told of a plugin, launched after the minimum wait, cancelled,
reported again, or released to the checks of their device.

On top there is one lemma per function of the daemon. Most of them are `Calm`: they
leave the checks and the ports of the devices alone and keep `Base`. `CheckedKeeps`
is the one all operations of the plugin manager go through: if the operation `Leads`
from a good check to a good one, the result can be handed to the device, which ignores the
ports it is told to and creates the modem. `Follows` is lost between two steps of
`device_removed`, where a port has left the device and its check has not heard of it yet;
`DInvBut` lets out the ports in between.

Only model-checked: liveness (`Served`, `EveryRequestEnds`, `EveryCommandEnds`,
`DisconnectEnds`, `RingingEnds`), which is out of the prover's reach; the type
invariants of `MultipartSms`, `VoiceCalls` and `DeviceProbing`, of which the
second is about a recursive matching of lines. `DeletesOnlyItself` does not hold. Every
safety invariant and every action property of a run that passes is proved.

## 5. Findings

Each is the counterexample of a run and is quoted with its lines in
`PROJECT.json`.

* `port_turn_lost`: closing a port whose command is in flight never tells the
  scheduler that the command is done. Later opens of any port of the modem send
  nothing.
* `connect_not_aborted`: an aborted Simple.Connect, when it ends, clears the
  cancellable of the one that came after it, which can no longer be aborted.
* `sms_wrong_deleted`: a part that was read from one storage is filed under the
  default storage of the moment; deleting its message deletes a part of another.

Met while modelling, and the reason for the exceptions in the properties; the
modules behave like the code, but no run is about them:

* scheduler and port: unregistering the current source while its command runs
  leaves `in_command` set, against `mm-port-scheduler-rr.c:216` (the ghost
  `dropped`). A run-next command over a half-sent one and a stray response make
  the assertion at `mm-port-serial.c:898` fail.
* bearer: the first three are what `disturbed` stands for, and the last is `again`. A
  plugin disconnect that
  fails after the device reported the disconnection takes the bearer from
  DISCONNECTED to CONNECTED without its timers (`mm-base-bearer.c:1216`). A report
  during an attempt lets `Disconnect` succeed, and a roaming network or a client no
  longer cancels the attempt, which connects afterwards (`:1534`). Another `Connect`
  may begin beside it: the end of one drops the cancellable of the other, its failure
  takes down the connection of the other, and two that succeed fail the assertion of
  `bearer_stats_start` (`:425`); one that ends cancelled while the other has a PPP
  connection leaves DISCONNECTING for ever, because the report that would end it is
  ignored (`:1572`). `reload_stats_ready` (`:389`) adds an answer about the previous
  connection to the total.
* probing: `device_context_suggest_plugin` iterates over a copy of the list of
  port contexts without references (`mm-plugin-manager.c:947`); with two net ports
  that wait for a suggestion, completing the first frees the second. The run has one
  net port. A control port that is put off until a plugin is suggested when no timer
  runs any more (a cdc-wdm port whose first plugin probed it for longer, as
  `mm-plugin.c:846` then leaves it to the next) does not end its check: only
  `device_context_continue` looks for ports that all wait, and
  `port_context_defer_until_suggested` (`mm-plugin-manager.c:467`), against its
  comment, does not call it; with `Mute` the model shows it, and `CheckGoesOn` assumes
  that there is none. A device may be checked after it is gone, because the callback of a
  modem removal starts the check (`mm-base-manager.c:361`, `:453`); checks are
  found by uid (`mm-plugin-manager.c:1484`), so the ports of a replugged device
  join the check of the old one; a modem may be exported after its device was
  dropped (`mm-device.c:575`); a port lost during an inhibition is added again
  when it ends (`mm-base-manager.c:329`).
* modem state: a Simple.Connect that begins between the abort and DISABLING
  (`mm-broadband-modem.c:12262`) is neither aborted nor stopped, and connects a
  bearer of a DISABLED modem. So does a Bearer.Connect during DISABLING or later, which
  nothing refuses (`mm-base-bearer.c:1023`) and the snapshot of
  `mm_bearer_list_disconnect_bearers` misses; both are what `strayed` stands for.
  `reloading_registration_info` stays set when
  the interface is disabled before the reload is answered
  (`mm-iface-modem-3gpp.c:2295` returns before `:2324`); after that every
  registration is ignored as "already reloading" (`:2405`). The UNKNOWN case of
  `disabling_wait_for_final_state_ready` (`mm-broadband-modem.c:12211`) cannot be
  reached, because the wait turns UNKNOWN into an error (`mm-iface-modem.c:486`). A
  failed disable puts back a state that may be out of date. An enable that ends
  with a bearer connected during it overwrites CONNECTED.
* messages: `SetDefaultStorage` selects mem2 without its lock
  (`mm-broadband-modem.c:7344`); a failed AT+CMGD forgets the index, so a second
  Delete succeeds while the part stays (`mm-sms-at.c:690`); two Send calls send
  every part twice (`mm-base-sms.c:625`); an indication is lost when the storage
  is locked (`mm-broadband-modem.c:7582`); a part that came in may be matched with
  a message of the user's own with the same number and reference, and stays in it also
  if that was listed from a storage as STORED or SENT. In text mode the listing
  (`sms_text_part_list_ready`, `mm-broadband-modem.c:7960-8083`, chosen at `:8182`)
  never unlocks mem1, against the comment of its sibling at `:8113`: only the first
  storage is listed, and every later indication and deletion is refused.
* calls: a check that finds a set-up under way when the last call has ended does
  nothing, and the modem stays set up for a call (`mm-iface-modem-voice.c:2268`,
  against the comment at `:2103`), likewise a call that starts during a clean-up;
  the branches that cancel one because of the other are not reached; deleting a call in progress
  makes no check at all (`voice.missed`). An operation changes the calls it took
  note of, also one that has ended meanwhile, which is ACTIVE or HELD again. A WAITING
  call accepted by `HoldAndAccept` keeps its ringing timer without AT+CLCC
  (`:829` against `mm-base-call.c:322`) and ends when it elapses. An incoming +CLIP whose number
  is that of an outgoing call that was not started turns that into RINGING_IN.
  An ACTIVE call whose end was not noticed and whose caller calls again rings
  without being polled (`again`). A Start that is not authorized ends the call in
  any state (`mm-base-call.c:223`).

## 6. What is not modelled

In the modelled components: DTR flash, line settings, echo removal and logging
of the serial port; dispatcher scripts, reported speeds, transmitted bytes,
durations, IP settings and dispose of the bearer; inter-port and inter-character
delays (timers fire at any later time); the probing of one port and the plugins'
filters; several physical devices, suspend and resume; the modem states FAILED,
LOCKED and INITIALIZING, power states, the CDMA subsystem, deleting a bearer, the
four registration domains and their consolidation; status reports of messages
and their QMI and MBIM variants; multiparty
calls, DTMF, audio settings, call waiting, the emergency-only check, the reload of
the list on an indication and the QMI variants of calls.

Components left out: the AT, QMI and MBIM sequences of the broadband modem, its
backends and the plugins are device protocols whose answers the models take as
free; parsers, conversions and codecs (`mm-modem-helpers*`, `mm-charsets`, SMS
PDUs, libqcdm) are pure functions with large unit test suites and byte-level
detail that TLC is not the tool for; start-up, options, logging, polkit, udev
and the dispatcher are I/O; libmm-glib, mmcli and the tools are clients.

## 7. Plan

Done: scheduler, serial port, operation lock, bearer, support check and device,
modem state with simple connect and bearer list, messages, calls; the proofs of
section 4.

Next, in this order:

1. `Registration3gpp` (`mm-iface-modem-3gpp.c`): four domains, deferred
   updates, the registration request with its timeout. Consolidation checked
   against a reference definition over all inputs.
2. Deleting bearers and sync-all in `ModemState`; SIM hot swap and power states.
3. Multiparty calls in `VoiceCalls`; USSD sessions.
4. Suspend and resume with the sleep context (`mm-sleep-context.c`).

Proofs worth having: `TypeOK` of the three modules where it is only stated, and for
every module planned its invariants. The modules that are proved about use no RECURSIVE
operator: recursion is a fold or a recursive function.
