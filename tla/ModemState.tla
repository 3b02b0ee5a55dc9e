----------------------------- MODULE ModemState -----------------------------
(***************************************************************************)
(* The state of a modem as its clients see it: the state property of       *)
(* src/src/mm-iface-modem.c, moved by the enabling and disabling sequences *)
(* of mm-broadband-modem.c (one at a time, under the operation lock of     *)
(* ModemOpLock), by the status of the bearers in mm-bearer-list.c and by   *)
(* the registration updates of mm-iface-modem-3gpp.c, while Simple.Connect *)
(* (mm-iface-modem-simple.c) walks through all of them.                    *)
(*                                                                         *)
(* A step is one turn of the main loop.  State changes are notified in     *)
(* place, so one step may complete who waits for the state, start the      *)
(* disabling sequence and begin to disconnect a bearer.  What a GTask      *)
(* returns in the turn that created it arrives in a later turn.            *)
(* The modem is 3GPP and initialized.  Bearers are BaseBearer in outline.  *)
(***************************************************************************)
EXTENDS Integers, Sequences, SequencesExt

CONSTANTS
  Bearers,    \* the bearers clients may create
  Connects,   \* Simple.Connect calls
  None,       \* NULL
  MaxInputs   \* bound on what clients, network and device start

States == <<"unknown", "disabled", "disabling", "enabling", "enabled", "searching",
            "registered", "disconnecting", "connecting", "connected">>
(* MMModemState is ordered.                                                 *)
Level(s) == CHOOSE i \in DOMAIN States : States[i] = s
(* MODEM_STATE_IS_INTERMEDIATE                                              *)
Intermediate == {"disabling", "enabling", "disconnecting", "connecting"}

ASSUME ModemStateAssumption ==
  /\ None \notin Bearers \union Connects \union ToSet(States) \union {"op", "user", "client"}
  /\ "op" \notin Connects
  /\ MaxInputs \in Nat

VARIABLES
  modem,   \* MMIfaceModem, MMBroadbandModem, MMBearerList and the interfaces
  inputs,  \* how much was started
  strayed  \* whether a request came that a disable cannot know of (a history variable)

vars == <<modem, inputs, strayed>>

Waiters  == {"op"} \union Connects
Statuses == {"disconnected", "connecting", "connected", "disconnecting"}
Steps    == {"idle", "unlock", "initialized", "enable", "enabling", "enabled", "pausing",
             "registering", "bearer", "connect"}

(* Sequence, disconnection of all bearers, bearer, Simple.Connect and modem.  *)
OpType ==
  [kind : {"none", "enable", "disable"}, by : Connects \union {None},
   step : {"none", "waiting", "starting", "modem", "threegpp", "bearers", "undoing"},
   previous : ToSet(States), seen : ToSet(States) \union {None}]
ListType ==
  [busy : BOOLEAN, pending : Seq(Bearers), answer : {"none", "ok", "error"}]
BearerType ==
  [status : Statuses, dialing : BOOLEAN, cancelled : BOOLEAN,
   hanging : {"no", "user", "force", "cancel"},
   by : {None, "op", "user", "client"}, connect : Connects \union {None}]
ConnectType ==
  [step : Steps, cancellable : BOOLEAN, cancelled : BOOLEAN,
   seen : ToSet(States) \union {None}, bearer : Bearers \union {None}]
ModemType ==
  [state : ToSet(States), restored : BOOLEAN,
   \* who waits for a final state; who began to before the sequence did, and
   \* is told of a state before it
   waiters : SUBSET Waiters, ahead : SUBSET Connects, op : OpType,
   \* bearer list, newest first, and the disconnections of all of it
   list : Seq(Bearers), lists : [{"op", "user"} -> ListType], bearers : [Bearers -> BearerType],
   \* MMIfaceModem3gpp: its subsystem state and registration
   subsystem : {"enabled", "searching", "registered"}, enabled : BOOLEAN,
   registration : {"unknown", "searching", "home"}, reloading : BOOLEAN, reloads : Nat,
   \* MMIfaceModemSimple
   ongoing : Connects \union {None}, connects : [Connects -> ConnectType]]

NoOp      == [kind |-> "none", by |-> None, step |-> "none", previous |-> "unknown", seen |-> None]
NoList    == [busy |-> FALSE, pending |-> <<>>, answer |-> "none"]
NoBearer  == [status |-> "disconnected", dialing |-> FALSE, cancelled |-> FALSE,
              hanging |-> "no", by |-> None, connect |-> None]
NoAttempt == [step |-> "idle", cancellable |-> FALSE, cancelled |-> FALSE, seen |-> None,
              bearer |-> None]

Init ==
  /\ modem =
       [state |-> "disabled", restored |-> FALSE, waiters |-> {}, ahead |-> {}, op |-> NoOp,
        list |-> <<>>, lists |-> [w \in {"op", "user"} |-> NoList],
        bearers |-> [b \in Bearers |-> NoBearer],
        subsystem |-> "enabled", enabled |-> FALSE, registration |-> "unknown",
        reloading |-> FALSE, reloads |-> 0,
        ongoing |-> None, connects |-> [c \in Connects |-> NoAttempt]]
  /\ inputs = 0
  /\ strayed = FALSE

(* One reload of the registration information runs at a time.               *)
TypeOK ==
  /\ modem \in ModemType
  /\ modem.reloads \in 0 .. 1
  /\ inputs \in 0 .. MaxInputs
  /\ strayed \in BOOLEAN

----------------------------------------------------------------------------
(* The state property                                                       *)

Listed(m)    == ToSet(m.list)
Connected(m) == {b \in Listed(m) : m.bearers[b].status = "connected"}

(* update_state_internal, without telling anybody; get_consolidated_subsystem_state. *)
SetState(m, s) ==
  LET kept == /\ s \in {"enabled", "searching", "registered"}
              /\ Level(m.state) > Level("registered")
              /\ Connected(m) # {}
  IN  [m EXCEPT !.state = IF kept THEN @ ELSE IF s = "enabled" THEN m.subsystem ELSE s,
                !.restored = @ /\ s # "disabled"]

(* wait_for_final_state_context_complete: nothing is waited for any more.     *)
StopWaiting(m, w) ==
  [m EXCEPT !.waiters = @ \ {w}, !.ahead = IF w = "op" THEN {} ELSE @ \ {w}]

(* connection_context_free, with cleanup_cancellation.                      *)
EndConnect(m, c) ==
  [StopWaiting(m, c) EXCEPT !.ongoing = IF m.connects[c].cancellable THEN None ELSE @,
                            !.connects[c] = NoAttempt]

SetStep(m, c, step) == [m EXCEPT !.connects[c] = [@ EXCEPT !.step = step]]

(* mm_iface_modem_wait_for_final_state of connect c, for the state s or any. *)
WaitFor(m, c, step, s) ==
  IF m.state \notin Intermediate /\ s \in {None, m.state}
    THEN [m EXCEPT !.connects[c] = [@ EXCEPT !.step = step, !.seen = m.state]]
    ELSE [SetStep(m, c, step) EXCEPT !.waiters = @ \union {c}]

(* connection_step, up to what it has to wait for.                          *)
ConnectionStep(m, c, step) ==
  IF m.connects[c].cancellable /\ m.connects[c].cancelled THEN EndConnect(m, c)
  ELSE IF step = "initialized" THEN WaitFor(m, c, step, "disabled")
  ELSE IF step = "enabled" THEN WaitFor(m, c, step, None)
  ELSE SetStep(m, c, step)

(* wait_for_initialized_ready, wait_for_enabled_ready, told of the state s.  *)
ConnectTold(m, c, s) ==
  LET n == [StopWaiting(m, c) EXCEPT !.connects[c] = [@ EXCEPT !.seen = None]]
  IN  IF s = "unknown" THEN EndConnect(n, c)
      ELSE IF m.connects[c].step = "initialized" THEN ConnectionStep(n, c, "enable")
      ELSE IF Level(s) < Level("enabled") THEN EndConnect(n, c)
      ELSE ConnectionStep(n, c, "pausing")

(* Whether the change of the state is what a waiter waits for (state_changed). *)
Wanted(m, w) ==
  /\ m.state \notin Intermediate \union {"unknown"}
  /\ w \in Connects /\ m.connects[w].step = "initialized" => m.state = "disabled"

(* Those of the connects in C that waited for this state go on; they do not   *)
(* touch each other.                                                        *)
TellConnects(m, C) ==
  LET told     == {c \in C \intersect m.waiters : Wanted(m, c)}
      After(c) == ConnectTold(m, c, m.state)
  IN  [m EXCEPT !.connects = [c \in Connects |-> IF c \in told THEN After(c).connects[c] ELSE @[c]],
                !.ongoing = IF \E c \in told : After(c).ongoing = None THEN None ELSE @,
                !.waiters = @ \ told, !.ahead = @ \ told]

(* The state changed from s, and the sequence under way does not wait.        *)
TellOthers(s, m) == IF m.state = s THEN m ELSE TellConnects(m, Connects)

----------------------------------------------------------------------------
(* Enabling and disabling                                                   *)

(* state_operation_ready: the lock is released; then, in a Simple.Connect,    *)
(* enable_ready.                                                            *)
OpDone(m, ok) ==
  LET n == [StopWaiting(m, "op") EXCEPT !.op = NoOp]
  IN  IF m.op.by = None THEN n
      ELSE IF ok THEN ConnectionStep(n, m.op.by, "enabled") ELSE EndConnect(n, m.op.by)

(* enabling_complete and disabling_complete with an error: the previous state *)
(* is put back.                                                             *)
OpFailed(m) ==
  LET end == IF m.op.kind = "disable" THEN "disabled" ELSE "enabled"
      n   == IF m.op.previous = end THEN m
             ELSE [TellOthers(m.state, SetState(m, m.op.previous)) EXCEPT !.restored = TRUE]
  IN  OpDone(n, FALSE)

OpSucceeded(m) ==
  LET end == IF m.op.kind = "disable" THEN "disabled" ELSE "enabled"
  IN  OpDone(TellOthers(m.state, SetState(m, end)), TRUE)

SetStatus(m, b, s) == [m EXCEPT !.bearers[b] = [@ EXCEPT !.status = s]]

(* Mutant: one bearer counts as all others.                                  *)
QuietStatusAlone(m, b, s) ==
  LET n == SetStatus(m, b, s)
  IN  IF m.state \in {"enabling", "disabling"} THEN n ELSE SetState(n, s)

(* bearer_status_changed for connecting and disconnecting, which complete no *)
(* wait.                                                                    *)
QuietStatus(m, b, s) ==
  LET n == SetStatus(m, b, s)
  IN  IF m.state \in {"enabling", "disabling"} \/ Connected(n) \ {b} # {} THEN n
      ELSE SetState(n, s)

SetAnswer(m, who, a) == [m EXCEPT !.lists[who] = [@ EXCEPT !.answer = a]]

(* Who disconnects b is told in the end; an attempt is cancelled.            *)
AskedBy(m, b, who, hanging) ==
  LET cancelled == m.bearers[b].cancelled \/ m.bearers[b].status = "connecting"
  IN  [m EXCEPT !.bearers[b] = [@ EXCEPT !.by = who, !.hanging = hanging, !.cancelled = cancelled]]

(* Mutant: who is refused because of another disconnection hears nothing.     *)
DisconnectUnanswered(m, b, who) ==
  CASE m.bearers[b].status = "disconnecting" \/ who = "client" -> m
    [] m.bearers[b].status = "disconnected" -> SetAnswer(m, who, "ok")
    [] m.bearers[b].status = "connecting" -> QuietStatus(AskedBy(m, b, who, "no"), b, "disconnecting")
    [] OTHER -> QuietStatus(AskedBy(m, b, who, "user"), b, "disconnecting")

(* mm_base_bearer_disconnect by who, one of the list's disconnections or a    *)
(* client.  What is refused or done at once is answered in a later turn.     *)
Disconnect(m, b, who) ==
  LET Answer(a) == IF who = "client" THEN m ELSE SetAnswer(m, who, a)
  IN  CASE m.bearers[b].status = "disconnected" -> Answer("ok")
        [] m.bearers[b].status = "disconnecting" -> Answer("error")
        [] m.bearers[b].status = "connecting" -> QuietStatus(AskedBy(m, b, who, "no"), b, "disconnecting")
        [] OTHER -> QuietStatus(AskedBy(m, b, who, "user"), b, "disconnecting")

OpStep(m, step) == [m EXCEPT !.op = [@ EXCEPT !.step = step]]

(* The end of mm_bearer_list_disconnect_bearers.                             *)
ListDone(m, who, ok) ==
  LET n == [m EXCEPT !.lists[who] = NoList]
  IN  IF who = "user" THEN n
      ELSE IF ok THEN OpStep(n, "threegpp") ELSE OpFailed(n)

(* disconnect_bearers_next                                                  *)
DisconnectNext(m, who) ==
  LET left == m.lists[who].pending
  IN  IF left = <<>> THEN ListDone(m, who, TRUE)
      ELSE Disconnect([m EXCEPT !.lists[who] = [busy |-> TRUE, pending |-> Tail(left), answer |-> "none"]],
                      Head(left), who)

(* Mutant: a bearer that cannot be disconnected is skipped.                  *)
BearerDisconnectReadySkipping(m, who, ok) == DisconnectNext(m, who)

(* bearer_disconnect_ready: the first failure ends it.                       *)
BearerDisconnectReady(m, who, ok) ==
  IF ok THEN DisconnectNext(m, who) ELSE ListDone(m, who, FALSE)

(* mm_bearer_list_disconnect_bearers, for all bearers: those there are now.   *)
DisconnectBearers(m, who) ==
  LET n == [m EXCEPT !.lists[who] = [busy |-> TRUE, pending |-> Reverse(m.list), answer |-> "none"]]
  IN  IF m.list = <<>> THEN SetAnswer(n, who, "ok") ELSE DisconnectNext(n, who)

(* enabling_wait_for_final_state_ready, disabling_wait_for_final_state_ready  *)
OpTold(m, s) ==
  LET n == [StopWaiting(m, "op") EXCEPT !.op = [@ EXCEPT !.seen = None, !.previous = s]]
  IN  IF s = "unknown" THEN OpFailed(n)
      ELSE IF m.op.kind = "enable"
        THEN IF Level(s) >= Level("enabled") THEN OpSucceeded(n)
             ELSE OpStep(SetState(n, "enabling"), "starting")
      ELSE IF s = "disabled" THEN OpSucceeded(n)
      ELSE DisconnectBearers(OpStep(SetState(n, "disabling"), "bearers"), "op")

(* Mutant: only the sequence under way is told.                              *)
TellOp(s, m) ==
  IF m.state # s /\ "op" \in m.waiters /\ Wanted(m, "op") THEN OpTold(m, m.state) ELSE m

(* The notification of a change of the state from s: whoever waits for it     *)
(* goes on, in the order they began to wait.                                *)
Tell(s, m) ==
  LET first == TellConnects(m, m.ahead)
      n     == IF "op" \in m.waiters /\ Wanted(m, "op") THEN OpTold(first, m.state) ELSE first
  IN  IF m.state = s THEN m ELSE TellConnects(n, Connects)

(* mm_iface_modem_update_state                                              *)
UpdateState(m, s) == Tell(m.state, SetState(m, s))

(* bearer_status_changed for connected and disconnected.                     *)
BearerStatusChanged(m, b, s) ==
  LET n == SetStatus(m, b, s)
  IN  IF m.state \in {"enabling", "disabling"} \/ Connected(n) \ {b} # {} THEN n
      ELSE UpdateState(n, IF s = "connected" THEN s ELSE m.subsystem)

(* The bearer has a final status: who asked for its disconnection is told.    *)
Settle(m, b, s) ==
  LET who == m.bearers[b].by
      n   == BearerStatusChanged([m EXCEPT !.bearers[b] = [@ EXCEPT !.by = None, !.hanging = "no"]], b, s)
  IN  IF who \in {None, "client"} THEN n ELSE BearerDisconnectReady(n, who, s = "disconnected")

----------------------------------------------------------------------------
(* 3GPP registration                                                        *)

(* mm_iface_modem_update_subsystem_state                                     *)
UpdateSubsystemState(m, s) ==
  LET n == [m EXCEPT !.subsystem = s]
  IN  IF m.state \in {"enabling", "disabling"} THEN n ELSE UpdateState(n, s)

(* update_non_registered_state.  Bearers that are connecting are cancelled    *)
(* when the registration is lost (mm_base_bearer_disconnect_force).           *)
UpdateNonRegistered(m, r) ==
  LET Cancelled(b) == m.bearers[b].cancelled \/ (r = "unknown" /\ m.bearers[b].status = "connecting")
      lost == [m EXCEPT !.registration = r,
                        !.bearers = [b \in Bearers |-> [m.bearers[b] EXCEPT !.cancelled = Cancelled(b)]]]
  IN  IF ~m.enabled \/ r = m.registration THEN m
      ELSE UpdateSubsystemState(lost, IF r = "searching" THEN "searching" ELSE "enabled")

(* The last steps of mm_iface_modem_3gpp_disable.                            *)
Disable3gpp(m) == [UpdateNonRegistered(m, "unknown") EXCEPT !.enabled = FALSE]

----------------------------------------------------------------------------
(* Inputs, and what answers them                                            *)

(* Disabled, and nothing under way.                                         *)
AtRest(m) ==
  /\ m.state = "disabled" /\ m.op.kind = "none" /\ ~m.enabled
  /\ \A b \in Bearers : m.bearers[b].status = "disconnected"
  /\ \A c \in Connects : m.connects[c].step = "idle"

(* A request, and whether it strays.                                         *)
Takes(m, stray) ==
  /\ inputs < MaxInputs /\ inputs' = inputs + 1
  /\ modem' = m
  /\ strayed' = ((strayed \/ stray) /\ ~AtRest(m))

Starts(m) == Takes(m, FALSE)
Goes(m)   == modem' = m /\ strayed' = (strayed /\ ~AtRest(m)) /\ UNCHANGED inputs

(* Whatever Simple.Connect is on its way and may be aborted, the abort       *)
(* reaches: "The ongoing connect cancellable and the one in the connection  *)
(* context must be the same, as they're set together"                        *)
(* (mm-iface-modem-simple.c:435, cleanup_cancellation).                      *)
AbortReaches ==
  \A c \in Connects :
    modem.connects[c].cancellable /\ ~modem.connects[c].cancelled => modem.ongoing = c

(* mm_iface_modem_simple_abort_ongoing                                       *)
AbortOngoing(m) ==
  IF m.ongoing = None THEN m
  ELSE [m EXCEPT !.connects[m.ongoing] = [@ EXCEPT !.cancelled = TRUE], !.ongoing = None]

(* common_disable or enable until the wait for a final state, with the lock. *)
StartOp(m, kind, by) ==
  LET waits == m.state \in Intermediate
      n     == [m EXCEPT !.op = [NoOp EXCEPT !.kind = kind, !.by = by, !.step = "waiting",
                                             !.seen = IF waits THEN None ELSE m.state]]
  IN  IF waits THEN [n EXCEPT !.waiters = @ \union {"op"}, !.ahead = @ \union (m.waiters \ {"op"})]
      ELSE n

(* handle_enable: Enable (TRUE) and Enable (FALSE), which strays if its abort  *)
(* leaves an attempt behind.                                                *)
Enable ==
  /\ modem.op.kind = "none" /\ Level(modem.state) >= Level("disabled")
  /\ Starts(StartOp(modem, "enable", None))
Disable ==
  /\ modem.op.kind = "none" /\ Level(modem.state) >= Level("disabled")
  /\ Takes(StartOp(AbortOngoing(modem), "disable", None), ~AbortReaches)

(* The wait that was over at once is told, in its own turn.                  *)
OpSeen ==
  /\ modem.op.seen # None
  /\ Goes(OpTold(modem, modem.op.seen))

(* state_changed_wait_expired, after 10 s.                                   *)
WaitExpired(w) ==
  /\ w \in modem.waiters
  /\ Goes(IF w = "op" THEN OpFailed(modem) ELSE EndConnect(modem, w))

(* enabling_started_ready                                                    *)
EnablingStarted(ok) ==
  /\ modem.op.step = "starting"
  /\ Goes(IF ok THEN OpStep(modem, "modem") ELSE OpFailed(modem))

(* iface_modem_enable_ready: the 3GPP interface takes updates from the start *)
(* of its own enabling sequence.                                            *)
ModemEnabled(ok) ==
  /\ modem.op.step = "modem"
  /\ Goes(IF ok THEN [OpStep(modem, "threegpp") EXCEPT !.enabled = TRUE]
          ELSE OpStep(modem, "undoing"))

(* iface_modem_3gpp_enable_ready and the interfaces after it, which do not   *)
(* fail it; iface_modem_3gpp_disable_ready and the Modem interface; the     *)
(* implicit disabling of an enabling that failed.                           *)
InterfacesDone ==
  \/ /\ modem.op.step = "threegpp" /\ modem.op.kind = "enable"
     /\ Goes(OpSucceeded(modem))
  \/ /\ modem.op.step = "threegpp" /\ modem.op.kind = "disable"
     /\ Goes(OpSucceeded(Disable3gpp(modem)))
  \/ /\ modem.op.step = "undoing"
     /\ Goes(OpFailed(Disable3gpp(modem)))

(* A bearer of a list's disconnection that needed nothing, or was refused.   *)
ListAnswered(who) ==
  /\ modem.lists[who].answer # "none"
  /\ Goes(BearerDisconnectReady(modem, who, modem.lists[who].answer = "ok"))

----------------------------------------------------------------------------
(* Bearers                                                                  *)

AddBearer(m, b) == [m EXCEPT !.list = <<b>> \o @]

(* handle_create_bearer                                                      *)
CreateBearer(b) ==
  /\ b \notin Listed(modem) /\ Level(modem.state) >= Level("disabled")
  /\ Starts(AddBearer(modem, b))

(* mm_base_bearer_connect of a disconnected bearer, in Simple.Connect c or    *)
(* for a client.                                                            *)
Dial(m, b, c) ==
  QuietStatus([m EXCEPT !.bearers[b] = [@ EXCEPT !.dialing = TRUE, !.cancelled = FALSE, !.connect = c]],
              b, "connecting")

(* handle_connect, whatever the state of the modem.                          *)
ConnectBearer(b) ==
  /\ b \in Listed(modem)
  /\ modem.bearers[b].status = "disconnected"
  /\ Takes(Dial(modem, b, None), Level(modem.state) < Level("enabled"))

Hang(m, b, how) == [m EXCEPT !.bearers[b] = [@ EXCEPT !.hanging = how]]

(* connect_ready.  A cancelled attempt is hung up and counts as disconnected *)
(* when that is answered.                                                    *)
ConnectReady(b, ok) ==
  LET c == modem.bearers[b].connect
      m == [modem EXCEPT !.bearers[b] = [@ EXCEPT !.dialing = FALSE, !.connect = None]]
      n == IF ok /\ ~modem.bearers[b].cancelled THEN Settle(m, b, "connected")
           ELSE IF modem.bearers[b].cancelled
             THEN QuietStatus(Hang(m, b, "cancel"), b, "disconnecting")
           ELSE Settle(m, b, "disconnected")
  IN  /\ modem.bearers[b].dialing
      /\ Goes(IF c = None THEN n ELSE EndConnect(n, c))

DisconnectBearer(b) ==
  /\ modem.bearers[b].status \in {"connecting", "connected"}
  /\ Starts(Disconnect(modem, b, "client"))

(* disconnect_ready, disconnect_force_ready, disconnect_after_cancel_ready   *)
HungUp(b, ok) ==
  /\ modem.bearers[b].hanging # "no"
  /\ ok \/ modem.bearers[b].hanging = "user"
  /\ Goes(Settle(modem, b, IF ok THEN "disconnected" ELSE "connected"))

(* The device says that a connection is gone.                                *)
Dropped(b) ==
  /\ modem.bearers[b].status = "connected"
  /\ Starts(Settle(modem, b, "disconnected"))

(* Roaming, or 15 s without registration: mm_base_bearer_disconnect_force.    *)
Forced(b) ==
  /\ modem.bearers[b].status = "connected"
  /\ Starts(QuietStatus(Hang(modem, b, "force"), b, "disconnecting"))

----------------------------------------------------------------------------
(* 3GPP registration updates                                                *)

(* update_registration_state with a registered state.                        *)
UpdateRegistered(m) ==
  IF ~m.enabled \/ m.registration = "home" \/ m.reloading \/ Level(m.state) < Level("enabled") THEN m
  ELSE [m EXCEPT !.reloading = TRUE, !.reloads = @ + 1]

Report(r) ==
  Starts(IF r = "home" THEN UpdateRegistered(modem) ELSE UpdateNonRegistered(modem, r))

(* Mutant: the answer is taken although the interface is disabled.           *)
RegistrationReloadedLate ==
  /\ modem.reloads > 0
  /\ Goes([UpdateSubsystemState([modem EXCEPT !.reloads = @ - 1, !.registration = "home"],
                                "registered") EXCEPT !.reloading = FALSE])

(* update_registration_reload_current_registration_info_ready               *)
RegistrationReloaded ==
  LET m == [modem EXCEPT !.reloads = @ - 1]
  IN  /\ modem.reloads > 0
      /\ Goes(IF ~m.enabled THEN m
              ELSE [UpdateSubsystemState([m EXCEPT !.registration = "home"], "registered")
                      EXCEPT !.reloading = FALSE])

----------------------------------------------------------------------------
(* Simple.Connect and Simple.Disconnect                                     *)

(* The switch of connect_auth_ready.                                         *)
FirstStep(s) ==
  CASE s = "unknown" -> "unlock"
    [] s = "disabling" -> "initialized"
    [] s = "disabled" -> "enable"
    [] s \in {"enabling", "disconnecting", "searching", "connecting"} -> "enabled"
    [] OTHER -> "registering"

(* connect_auth_ready, setup_cancellation; the last abort may be over and the *)
(* modem not yet disabling.                                                 *)
SimpleConnect(c) ==
  /\ modem.connects[c].step = "idle"
  /\ modem.ongoing = None
  /\ Takes(ConnectionStep([modem EXCEPT !.ongoing = c,
                                        !.connects[c] = [@ EXCEPT !.cancellable = TRUE]], c, FirstStep(modem.state)),
           modem.op.kind = "disable" /\ modem.op.seen # None)

(* The wait that was over at once is told, in its own turn.                  *)
ConnectSeen(c) ==
  /\ modem.connects[c].seen # None
  /\ Goes(ConnectTold(modem, c, modem.connects[c].seen))

(* update_lock_info_ready, send_pin_ready                                    *)
Unlocked(c, ok) ==
  /\ modem.connects[c].step = "unlock"
  /\ Goes(IF ok THEN ConnectionStep(modem, c, "initialized") ELSE EndConnect(modem, c))

(* mm_base_modem_enable, when it gets the operation lock.                    *)
ConnectEnables(c) ==
  /\ modem.connects[c].step = "enable" /\ modem.op.kind = "none"
  /\ Goes(StartOp(SetStep(modem, c, "enabling"), "enable", c))

(* wait_after_enabled_ready, after 100 ms.                                   *)
Paused(c) ==
  /\ modem.connects[c].step = "pausing"
  /\ Goes(ConnectionStep(modem, c, "registering"))

(* CONNECTION_STEP_CONNECT: from here on the bearer can be disconnected, the *)
(* attempt no longer be aborted.                                            *)
ConnectWith(m, c, b) ==
  LET n == [m EXCEPT !.ongoing = IF m.connects[c].cancellable THEN None ELSE @,
                     !.connects[c] = [NoAttempt EXCEPT !.step = "connect", !.bearer = b]]
  IN  IF m.connects[c].step = "idle" THEN m
      ELSE IF m.bearers[b].status = "disconnected" THEN Dial(n, b, c) ELSE EndConnect(n, c)

(* register_in_3gpp_or_cdma_network_ready and                                *)
(* packet_service_attach_in_3gpp_network_ready, then CONNECTION_STEP_BEARER.  *)
Registered(c, ok) ==
  LET m == ConnectionStep(modem, c, "bearer")
  IN  /\ modem.connects[c].step = "registering"
      /\ IF ok
           THEN Goes(m) \/ \E b \in Listed(modem) : Goes(ConnectWith(m, c, b))
           ELSE Goes(EndConnect(modem, c))

(* create_bearer_ready                                                       *)
BearerCreated(c) ==
  /\ modem.connects[c].step = "bearer"
  /\ \/ \E b \in Bearers \ Listed(modem) :
          Goes(ConnectWith(ConnectionStep(AddBearer(modem, b), c, "connect"), c, b))
     \/ Goes(EndConnect(modem, c))

(* disconnect_auth_ready, for all bearers.                                   *)
SimpleDisconnect ==
  /\ ~modem.lists["user"].busy
  /\ Starts(DisconnectBearers(AbortOngoing(modem), "user"))

----------------------------------------------------------------------------
Operate ==
  \/ Enable \/ Disable \/ OpSeen \/ InterfacesDone
  \/ \E w \in Waiters : WaitExpired(w)
  \/ \E ok \in BOOLEAN : EnablingStarted(ok) \/ ModemEnabled(ok)
  \/ \E who \in {"op", "user"} : ListAnswered(who)

HandleBearer ==
  \E b \in Bearers :
    \/ CreateBearer(b) \/ ConnectBearer(b) \/ DisconnectBearer(b) \/ Dropped(b) \/ Forced(b)
    \/ \E ok \in BOOLEAN : ConnectReady(b, ok) \/ HungUp(b, ok)

Register ==
  \/ \E r \in {"unknown", "searching", "home"} : Report(r)
  \/ RegistrationReloaded

Connect ==
  \/ \E c \in Connects :
       \/ SimpleConnect(c) \/ ConnectSeen(c) \/ ConnectEnables(c) \/ Paused(c) \/ BearerCreated(c)
       \/ \E ok \in BOOLEAN : Unlocked(c, ok) \/ Registered(c, ok)
  \/ SimpleDisconnect

Next == Operate \/ HandleBearer \/ Register \/ Connect

Spec == Init /\ [][Next]_vars

----------------------------------------------------------------------------
(* Properties                                                               *)

(* Nobody sleeps through what it waits for: a sequence waits only while the  *)
(* modem is between two states, a Simple.Connect for an initialized modem   *)
(* only while it is not (wait_for_final_state, state_changed).               *)
NoLostWakeup ==
  \A w \in modem.waiters :
    IF w \in Connects /\ modem.connects[w].step = "initialized" THEN modem.state # "disabled"
    ELSE modem.state \in Intermediate \union {"unknown"}

(* A disabled modem has no connected bearer: its sequence aborted the         *)
(* Simple.Connect under way and disconnected all bearers, or failed.  That    *)
(* holds until a request strays: a bearer asked to connect while the modem    *)
(* is not enabled, which nothing refuses, a Simple.Connect that begins in    *)
(* the turn between abort and disabling, or one the abort missed; and again  *)
(* once the modem was at rest                                               *)
(* (disabling_step, mm_bearer_list_disconnect_bearers, abort_ongoing).       *)
DisabledIsDisconnected ==
  modem.state = "disabled" /\ ~strayed => Connected(modem) = {}

(* While a bearer is connected the modem is shown connected, whatever the    *)
(* registration and the other bearers do, until a sequence that failed puts  *)
(* a state back it had remembered or a request strays                        *)
(* (update_state_internal, bearer_status_changed, disabling_complete).       *)
ConnectedIsShown ==
  Connected(modem) # {} =>
    modem.state \in {"connected", "enabling", "disabling"} \/ modem.restored \/ strayed

(* Only the enabling sequence takes a modem out of the disabled state: no    *)
(* late report of a bearer or of the registration does, only a bearer that   *)
(* a client asks to connect all the same, a request that strays              *)
(* (update_registration_reload_current_registration_info_ready,             *)
(* bearer_status_changed).                                                   *)
OnlyEnablingLeavesDisabled ==
  [][modem.state = "disabled" /\ ~strayed' => modem'.state \in {"disabled", "enabling"}]_vars

(* Whoever waits has somebody who will answer: a sequence or a Simple.Connect *)
(* a state or its result, a disconnection of the list a bearer that is on its *)
(* way or a result.  Nothing is left that no timer, plugin or turn of the    *)
(* main loop ends (wait_for_final_state, disconnect_bearers_next,            *)
(* mm_base_bearer_disconnect, state_operation_ready).                        *)
NobodyIsOrphaned ==
  LET OnItsWay(b) == modem.bearers[b].dialing \/ modem.bearers[b].hanging # "no"
      Due(w, seen) == seen # None \/ w \in modem.waiters
  IN  /\ modem.op.step = "waiting" => Due("op", modem.op.seen)
      /\ modem.op.step = "bearers" => modem.lists["op"].busy
      /\ \A w \in {"op", "user"} : modem.lists[w].busy =>
           \/ modem.lists[w].answer # "none"
           \/ \E b \in Bearers : modem.bearers[b].by = w /\ OnItsWay(b)
      /\ \A b \in Bearers :
           modem.bearers[b].status \in {"connecting", "disconnecting"} => OnItsWay(b)
      /\ \A c \in Connects :
           LET conn == modem.connects[c]
           IN  /\ conn.step \in {"initialized", "enabled"} => Due(c, conn.seen)
               /\ conn.step = "enabling" => modem.op.by = c
               /\ conn.step = "connect" => modem.bearers[conn.bearer].connect = c
=============================================================================
