----------------------------- MODULE BaseBearer -----------------------------
(***************************************************************************)
(* A data bearer (src/src/mm-base-bearer.c): the connection status machine *)
(* between its D-Bus clients, the plugin that dials and hangs up, the      *)
(* timers that poll the device, the device's own disconnection reports and *)
(* the registration state of the modem.                                    *)
(*                                                                         *)
(* Every call into the plugin (connect, disconnect, reload_stats,          *)
(* load_connection_status, reload_connection_status) is answered in a      *)
(* later step, in any order, also after the connection it was about.       *)
(* Requests that the code refuses or finds done without changing anything  *)
(* are not steps.                                                          *)
(***************************************************************************)
EXTENDS Integers, FiniteSets, Functions

CONSTANTS
  Techs,         \* what the modem is: "3gpp", "cdma" or both
  Registrations, \* what the network may say of the registration
  Methods,       \* of the IP configuration a connection may come with
  HasStats,      \* the plugin implements reload_stats
  HasMonitor,    \* the plugin implements load_connection_status
  HasSync,       \* the plugin implements reload_connection_status
  MaxAttempts,   \* bound on connection attempts
  MaxQueries,    \* bound on the queries in flight, but for the first statistics
  MaxBytes       \* bound on the traffic of one connection

Statuses == {"disconnected", "connecting", "connected", "disconnecting"}
Reasons  == {"none", "unregistered", "roaming", "emergency"}
(* What can forbid a connection: there is no emergency-only in CDMA.          *)
ReasonsOf(t) == IF t = "cdma" THEN Registrations \ {"emergency"} ELSE Registrations

Attempts == 1 .. MaxAttempts
Leavers  == {"user", "force", "cancel"}
Queries  == {"stats", "monitor", "sync"} \X Attempts

ASSUME BaseBearerAssumption ==
  /\ Techs \subseteq {"3gpp", "cdma"} /\ Registrations \subseteq Reasons
  /\ Methods \subseteq {"ppp", "static"}
  /\ HasStats \in BOOLEAN /\ HasMonitor \in BOOLEAN /\ HasSync \in BOOLEAN
  /\ MaxAttempts \in Nat /\ MaxQueries \in Nat /\ MaxBytes \in Nat

VARIABLES
  bearer,    \* MMBaseBearerPrivate
  dialing,   \* how far the plugin is with each connection attempt
  leaving,   \* plugin disconnects in flight, by what started them
  queries,   \* plugin queries in flight, with the connection they ask about
  bytes,     \* what each connection has received
  reason,    \* reason_3gpp and reason_cdma
  deferred,  \* techs with a deferred unregistration timer
  released,  \* a Disconnect succeeded and no connection was requested since
  crashed,   \* a g_assert failed
  (* History, which no action of the code reads: *)
  disturbed, \* a report came while the bearer was on its way, and it was not at rest since
  again      \* received bytes that answers about a former connection counted once more

vars == <<bearer, dialing, leaving, queries, bytes, reason, deferred, released, crashed>>
history == <<disturbed, again>>

(* status, the D-Bus properties (connected, request: DisconnectRequest, error: *)
(* ConnectionError), the connect_cancellable (0: NULL), the sources (monitor,  *)
(* counting: duration timer and stats timeout), the received bytes (rx, total) *)
(* and whether a disconnect waits for the status to change (waiter).           *)
BearerType ==
  [status : Statuses, connected : BOOLEAN, request : BOOLEAN, error : BOOLEAN,
   cancellable : 0 .. MaxAttempts, cancelled : SUBSET Attempts, waiter : BOOLEAN,
   ignore : BOOLEAN, monitor : BOOLEAN, unsupported : BOOLEAN, counting : BOOLEAN,
   statsSupported : BOOLEAN, rx : 0 .. MaxBytes, total : Nat, attempts : 0 .. MaxAttempts,
   connection : 0 .. MaxAttempts]

StateType ==
  /\ bearer \in BearerType
  /\ dialing \in [Attempts -> {"no", "dialing", "probing"}]
  /\ leaving \in [Leavers -> Nat]
  /\ queries \subseteq Queries
  /\ bytes \in [Attempts -> 0 .. MaxBytes]
  /\ reason \in [Techs -> Reasons]
  /\ deferred \subseteq Techs
  /\ released \in BOOLEAN /\ crashed \in BOOLEAN

TypeOK == StateType /\ disturbed \in BOOLEAN /\ again \in Nat

Init ==
  /\ bearer = [status |-> "disconnected", connected |-> FALSE, request |-> FALSE, error |-> FALSE,
               cancellable |-> 0, cancelled |-> {}, waiter |-> FALSE,
               ignore |-> FALSE, monitor |-> FALSE, unsupported |-> FALSE, counting |-> FALSE,
               statsSupported |-> FALSE, rx |-> 0, total |-> 0, attempts |-> 0, connection |-> 0]
  /\ dialing = [k \in Attempts |-> "no"]
  /\ leaving = [w \in Leavers |-> 0]
  /\ queries = {}
  /\ bytes = [k \in Attempts |-> 0]
  /\ reason \in [Techs -> Reasons] /\ \A t \in Techs : reason[t] \in ReasonsOf(t)
  /\ deferred = {}
  /\ released = FALSE /\ crashed = FALSE
  /\ disturbed = FALSE /\ again = 0

----------------------------------------------------------------------------
(* Mutant: the sources keep running when the bearer is disconnected.        *)
UpdateStatusRunning(b, s) ==
  IF s = b.status THEN b
  ELSE IF s = "disconnected"
    THEN [b EXCEPT !.status = s, !.waiter = FALSE, !.connected = FALSE, !.request = FALSE,
                   !.ignore = FALSE]
    ELSE [b EXCEPT !.status = s]

(* bearer_update_status.  The notification completes the disconnect that     *)
(* waits for it (status_changed_complete_disconnect).                        *)
UpdateStatus(b, s) ==
  IF s = b.status THEN b
  ELSE IF s = "disconnected"
    THEN [b EXCEPT !.status = s, !.waiter = FALSE, !.connected = FALSE, !.request = FALSE,
                   !.ignore = FALSE, !.counting = FALSE, !.monitor = FALSE]
    ELSE [b EXCEPT !.status = s]

(* Mutant: PPP connections are disconnected by reports, too.                *)
ReportAlways(b) == UpdateStatus([b EXCEPT !.error = TRUE], "disconnected")

(* mm_base_bearer_report_connection_status (DISCONNECTED)                    *)
Report(b) == IF b.ignore THEN b ELSE UpdateStatus([b EXCEPT !.error = TRUE], "disconnected")

Cancel(b) == [b EXCEPT !.cancelled = @ \union ({b.cancellable} \ {0})]

IsCancelled(b) == b.cancellable \in b.cancelled

(* connection_monitor_start and bearer_stats_start: what must not be running. *)
StartAllowed(b) == ~b.counting /\ ~b.monitor

(* connect_succeeded, bearer_update_status_connected                         *)
ConnectSucceeded(b, k, method) ==
  [b EXCEPT !.status = "connected", !.connected = TRUE, !.counting = TRUE,
            !.monitor = HasMonitor /\ ~b.unsupported,
            !.ignore = @ \/ method = "ppp",
            !.cancellable = 0, !.connection = k]

(* connect_failed, with the error CANCELLED or another one.                  *)
ConnectFailed(b, cancelled) ==
  [UpdateStatus([b EXCEPT !.error = TRUE],
                IF cancelled THEN "disconnecting" ELSE "disconnected")
     EXCEPT !.cancellable = 0]

(* Whether an update of the status completes a waiting disconnect.           *)
Told(b) == released' = (released \/ (bearer.waiter /\ ~b.waiter))

(* A new state of the bearer that starts disconnects by the plugin.           *)
Becomes(b, leavers) ==
  /\ bearer' = b
  /\ Told(b)
  /\ leaving' = [w \in Leavers |-> IF w \in leavers THEN leaving[w] + 1 ELSE leaving[w]]

(* Mutant: a connection attempt in flight is not cancelled.                   *)
DisconnectForceGentle(b) ==
  IF b.status \in {"disconnected", "disconnecting"} THEN Becomes(b, {})
  ELSE IF b.ignore THEN Becomes([b EXCEPT !.request = TRUE], {})
  ELSE IF b.status = "connecting" THEN Becomes(b, {})
  ELSE Becomes(UpdateStatus(b, "disconnecting"), {"force"})

(* mm_base_bearer_disconnect_force                                           *)
DisconnectForce(b) ==
  IF b.status \in {"disconnected", "disconnecting"} THEN Becomes(b, {})
  ELSE IF b.ignore THEN Becomes([b EXCEPT !.request = TRUE], {})
  ELSE IF b.status = "connecting" THEN Becomes(Cancel(b), {})
  ELSE Becomes(UpdateStatus(b, "disconnecting"), {"force"})

----------------------------------------------------------------------------
(* Connecting and disconnecting                                             *)

(* Mutant: the error of the last connection is not cleared.                   *)
ConnectUncleared ==
  LET k == bearer.attempts + 1
  IN  /\ ~crashed
      /\ k \in Attempts
      /\ bearer.status = "disconnected"
      /\ \A t \in Techs : reason[t] # "roaming"
      /\ bearer' = [UpdateStatus(bearer, "connecting") EXCEPT
                      !.attempts = k, !.rx = 0, !.cancellable = k]
      /\ dialing' = [dialing EXCEPT ![k] = "dialing"]
      /\ released' = FALSE
      /\ UNCHANGED <<leaving, queries, bytes, reason, deferred, crashed>>

(* mm_base_bearer_connect, when it is not refused.                           *)
Connect ==
  LET k == bearer.attempts + 1
  IN  /\ ~crashed
      /\ k \in Attempts
      /\ bearer.status = "disconnected"
      /\ \A t \in Techs : reason[t] # "roaming"
      /\ bearer' = [UpdateStatus(bearer, "connecting") EXCEPT
                      !.attempts = k, !.rx = 0, !.error = FALSE, !.cancellable = k]
      /\ dialing' = [dialing EXCEPT ![k] = "dialing"]
      /\ released' = FALSE
      /\ UNCHANGED <<leaving, queries, bytes, reason, deferred, crashed>>

(* connect_check_cancel, then connect_succeeded.                             *)
CheckedConnect(b, k) ==
  IF IsCancelled(b)
    THEN Becomes(ConnectFailed(b, TRUE), {"cancel"}) /\ UNCHANGED <<queries, crashed>>
    ELSE /\ \E m \in Methods : Becomes(ConnectSucceeded(b, k, m), {})
         /\ crashed' = ~StartAllowed(b)
         /\ queries' = queries \union (IF b.statsSupported THEN {<<"stats", k>>} ELSE {})

(* connect_ready                                                            *)
ConnectReady(k) ==
  /\ ~crashed
  /\ dialing[k] = "dialing"
  /\ UNCHANGED <<bytes, reason, deferred>>
  /\ \/ /\ Becomes(ConnectFailed(bearer, FALSE), {})
        /\ dialing' = [dialing EXCEPT ![k] = "no"]
        /\ UNCHANGED <<queries, crashed>>
     \/ /\ k \in bearer.cancelled
        /\ Becomes(ConnectFailed(bearer, TRUE), {"cancel"})
        /\ dialing' = [dialing EXCEPT ![k] = "no"]
        /\ UNCHANGED <<queries, crashed>>
     \/ /\ HasStats /\ ~IsCancelled(bearer)
        /\ dialing' = [dialing EXCEPT ![k] = "probing"]
        /\ UNCHANGED <<bearer, leaving, queries, released, crashed>>
     \/ /\ ~HasStats \/ IsCancelled(bearer)
        /\ CheckedConnect(bearer, k)
        /\ dialing' = [dialing EXCEPT ![k] = "no"]

(* Mutant: no second look at the cancellable.                               *)
ReloadStatsSupportedUnchecked(k) ==
  /\ ~crashed
  /\ dialing[k] = "probing"
  /\ dialing' = [dialing EXCEPT ![k] = "no"]
  /\ \E m \in Methods : Becomes(ConnectSucceeded(bearer, k, m), {})
  /\ UNCHANGED <<queries, crashed, bytes, reason, deferred>>

(* reload_stats_supported_ready                                             *)
ReloadStatsSupportedReady(k) ==
  /\ ~crashed
  /\ dialing[k] = "probing"
  /\ dialing' = [dialing EXCEPT ![k] = "no"]
  /\ \E supported \in BOOLEAN :
       CheckedConnect([bearer EXCEPT !.statsSupported = @ \/ supported], k)
  /\ UNCHANGED <<bytes, reason, deferred>>

(* mm_base_bearer_disconnect while there is nothing to disconnect.           *)
DisconnectDone ==
  /\ ~crashed
  /\ bearer.status = "disconnected"
  /\ released' = TRUE
  /\ UNCHANGED <<bearer, dialing, leaving, queries, bytes, reason, deferred, crashed>>

(* Mutant: the bearer is disconnected at once, the attempt goes on.           *)
DisconnectConnectingEager ==
  /\ ~crashed
  /\ bearer.status = "connecting"
  /\ bearer' = UpdateStatus(bearer, "disconnected")
  /\ released' = TRUE
  /\ UNCHANGED <<leaving, dialing, queries, bytes, reason, deferred, crashed>>

(* mm_base_bearer_disconnect while connecting: the attempt is cancelled.      *)
DisconnectConnecting ==
  /\ ~crashed
  /\ bearer.status = "connecting"
  /\ Becomes([Cancel(UpdateStatus(bearer, "disconnecting")) EXCEPT !.waiter = TRUE], {})
  /\ UNCHANGED <<dialing, queries, bytes, reason, deferred, crashed>>

(* mm_base_bearer_disconnect                                                *)
DisconnectConnected ==
  /\ ~crashed
  /\ bearer.status = "connected"
  /\ Becomes(UpdateStatus(bearer, "disconnecting"), {"user"})
  /\ UNCHANGED <<dialing, queries, bytes, reason, deferred, crashed>>

Left(w) == leaving' = [leaving EXCEPT ![w] = @ - 1]

(* disconnect_ready                                                         *)
DisconnectReady ==
  /\ ~crashed
  /\ leaving["user"] > 0
  /\ Left("user")
  /\ \/ /\ bearer' = UpdateStatus(bearer, "disconnected")
        /\ released' = TRUE
     \/ bearer' = UpdateStatus(bearer, "connected") /\ UNCHANGED released
  /\ UNCHANGED <<dialing, queries, bytes, reason, deferred, crashed>>

(* Mutant: a disconnect that fails after a cancelled connect is believed.     *)
DisconnectForceBelieved(w) ==
  /\ ~crashed
  /\ leaving[w] > 0
  /\ Left(w)
  /\ bearer' = IF w = "cancel" THEN UpdateStatus(bearer, "connected") ELSE Report(bearer)
  /\ Told(bearer')
  /\ UNCHANGED <<dialing, queries, bytes, reason, deferred, crashed>>

(* disconnect_force_ready, disconnect_after_cancel_ready: the bearer counts  *)
(* as disconnected even if the plugin failed.                                *)
DisconnectForceReady(w) ==
  /\ ~crashed
  /\ w \in {"force", "cancel"}
  /\ leaving[w] > 0
  /\ Left(w)
  /\ bearer' = Report(bearer)
  /\ Told(bearer')
  /\ UNCHANGED <<dialing, queries, bytes, reason, deferred, crashed>>

----------------------------------------------------------------------------
(* What the device says                                                     *)

(* A +CGEV detach, an indication of QMI or MBIM: reported at once, whatever    *)
(* the status is.                                                            *)
UnsolicitedReport ==
  /\ ~crashed
  /\ Becomes(Report(bearer), {})
  /\ UNCHANGED <<dialing, queries, bytes, reason, deferred, crashed>>

Traffic ==
  /\ ~crashed
  /\ bearer.status = "connected"
  /\ bearer.connection \in Attempts
  /\ bytes[bearer.connection] < MaxBytes
  /\ bytes' = [bytes EXCEPT ![bearer.connection] = @ + 1]
  /\ UNCHANGED <<bearer, dialing, leaving, queries, reason, deferred, released, crashed>>

(* initial_connection_monitor_cb, connection_monitor_cb, stats_update_cb and  *)
(* mm_base_bearer_sync ask the plugin about the connection.  A sync that      *)
(* finds another status has no effect when it is answered.                    *)
Ask(kind) ==
  /\ ~crashed
  /\ bearer.status = "connected"
  /\ \/ kind = "monitor" /\ bearer.monitor
     \/ kind = "stats" /\ bearer.counting /\ bearer.statsSupported
     \/ kind = "sync" /\ HasSync /\ ~bearer.ignore
  /\ Cardinality(queries) < MaxQueries
  /\ queries' = queries \union {<<kind, bearer.connection>>}
  /\ UNCHANGED <<bearer, dialing, leaving, bytes, reason, deferred, released, crashed>>

(* The plugin's answer to a query about connection k.                        *)
Answered(kind, k) ==
  /\ ~crashed
  /\ <<kind, k>> \in queries
  /\ queries' = queries \ {<<kind, k>>}
  /\ UNCHANGED <<dialing, bytes, reason, deferred, crashed>>

(* An error, or the news that the bearer is still connected.                 *)
NoNews(kind, k) ==
  Answered(kind, k) /\ UNCHANGED <<bearer, leaving, released>>

(* load_connection_status_ready: the plugin does not support it after all.   *)
MonitorUnsupported(k) ==
  /\ Answered("monitor", k)
  /\ Becomes([bearer EXCEPT !.unsupported = TRUE, !.monitor = FALSE], {})

(* load_connection_status_ready, reload_connection_status_ready              *)
FoundDisconnected(kind, k) ==
  /\ kind \in {"monitor", "sync"}
  /\ Answered(kind, k)
  /\ Becomes(Report(bearer), {})

(* Mutant: every answer is added to the total.                               *)
SetOngoingStatsAdding(b, n) == [b EXCEPT !.rx = n, !.total = @ + n]

(* bearer_set_ongoing_interface_stats, for the received bytes.                *)
SetOngoingStats(b, n) ==
  IF n > b.rx THEN [b EXCEPT !.rx = n, !.total = @ + (n - b.rx)] ELSE b

(* reload_stats_ready                                                       *)
ReloadStatsReady(k) ==
  /\ Answered("stats", k)
  /\ Becomes(SetOngoingStats(bearer, bytes[k]), {})

----------------------------------------------------------------------------
(* Registration                                                             *)

(* Mutant: the timers are left running.                                     *)
RegistrationChangedArmed(t, r) ==
  /\ ~crashed
  /\ reason' = [reason EXCEPT ![t] = r]
  /\ UNCHANGED <<dialing, queries, bytes, crashed>>
  /\ IF \E u \in Techs : reason'[u] = "none"
       THEN UNCHANGED <<bearer, leaving, released, deferred>>
     ELSE IF r # "unregistered"
       THEN DisconnectForce(bearer) /\ deferred' = deferred
     ELSE IF t \in deferred
       THEN UNCHANGED <<bearer, leaving, released, deferred>>
     ELSE IF bearer.status # "connected"
       THEN DisconnectForce(bearer) /\ UNCHANGED deferred
     ELSE deferred' = deferred \union {t} /\ UNCHANGED <<bearer, leaving, released>>

(* modem_3gpp_registration_state_changed, modem_cdma_registration_state_changed *)
RegistrationChanged(t, r) ==
  /\ ~crashed
  /\ reason' = [reason EXCEPT ![t] = r]
  /\ UNCHANGED <<dialing, queries, bytes, crashed>>
  /\ IF \E u \in Techs : reason'[u] = "none"
       THEN deferred' = {} /\ UNCHANGED <<bearer, leaving, released>>
     ELSE IF r # "unregistered"
       THEN DisconnectForce(bearer) /\ deferred' = {}
     ELSE IF t \in deferred
       THEN UNCHANGED <<bearer, leaving, released, deferred>>
     ELSE IF bearer.status # "connected"
       THEN DisconnectForce(bearer) /\ UNCHANGED deferred
     ELSE deferred' = deferred \union {t} /\ UNCHANGED <<bearer, leaving, released>>

(* deferred_3gpp_unregistration_cb, deferred_cdma_unregistration_cb           *)
DeferredUnregistration(t) ==
  /\ ~crashed
  /\ t \in deferred
  /\ deferred' = deferred \ {t}
  /\ DisconnectForce(bearer)
  /\ UNCHANGED <<dialing, queries, bytes, reason, crashed>>

----------------------------------------------------------------------------
(* What the plugin owes: the answers to the connects and disconnects it has.   *)
Answer ==
  \/ \E k \in Attempts : ConnectReady(k) \/ ReloadStatsSupportedReady(k)
  \/ DisconnectReady
  \/ \E w \in Leavers : DisconnectForceReady(w)

(* Disconnected, and nobody with the plugin.                                *)
AtRest ==
  /\ bearer.status = "disconnected" /\ ~crashed
  /\ \A k \in Attempts : dialing[k] = "no"
  /\ \A w \in Leavers : leaving[w] = 0

(* The history of a step that disturbs the bearer, or not, and counts n bytes  *)
(* of a former connection.                                                    *)
Remember(disturbs, n) ==
  /\ disturbed' = ((disturbed \/ disturbs) /\ ~AtRest')
  /\ again' = again + n

(* What clients, the plugin's answers, timers and the registration do.        *)
Act ==
  \/ Connect \/ DisconnectDone \/ DisconnectConnecting \/ DisconnectConnected
  \/ Answer \/ Traffic
  \/ \E k \in Attempts : MonitorUnsupported(k)
  \/ \E kind \in {"stats", "monitor", "sync"} : Ask(kind) \/ \E k \in Attempts : NoNews(kind, k)
  \/ \E t \in Techs : \/ \E r \in ReasonsOf(t) : RegistrationChanged(t, r)
                      \/ DeferredUnregistration(t)

(* A report of the device or of a poll.  It takes down a bearer that is on its  *)
(* way, and what the plugin is asked for goes on: that disturbs the bearer.    *)
BeReported ==
  UnsolicitedReport \/ \E kind \in {"monitor", "sync"}, k \in Attempts : FoundDisconnected(kind, k)

Next ==
  \/ Act /\ Remember(FALSE, 0)
  \/ BeReported /\ Remember(bearer.status \in {"connecting", "disconnecting"}, 0)
  \/ \E k \in Attempts :
       /\ ReloadStatsReady(k)
       /\ Remember(FALSE, IF k = bearer.attempts THEN 0 ELSE bearer'.total - bearer.total)

(* The plugin goes on answering, if only by timeouts.                         *)
Fairness == WF_vars(Answer)

Spec == Init /\ [][Next]_<<vars, history>> /\ Fairness

----------------------------------------------------------------------------
(* The deferred unregistration timer of a tech runs only while the modem is    *)
(* unregistered there and no other tech allows the connection, whatever        *)
(* registration changes came since it was armed.                              *)
DeferredIsDue ==
  \A t \in deferred : reason[t] = "unregistered" /\ \A u \in Techs : reason[u] # "none"

(* Nothing polls, counts or is kept of a connection: a source that survived    *)
(* would act on the next one.                                                 *)
Bare(b) == ~b.counting /\ ~b.monitor /\ ~b.ignore /\ ~b.connected /\ ~b.request

(* A connected bearer is whole: D-Bus says Connected without an error, the     *)
(* statistics run, and the device is polled where that is supported.           *)
ConnectedIsWhole ==
  bearer.status = "connected" =>
    /\ bearer.connected /\ ~bearer.error /\ bearer.counting
    /\ HasMonitor => bearer.monitor \/ bearer.unsupported

(* What belongs to a connection comes and goes with it, whichever report,      *)
(* failure or cancellation moved the status: a disconnected bearer never has a *)
(* part of it, a connecting one has none and a connected one all of it unless  *)
(* the bearer is disturbed.                                                   *)
StatusIsWhole ==
  /\ bearer.status = "disconnected" => Bare(bearer)
  /\ ~disturbed => ConnectedIsWhole /\ (bearer.status = "connecting" => Bare(bearer))

(* Bearer.Disconnect: once it has succeeded the bearer stays disconnected until  *)
(* somebody asks for a connection again, whichever polls are still to be        *)
(* answered.  A disturbed bearer may come back: the disconnection that the       *)
(* report overtook fails, and disconnect_ready puts CONNECTED.                  *)
DisconnectSticks == released /\ ~disturbed => bearer.status # "connected"

(* A cancelled attempt never becomes a connection, also when the cancellation  *)
(* comes while the statistics are probed.  A disturbed bearer may have two      *)
(* attempts, and the end of one drops the cancellable of the other.             *)
CancelledNeverConnects ==
  [][~disturbed => \A k \in bearer.cancelled :
                     bearer.connection # k => bearer'.connection # k]_vars

(* No bearer connects while roaming is what the network says and no tech       *)
(* allows it, although the request is only checked when it is made; a disturbed *)
(* bearer has an attempt that mm_base_bearer_disconnect_force does not see.     *)
RoamingNeverConnects ==
  [][~disturbed /\ bearer.status # "connected" /\ bearer'.status = "connected" /\ leaving' = leaving
       => ~(/\ \E t \in Techs : reason[t] = "roaming"
            /\ \A t \in Techs : reason[t] # "none")]_vars

(* A PPP connection is only ever taken down on request, because the TTY        *)
(* belongs to pppd until the upper layers give it back; that of a disturbed     *)
(* bearer also by the failure of another attempt.                              *)
PppStays ==
  [][~disturbed /\ bearer.ignore /\ bearer.status = "connected" /\ bearer'.status # "connected"
       => leaving'["user"] > leaving["user"]]_vars

Received == SumFunction(bytes)

(* The total of received bytes never exceeds what all connections received and  *)
(* what late answers about a former connection counted again: no failed         *)
(* disconnect, new connection or order of the answers counts anything twice.    *)
TotalIsCarried == bearer.total <= Received + again

(* The asserts of bearer_stats_start and connection_monitor_start hold, but for *)
(* a disturbed bearer, of which two attempts may succeed.                      *)
AssertsHold == ~disturbed => ~crashed

(* DISCONNECTING is never the end, nor the wait for a cancelled attempt, unless *)
(* the bearer is disturbed on the way.                                         *)
DisconnectEnds ==
  LET pending == bearer.waiter \/ bearer.status = "disconnecting"
  IN  pending ~> ~pending \/ disturbed

----------------------------------------------------------------------------
(* The strengthenings by which BaseBearerProofs proves the invariants.  What     *)
(* holds in any state: a disconnected bearer is bare, and one that is, or may be *)
(* again, connected has a connection.                                          *)
Sound ==
  {b \in BearerType : /\ b.status = "disconnected" => Bare(b)
                      /\ b.status = "connected" => b.connection \in Attempts}

Base ==
  /\ StateType
  /\ bearer \in Sound
  /\ leaving["user"] # 0 => bearer.connection \in Attempts
  /\ DeferredIsDue

Permitted == (\E t \in Techs : reason[t] = "roaming") => \E t \in Techs : reason[t] = "none"

Whole(b) ==
  /\ b.connected /\ ~b.error /\ b.counting
  /\ HasMonitor => b.monitor \/ b.unsupported
  /\ b.connection \in Attempts

(* There is at most one attempt, of a bare bearer that is CONNECTING, or       *)
(* DISCONNECTING because the attempt was cancelled.                           *)
AttemptAlone ==
  \A k \in Attempts : dialing[k] # "no" =>
    /\ k = bearer.attempts /\ k = bearer.cancellable
    /\ bearer.status \in {"connecting", "disconnecting"}
    /\ bearer.status = "disconnecting" => k \in bearer.cancelled
    /\ Bare(bearer) /\ ~bearer.error
    /\ \A w \in Leavers : leaving[w] = 0
    /\ k \notin bearer.cancelled => Permitted

(* There is at most one disconnection by the plugin, of a bearer that is       *)
(* DISCONNECTING; the one a user asked for may fail and finds it whole then.   *)
LeaverAlone ==
  \A w \in Leavers : leaving[w] # 0 =>
    /\ leaving[w] = 1 /\ \A v \in Leavers \ {w} : leaving[v] = 0
    /\ bearer.status = "disconnecting"
    /\ w = "user" => Whole(bearer)
    /\ w # "user" => ~bearer.ignore

WholeOrBare ==
  /\ bearer.status = "connected" => Whole(bearer)
  /\ bearer.status \in {"disconnected", "connecting"} => Bare(bearer)

ReleasedIsDisconnected == released => bearer.status = "disconnected"

(* What holds of a bearer that is not disturbed.                              *)
IInv ==
  /\ StateType
  /\ AttemptAlone
  /\ LeaverAlone
  /\ WholeOrBare
  /\ ReleasedIsDisconnected
  /\ ~crashed
  /\ DeferredIsDue

Orderly == ~disturbed => IInv

(* The strengthening for TotalIsCarried: what the latest attempt has received   *)
(* and is not counted of it yet can still be added, and the attempts to come    *)
(* have received nothing.                                                     *)
Carried ==
  /\ bearer.total <= Received + again
  /\ bearer.connection <= bearer.attempts
  /\ \A k \in Attempts : k > bearer.attempts => bytes[k] = 0 /\ dialing[k] = "no"
  /\ bearer.attempts \in Attempts =>
       bearer.total + (bytes[bearer.attempts] - bearer.rx) <= Received + again

=============================================================================
