----------------------------- MODULE VoiceCalls -----------------------------
(***************************************************************************)
(* Voice calls of an AT modem (src/src/mm-base-call.c, mm-call-list.c,     *)
(* mm-iface-modem-voice.c and the voice part of mm-broadband-modem.c).     *)
(*                                                                         *)
(* The daemon's call objects follow the lines of the network by what the   *)
(* modem reports: rings, waiting calls, ends of calls, and with AT+CLCC    *)
(* the list of all calls, which is polled.  Without AT+CLCC (clcc) a ring  *)
(* that is no longer heard times out.  When the first call is in progress  *)
(* the modem is set up for it (audio, reports of the end of a call), and   *)
(* cleaned up after the last.                                              *)
(*                                                                         *)
(* A change of a call's state schedules the check for that; voice.missed   *)
(* is a history: the last check could do nothing because a set-up or a     *)
(* clean-up with the opposite aim was under way, or a call in progress was *)
(* deleted, which schedules no check.  So is again: a call was reported    *)
(* ringing in another state, because its caller calls again before the end *)
(* of the first call was noticed.                                          *)
(*                                                                         *)
(* Multiparty calls are not modelled: no call is ever part of one.         *)
(*                                                                         *)
(* Authorization delays a request and holds the call object, which may be  *)
(* deleted meanwhile: requests reach calls that are not listed any more.   *)
(***************************************************************************)
EXTENDS Integers, SequencesExt

CONSTANTS
  Lines,      \* of the network; the index and the number of a call are its line
  MaxCalls,   \* bound on the call objects
  MaxInputs,  \* bound on the requests of users and the changes of lines
  MaxErrors   \* bound on AT commands of polls and set-ups that fail

ASSUME VoiceCallsAssumption ==
  Lines \subseteq Nat \ {0} /\ IsFiniteSet(Lines) /\ MaxCalls \in Nat /\ {MaxInputs, MaxErrors} \subseteq Nat

VARIABLES
  clcc,   \* AT+CLCC is supported
  voice,  \* the calls, the polling and the in-call context of the daemon
  op,     \* the operation of the Voice interface under way and what it will change
  line,   \* the lines as the modem knows them
  used    \* how many of MaxInputs and MaxErrors are used up

vars == <<clcc, voice, op, line, used>>

Ids == 1 .. MaxCalls
Ringing == {"ringing-in", "waiting"}

Idle == [state |-> "idle", direction |-> "unknown"]
Incoming(state) == [state |-> state, direction |-> "incoming"]

(* MMBaseCallPrivate and the D-Bus properties.  number and index: 0 if not    *)
(* known; busy: the plugin operations under way.                              *)
NewCall == [state |-> "unknown", direction |-> "unknown", number |-> 0, index |-> 0,
            timer |-> FALSE, listed |-> FALSE, busy |-> {}, again |-> FALSE]

NoOp == [busy |-> FALSE, accepts |-> FALSE, held |-> {}, active |-> {}, terminated |-> {}]

Init ==
  /\ clcc \in BOOLEAN
  /\ voice = [calls |-> [c \in Ids |-> NewCall], created |-> 0,
              polling_id |-> FALSE, polling_ongoing |-> FALSE, asked |-> [l \in Lines |-> Idle],
              check_id |-> FALSE, task |-> "no", in_call_state |-> FALSE, events |-> FALSE,
              missed |-> FALSE]
  /\ op = NoOp
  /\ line = [l \in Lines |-> Idle]
  /\ used = [inputs |-> 0, errors |-> 0]

----------------------------------------------------------------------------
(* Call objects and their list.                                             *)
Listed(v) == {c \in Ids : v.calls[c].listed}
Live(v) == {c \in Listed(v) : v.calls[c].state # "terminated"}
ListedIn(v, states) == {c \in Listed(v) : v.calls[c].state \in states}

(* mm_base_call_change_state.                                               *)
change_state(call, new) ==
  IF new = "terminated" /\ call.state # new
  THEN [call EXCEPT !.state = new, !.index = 0, !.timer = FALSE]
  ELSE [call EXCEPT !.state = new]

(* Mutant: the check is only for changes from and to ACTIVE.                 *)
changed_if_active(v, calls) ==
  [v EXCEPT !.calls = calls,
            !.check_id = @ \/ \E c \in Ids : /\ calls[c].state # v.calls[c].state
                                           /\ "active" \in {calls[c].state, v.calls[c].state}]

(* The calls, after handlers of the state-changed signal: a check is due.     *)
changed(v, calls) ==
  [v EXCEPT !.calls = calls, !.check_id = @ \/ \E c \in Ids : calls[c].state # v.calls[c].state]

(* The calls of S go to the same state.                                       *)
change_states(v, S, new) ==
  changed(v, [c \in Ids |-> IF c \in S THEN change_state(v.calls[c], new) ELSE v.calls[c]])

incoming_refresh(call) == IF clcc THEN call ELSE [call EXCEPT !.timer = TRUE]

setup_call_list_polling(v) == [v EXCEPT !.polling_id = @ \/ ~v.polling_ongoing]

(* mm_call_list_add_call for a sequence of calls, with the handlers of the    *)
(* call-added signal.  Calls beyond MaxCalls are not modelled.                *)
add_calls(v, new) ==
  LET Added(c) == c - v.created \in DOMAIN new
      w == [v EXCEPT
              !.created = Min({v.created + Len(new), MaxCalls}),
              !.calls = [c \in Ids |-> IF Added(c) THEN [new[c - v.created] EXCEPT !.listed = TRUE]
                                      ELSE v.calls[c]]]
  IN  IF clcc /\ new # <<>> THEN setup_call_list_polling(w) ELSE w

create_incoming_call(info) ==
  incoming_refresh([NewCall EXCEPT !.direction = "incoming", !.state = info.state,
                                   !.number = info.number, !.index = info.index])

----------------------------------------------------------------------------
(* Reports of the modem, as MMCallInfo.                                     *)
match_single_call_info(info, call) ==
  LET match_index == info.index # 0 /\ info.index = call.index
  IN  \/ match_index
      \/ /\ info.direction = call.direction /\ info.state = call.state
         /\ 0 \in {info.index, call.index}
      \/ info.number # 0 /\ info.number = call.number
      \/ /\ info.state = "terminated" /\ info.direction = "unknown"
         /\ info.index = 0 /\ info.number = 0

(* What match_single_call_info does to the call that it matches.              *)
matched(call, info) ==
  LET known == [call EXCEPT !.number = IF @ = 0 THEN info.number ELSE @,
                            !.index  = IF @ = 0 THEN info.index ELSE @,
                            !.again  = @ \/ (call.state \notin Ringing /\ info.state \in Ringing)]
      new == change_state(known, info.state)
  IN  IF info.state # "terminated" /\ call.direction = "incoming" THEN incoming_refresh(new) ELSE new

IsNew(info) == info.direction = "incoming" /\ info.state \in Ringing

(* The list is in the order of creation, the newest first.                    *)
report_call(v, info) ==
  LET S == {c \in Live(v) : match_single_call_info(info, v.calls[c])}
  IN  IF S # {} THEN changed(v, [v.calls EXCEPT ![Max(S)] = matched(@, info)])
      ELSE IF IsNew(info) THEN add_calls(v, <<create_incoming_call(info)>>) ELSE v

Info(l, lines) ==
  [index |-> l, number |-> l, state |-> lines[l].state, direction |-> lines[l].direction]

(* The known calls, newest first, each take the first line that matches and   *)
(* is not taken (0: none does).                                               *)
LineOf(v, lines) ==
  LET taken[c \in Ids] ==
        LET free == {l \in Lines : lines[l] # Idle} \ {taken[k] : k \in {j \in Live(v) : j > c}}
            S == {l \in free : match_single_call_info(Info(l, lines), v.calls[c])}
        IN  IF c \in Live(v) /\ S # {} THEN Min(S) ELSE 0
  IN  taken

not_in_list(call) == change_state(call, "terminated")

(* The new calls are made in the order the modem reports them, here one that *)
(* depends on the set of lines only.                                         *)
report_all_calls(v, lines) ==
  LET taken == LineOf(v, lines)
      rest == {l \in Lines : /\ lines[l] # Idle /\ IsNew(Info(l, lines))
                            /\ \A c \in Ids : taken[c] # l}
      known == [c \in Ids |-> IF c \notin Live(v) THEN v.calls[c]
                             ELSE IF taken[c] = 0 THEN not_in_list(v.calls[c])
                             ELSE matched(v.calls[c], Info(taken[c], lines))]
      Create(l) == create_incoming_call(Info(l, lines))
      new == SetToSeq(rest)
  IN  add_calls(changed(v, known), [k \in DOMAIN new |-> Create(new[k])])

----------------------------------------------------------------------------
(* Polling of the call list.                                                *)
Establishing == {"dialing", "ringing-out", "ringing-in", "held", "waiting"}

call_list_poll ==
  /\ voice.polling_id
  /\ voice' = IF ListedIn(voice, Establishing) = {} THEN [voice EXCEPT !.polling_id = FALSE]
              ELSE [voice EXCEPT !.polling_id = FALSE, !.polling_ongoing = TRUE, !.asked = line]
  /\ UNCHANGED <<clcc, op, line, used>>

(* Mutant: polling ends with the first answer that is an error.              *)
load_call_list_ready_or_stop ==
  /\ voice.polling_ongoing
  /\ LET v == [voice EXCEPT !.polling_ongoing = FALSE, !.asked = [l \in Lines |-> Idle]]
     IN  \/ /\ clcc /\ \E lines \in {line, voice.asked} :
                 voice' = [report_all_calls(v, lines) EXCEPT !.polling_id = TRUE]
            /\ UNCHANGED used
         \/ /\ used.errors < MaxErrors /\ voice' = v
            /\ used' = [used EXCEPT !.errors = @ + 1]
  /\ UNCHANGED <<clcc, op, line>>

(* The modem answers with the lines as they are now or were when it was       *)
(* asked.  Without AT+CLCC the answer is always an error.                     *)
load_call_list_ready ==
  /\ voice.polling_ongoing
  /\ LET v == [voice EXCEPT !.polling_ongoing = FALSE, !.asked = [l \in Lines |-> Idle]]
     IN  \/ /\ clcc /\ \E lines \in {line, voice.asked} :
                 voice' = [report_all_calls(v, lines) EXCEPT !.polling_id = TRUE]
            /\ UNCHANGED used
         \/ /\ clcc => used.errors < MaxErrors
            /\ voice' = [v EXCEPT !.polling_id = TRUE]
            /\ used' = IF clcc THEN [used EXCEPT !.errors = @ + 1] ELSE used
  /\ UNCHANGED <<clcc, op, line>>

----------------------------------------------------------------------------
(* In-call events and audio.                                                *)
InCall == {"dialing", "ringing-out", "held", "active"}
AnyInCall(v) == ListedIn(v, InCall) # {}

(* The set-up installs the handlers of the end-of-call reports at once, if a   *)
(* port can be opened, and then asks the plugin for the audio channel; the    *)
(* clean-up goes the other way round.                                         *)
call_list_check_in_call_events ==
  LET due == AnyInCall(voice)
      v == [voice EXCEPT !.check_id = FALSE]
  IN
  /\ voice.check_id
  /\ CASE voice.task # "no" ->
            /\ voice' = [v EXCEPT !.missed = due # (voice.task = "setup")]
            /\ UNCHANGED used
       [] voice.task = "no" /\ due /\ ~voice.in_call_state ->
            \/ /\ voice' = [v EXCEPT !.task = "setup", !.events = TRUE, !.missed = FALSE]
               /\ UNCHANGED used
            \/ /\ ~voice.events /\ used.errors < MaxErrors
               /\ voice' = [v EXCEPT !.task = "setup", !.missed = FALSE]
               /\ used' = [used EXCEPT !.errors = @ + 1]
       [] voice.task = "no" /\ ~due /\ voice.in_call_state ->
            /\ voice' = [v EXCEPT !.task = "cleanup-audio", !.missed = FALSE]
            /\ UNCHANGED used
       [] OTHER -> voice' = [v EXCEPT !.missed = FALSE] /\ UNCHANGED used
  /\ UNCHANGED <<clcc, op, line>>

in_call_setup_ready ==
  /\ voice.task = "setup"
  /\ voice' = setup_call_list_polling([voice EXCEPT !.task = "no", !.in_call_state = TRUE])
  /\ UNCHANGED <<clcc, op, line, used>>

cleanup_in_call_audio_channel_ready ==
  /\ voice.task = "cleanup-audio"
  /\ voice' = [voice EXCEPT !.task = "cleanup", !.events = FALSE]
  /\ UNCHANGED <<clcc, op, line, used>>

in_call_cleanup_ready ==
  /\ voice.task = "cleanup"
  /\ voice' = [voice EXCEPT !.task = "no", !.in_call_state = FALSE]
  /\ UNCHANGED <<clcc, op, line, used>>

----------------------------------------------------------------------------
(* Requests to a call.                                                      *)
Created == 1 .. voice.created

Input == used.inputs < MaxInputs /\ used' = [used EXCEPT !.inputs = @ + 1]

Asks(c, command) == [voice EXCEPT !.calls[c].busy = @ \union {command}]

(* A request that is not authorized, or a number that is not allowed, ends    *)
(* the call; a request that finds the wrong state is only refused.            *)
handle_start(c) ==
  /\ Input /\ c \in Created
  /\ \/ voice' = change_states(voice, {c}, "terminated")
     \/ /\ voice.calls[c].state = "unknown"
        /\ voice' = change_states(Asks(c, "start"), {c}, "dialing")
  /\ UNCHANGED <<clcc, op, line>>

handle_accept(c) ==
  /\ Input /\ c \in Created /\ voice.calls[c].state = "ringing-in"
  /\ voice' = Asks(c, "accept")
  /\ UNCHANGED <<clcc, op, line>>

handle_deflect(c) ==
  /\ Input /\ c \in Created /\ voice.calls[c].state \in Ringing
  /\ voice' = Asks(c, "deflect")
  /\ UNCHANGED <<clcc, op, line>>

handle_hangup(c) ==
  /\ Input /\ c \in Created /\ voice.calls[c].state \notin {"terminated", "unknown"}
  /\ voice' = Asks(c, "hangup")
  /\ UNCHANGED <<clcc, op, line>>

(* The state in which an answer leaves the call; with AT+CLCC a call that was *)
(* started goes on being reported.                                            *)
StateAfter(command, ok, state) ==
  CASE command = "start"  /\ ok -> IF clcc THEN state ELSE "active"
    [] command = "accept" /\ ok -> "active"
    [] OTHER                    -> "terminated"

(* A line that the modem answers does not ring any more when it says OK.      *)
Answer(ringing) ==
  line' = [l \in Lines |-> IF line[l].state = ringing THEN Incoming("active") ELSE line[l]]

handle_ready(c) ==
  /\ \E command \in voice.calls[c].busy, ok \in BOOLEAN :
       /\ IF command = "accept" /\ ok THEN Answer("ringing-in") ELSE UNCHANGED line
       /\ LET v == [voice EXCEPT !.calls[c].busy = @ \ {command},
                                 !.calls[c].timer = @ /\ ~(command = "accept" /\ ok)]
          IN  voice' = change_states(v, {c}, StateAfter(command, ok, voice.calls[c].state))
  /\ UNCHANGED <<clcc, op, used>>

(* A call that is not listed any more may be held by a request under way.     *)
incoming_timeout_cb(c) ==
  /\ voice.calls[c].timer
  /\ voice' = change_states([voice EXCEPT !.calls[c].timer = FALSE], {c}, "terminated")
  /\ UNCHANGED <<clcc, op, line, used>>

----------------------------------------------------------------------------
(* Requests to the Voice interface.                                         *)
handle_create(l) ==
  /\ Input /\ voice.created < MaxCalls
  /\ voice' = add_calls(voice, <<[NewCall EXCEPT !.direction = "outgoing", !.number = l]>>)
  /\ UNCHANGED <<clcc, op, line>>

handle_delete(c) ==
  /\ Input /\ c \in Listed(voice)
  /\ voice' = [voice EXCEPT !.calls[c].listed = FALSE,
                            !.missed = @ \/ voice.calls[c].state \in InCall]
  /\ UNCHANGED <<clcc, op, line>>

(* The WAITING call that comes last in the list, or the first HELD one.        *)
NextCall ==
  LET waiting == ListedIn(voice, {"waiting"})
      held == ListedIn(voice, {"held"})
  IN  IF waiting # {} THEN {Min(waiting)} ELSE IF held # {} THEN {Max(held)} ELSE {}

(* What an operation will change, all of it decided when it starts.           *)
Plans ==
  {[NoOp EXCEPT !.accepts = TRUE, !.held = ListedIn(voice, {"active"}), !.active = NextCall],
   [NoOp EXCEPT !.accepts = TRUE, !.terminated = ListedIn(voice, {"active"}), !.active = NextCall],
   [NoOp EXCEPT !.terminated = ListedIn(voice, {"dialing", "ringing-out", "ringing-in", "active"})],
   [NoOp EXCEPT !.terminated = ListedIn(voice, {"active", "held"})]}

handle_voice_operation ==
  /\ Input /\ ~op.busy
  /\ \E plan \in Plans : op' = [plan EXCEPT !.busy = TRUE]
  /\ UNCHANGED <<clcc, voice, line>>

voice_operation_ready ==
  /\ op.busy /\ op' = NoOp
  /\ \/ UNCHANGED <<voice, line>>
     \/ /\ IF op.accepts THEN Answer("waiting") ELSE UNCHANGED line
        /\ voice' = change_states(change_states(change_states(voice,
                      op.held, "held"), op.terminated, "terminated"), op.active, "active")
  /\ UNCHANGED <<clcc, used>>

----------------------------------------------------------------------------
(* The modem and the network.                                               *)
Follows(l) ==
  LET Dialled(k) == "start" \in voice.calls[k].busy /\ voice.calls[k].number = l
  IN  CASE line[l] = Idle ->
             {IF \A m \in Lines : line[m] = Idle THEN Incoming("ringing-in") ELSE Incoming("waiting")}
             \union (IF \E k \in Created : Dialled(k)
                     THEN {[state |-> "dialing", direction |-> "outgoing"]} ELSE {})
        [] line[l].state = "dialing" -> {Idle, [line[l] EXCEPT !.state = "ringing-out"]}
        [] line[l].state = "active"  -> {Idle, [line[l] EXCEPT !.state = "held"]}
        [] OTHER                     -> {Idle, [line[l] EXCEPT !.state = "active"]}

(* A line goes on; its end is reported while the handlers are installed.       *)
LineChanges(l) ==
  /\ Input
  /\ \E next \in Follows(l) :
       /\ line' = [line EXCEPT ![l] = next]
       /\ voice' = IF next = Idle /\ voice.events
                   THEN report_call(voice, [index |-> 0, number |-> 0,
                                            state |-> "terminated", direction |-> "unknown"])
                   ELSE voice
  /\ UNCHANGED <<clcc, op>>

(* +CRING and RING come without a number, +CLIP and +CCWA with it.             *)
Rings(l) ==
  /\ line[l].state \in Ringing
  /\ \E number \in {l} \union (IF line[l].state = "ringing-in" THEN {0} ELSE {}) :
       voice' = report_call(voice, [index |-> 0, number |-> number,
                                    state |-> line[l].state, direction |-> "incoming"])
  /\ UNCHANGED <<clcc, op, line, used>>

----------------------------------------------------------------------------
Next ==
  \/ call_list_poll \/ load_call_list_ready
  \/ call_list_check_in_call_events \/ in_call_setup_ready
  \/ cleanup_in_call_audio_channel_ready \/ in_call_cleanup_ready
  \/ handle_voice_operation \/ voice_operation_ready
  \/ \E c \in Ids : \/ handle_start(c) \/ handle_accept(c) \/ handle_deflect(c)
                     \/ handle_hangup(c) \/ handle_ready(c) \/ incoming_timeout_cb(c)
                     \/ handle_delete(c)
  \/ \E l \in Lines : handle_create(l) \/ LineChanges(l) \/ Rings(l)

(* Timers elapse, the one of a listed call unless a ring restarts it,         *)
(* and AT commands are answered: weak fairness of call_list_poll,             *)
(* load_call_list_ready and incoming_timeout_cb(c).  Each of them is enabled  *)
(* by a flag that its step clears, for which weak fairness is the formula     *)
(* []<>~flag, and that is much cheaper to check.                              *)
Fairness ==
  /\ []<>~voice.polling_id
  /\ []<>~voice.polling_ongoing
  /\ \A c \in Ids : []<>(\/ ~(voice.calls[c].timer /\ voice.calls[c].listed)
                         \/ \E l \in Lines : line[l].state \in Ringing)

Spec == Init /\ [][Next]_vars /\ Fairness

----------------------------------------------------------------------------
(* Properties.                                                              *)
States == {"unknown", "dialing", "ringing-out", "ringing-in", "waiting", "active", "held", "terminated"}
LineType == [Lines -> [state : States \union {"idle"}, direction : {"unknown", "incoming", "outgoing"}]]

(* Only a created call is listed, busy or has a timer, and what an operation   *)
(* will change is a set of created calls.                                     *)
TypeOK ==
  /\ clcc \in BOOLEAN /\ line \in LineType /\ voice.asked \in LineType
  /\ voice.created \in 0 .. MaxCalls /\ voice.task \in {"no", "setup", "cleanup-audio", "cleanup"}
  /\ \A c \in Ids : LET call == voice.calls[c] IN
       /\ call.state \in States /\ call.busy \subseteq {"start", "accept", "deflect", "hangup"}
       /\ {call.number, call.index} \subseteq Lines \union {0}
       /\ call.listed \/ call.timer \/ call.busy # {} => c \in Created
  /\ op.held \union op.active \union op.terminated \subseteq Created

(* When nothing is under way and no check is due, the modem is set up for a    *)
(* call exactly when a listed call is in progress, unless a check was missed;  *)
(* a set-up and a clean-up never run with the wrong state.                     *)
InCallIsDue ==
  /\ voice.task = "setup" => ~voice.in_call_state
  /\ voice.task \in {"cleanup-audio", "cleanup"} => voice.in_call_state
  /\ voice.task = "no" /\ ~voice.check_id /\ ~voice.missed
       => (voice.in_call_state <=> AnyInCall(voice))

RingingCalls ==
  {c \in ListedIn(voice, Ringing) : voice.calls[c].direction = "incoming" /\ ~voice.calls[c].again}

(* When the caller gives up, which nothing reports, the call stops ringing:    *)
(* the ring times out or the list of calls is polled, although requests and    *)
(* answers, errors of polls and other calls come in between.                   *)
RingingEnds ==
  \A c \in Ids : c \in RingingCalls
                 ~> \/ c \notin RingingCalls
                    \/ \E l \in Lines : line[l].state \in Ringing
----------------------------------------------------------------------------
(* The inductive invariant: what the call state is or is becoming agrees with *)
(* the calls, or a check of it is due or was missed.                          *)
Aim(v) == v.task = "setup" \/ (v.task = "no" /\ v.in_call_state)

Settled(v) ==
  /\ v.task = "setup" => ~v.in_call_state
  /\ v.task \in {"cleanup-audio", "cleanup"} => v.in_call_state
  /\ ~v.check_id /\ ~v.missed => (AnyInCall(v) <=> Aim(v))

IInv ==
  /\ Settled(voice)
  /\ voice.task \in {"no", "setup", "cleanup-audio", "cleanup"}
  /\ voice.created \in 0 .. MaxCalls
  /\ \A c \in Ids : voice.calls[c].listed => c <= voice.created
=============================================================================
