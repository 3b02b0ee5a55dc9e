-------------------------- MODULE VoiceCallsProofs --------------------------
(***************************************************************************)
(* Proofs about VoiceCalls for any number of lines and calls.  The         *)
(* argument: whatever changes the state of a call makes a check due, so a  *)
(* handler either leaves it as it was whether a call is in progress, or    *)
(* there is a check to come (Follows).  The check and the three answers of *)
(* the set-up and the clean-up keep what the modem is set up for, or is    *)
(* being set up for, in step with that (Settled).                          *)
(***************************************************************************)
EXTENDS VoiceCalls, FiniteSetTheorems, TLAPS

CallFields == DOMAIN NewCall
VoiceFields == {"calls", "created", "polling_id", "polling_ongoing", "asked", "check_id", "task",
                "in_call_state", "events", "missed"}

(* v.calls are records of calls, of which the first v.created exist.          *)
ShapedCalls(calls) ==
  /\ DOMAIN calls = Ids
  /\ \A c \in Ids : DOMAIN calls[c] = CallFields /\ calls[c].listed \in BOOLEAN

Shaped(v) ==
  /\ DOMAIN v = VoiceFields
  /\ ShapedCalls(v.calls)
  /\ v.created \in 0 .. MaxCalls
  /\ \A c \in Ids : v.calls[c].listed => c <= v.created
  /\ v.task \in {"no", "setup", "cleanup-audio", "cleanup"}
  /\ {v.check_id, v.missed, v.in_call_state} \subseteq BOOLEAN

(* A handler that turns v into w leaves it to the check to find out whether a *)
(* call is in progress now.                                                   *)
Leads(v, w) ==
  /\ Shaped(w)
  /\ w.task = v.task /\ w.in_call_state = v.in_call_state /\ w.missed = v.missed
  /\ v.check_id => w.check_id
  /\ w.check_id \/ (AnyInCall(w) <=> AnyInCall(v))

LEMMA LeadsTransitive ==
  ASSUME NEW u, NEW v, NEW w, Leads(u, v), Leads(v, w)
  PROVE  Leads(u, w)
BY DEF Leads

LEMMA LeadsReflexive ==
  ASSUME NEW v, Shaped(v)
  PROVE  Leads(v, v)
BY DEF Leads

LEMMA LeadsKeeps ==
  ASSUME NEW v, NEW w, Settled(v), Shaped(v), Leads(v, w)
  PROVE  Settled(w)
BY DEF Leads, Settled, Aim, Shaped

(* Only what the calls are listed as and their states count.                  *)
LEMMA SameCalls ==
  ASSUME NEW v, NEW w,
         \A c \in Ids : w.calls[c].listed = v.calls[c].listed /\ w.calls[c].state = v.calls[c].state
  PROVE  AnyInCall(w) <=> AnyInCall(v)
BY DEF AnyInCall, ListedIn, Listed

(* A change of call states makes the check due (call_state_changed).          *)
LEMMA ChangedLeads ==
  ASSUME NEW v, Shaped(v), NEW calls, ShapedCalls(calls),
         \A c \in Ids : calls[c].listed = v.calls[c].listed
  PROVE  Leads(v, changed(v, calls))
<1>1. PICK w : w = changed(v, calls) OBVIOUS
<1>2. /\ DOMAIN w = VoiceFields /\ w.calls = calls
      /\ w.created = v.created /\ w.task = v.task /\ w.in_call_state = v.in_call_state
      /\ w.missed = v.missed
      /\ w.check_id = (v.check_id \/ \E c \in Ids : calls[c].state # v.calls[c].state)
  BY <1>1 DEF changed, Shaped, VoiceFields
<1>3. Shaped(w) BY <1>2 DEF Shaped
<1>4. w.check_id \/ (AnyInCall(w) <=> AnyInCall(v))
  <2> SUFFICES ASSUME ~w.check_id PROVE AnyInCall(w) <=> AnyInCall(v) OBVIOUS
  <2>1. \A c \in Ids : calls[c].state = v.calls[c].state BY <1>2
  <2> QED BY <1>2, <2>1, SameCalls
<1> QED BY <1>1, <1>2, <1>3, <1>4 DEF Leads

(* mm_base_call_change_state touches nothing of the list.                     *)
LEMMA ChangeStateShape ==
  ASSUME NEW call, DOMAIN call = CallFields, NEW new
  PROVE  DOMAIN change_state(call, new) = CallFields /\ change_state(call, new).listed = call.listed
BY DEF change_state, CallFields, NewCall

LEMMA ChangeStatesLeads ==
  ASSUME NEW v, Shaped(v), NEW S, NEW new
  PROVE  Leads(v, change_states(v, S, new))
<1>1. PICK calls : calls = [c \in Ids |-> IF c \in S THEN change_state(v.calls[c], new) ELSE v.calls[c]]
  OBVIOUS
<1>2. \A c \in Ids : DOMAIN calls[c] = CallFields /\ calls[c].listed = v.calls[c].listed
  BY <1>1, ChangeStateShape DEF Shaped, ShapedCalls
<1>3. ShapedCalls(calls) BY <1>1, <1>2 DEF ShapedCalls, Shaped
<1> QED BY <1>1, <1>2, <1>3, ChangedLeads DEF change_states

(* A change of another field of a call is none that counts.                   *)
LEMMA FieldLeads ==
  ASSUME NEW v, Shaped(v), NEW c \in Ids, NEW x,
         NEW w, w = [v EXCEPT !.calls[c].busy = x] \/ w = [v EXCEPT !.calls[c].timer = x]
  PROVE  Leads(v, w)
<1>1. ASSUME NEW f \in {"busy", "timer"}, w = [v EXCEPT !.calls[c][f] = x] PROVE Leads(v, w)
  <2>1. PICK call : call = [v.calls[c] EXCEPT ![f] = x] OBVIOUS
  <2>2. DOMAIN call = CallFields /\ call.listed = v.calls[c].listed /\ call.state = v.calls[c].state
    BY <1>1, <2>1 DEF Shaped, ShapedCalls, CallFields, NewCall
  <2>3. DOMAIN w = VoiceFields /\ w.calls = [v.calls EXCEPT ![c] = call] /\ \A g \in VoiceFields \ {"calls"} : w[g] = v[g]
    BY <1>1, <2>1 DEF Shaped, VoiceFields
  <2>4. /\ w.created = v.created /\ w.task = v.task /\ w.in_call_state = v.in_call_state
        /\ w.missed = v.missed /\ w.check_id = v.check_id
    BY <2>3 DEF VoiceFields
  <2>5. ShapedCalls(w.calls) /\ \A k \in Ids : /\ w.calls[k].listed = v.calls[k].listed
                                              /\ w.calls[k].state = v.calls[k].state
    BY <2>2, <2>3 DEF Shaped, ShapedCalls
  <2>6. Shaped(w) BY <2>3, <2>4, <2>5 DEF Shaped
  <2> QED BY <2>4, <2>5, <2>6, SameCalls DEF Leads
<1> QED BY <1>1

(* The list takes new calls, none of which is in progress.                    *)
LEMMA AddCallsLeads ==
  ASSUME NEW v, Shaped(v), NEW new, NEW n \in Nat, DOMAIN new = 1 .. n, Len(new) = n,
         \A k \in 1 .. n : DOMAIN new[k] = CallFields /\ new[k].state \notin InCall
  PROVE  Leads(v, add_calls(v, new))
<1> DEFINE Added(c) == c - v.created \in DOMAIN new
           calls == [c \in Ids |-> IF Added(c) THEN [new[c - v.created] EXCEPT !.listed = TRUE]
                                   ELSE v.calls[c]]
           w == [v EXCEPT !.created = Min({v.created + Len(new), MaxCalls}), !.calls = calls]
<1>1. v.created \in 0 .. MaxCalls /\ MaxCalls \in Nat BY VoiceCallsAssumption DEF Shaped
<1>2. PICK most : most = Min({v.created + n, MaxCalls}) OBVIOUS
<1>3. most \in {v.created + n, MaxCalls} /\ most <= v.created + n /\ most <= MaxCalls
  <2>1. \E x \in {v.created + n, MaxCalls} : \A y \in {v.created + n, MaxCalls} : x <= y
    BY <1>1
  <2> QED BY <1>2, <2>1 DEF Min
<1>4. /\ DOMAIN w = VoiceFields /\ w.calls = calls /\ w.created = most
      /\ w.task = v.task /\ w.in_call_state = v.in_call_state
      /\ w.missed = v.missed /\ w.check_id = v.check_id
  BY <1>2 DEF Shaped, VoiceFields
<1>5. ASSUME NEW c \in Ids, Added(c)
      PROVE  /\ DOMAIN calls[c] = CallFields /\ calls[c].listed = TRUE /\ calls[c].state \notin InCall
             /\ c > v.created /\ c <= most
  <2>1. c - v.created \in 1 .. n /\ c \in 1 .. MaxCalls BY <1>5 DEF Ids
  <2>2. DOMAIN new[c - v.created] = CallFields /\ new[c - v.created].state \notin InCall BY <2>1
  <2>3. /\ DOMAIN calls[c] = CallFields /\ calls[c].listed = TRUE
        /\ calls[c].state = new[c - v.created].state
    BY <1>5, <2>2 DEF CallFields, NewCall
  <2> QED BY <1>1, <1>3, <2>1, <2>2, <2>3
<1>6. ASSUME NEW c \in Ids, ~Added(c) PROVE calls[c] = v.calls[c] BY <1>6
<1>7. Shaped(w)
  <2>1. ShapedCalls(calls) BY <1>5, <1>6 DEF Shaped, ShapedCalls
  <2>2. most \in 0 .. MaxCalls /\ v.created <= most BY <1>1, <1>3
  <2>3. \A c \in Ids : calls[c].listed => c <= most
    <3> SUFFICES ASSUME NEW c \in Ids, calls[c].listed PROVE c <= most OBVIOUS
    <3>1. CASE Added(c) BY <1>5, <3>1
    <3>2. CASE ~Added(c)
      <4>1. c <= v.created BY <1>6, <3>2 DEF Shaped
      <4> QED BY <1>1, <2>2, <4>1 DEF Ids
    <3> QED BY <3>1, <3>2
  <2> QED BY <1>4, <2>1, <2>2, <2>3 DEF Shaped
<1>8. AnyInCall(w) <=> AnyInCall(v)
  <2>1. \A c \in Ids : Added(c) => ~(calls[c].listed /\ calls[c].state \in InCall) BY <1>5
  <2>2. \A c \in Ids : Added(c) => ~v.calls[c].listed
    BY <1>1, <1>5 DEF Shaped, Ids
  <2>3. \A c \in Ids : (calls[c].listed /\ calls[c].state \in InCall) <=> (v.calls[c].listed /\ v.calls[c].state \in InCall)
    BY <1>6, <2>1, <2>2
  <2> HIDE DEF calls, w
  <2> QED BY <1>4, <2>3 DEF AnyInCall, ListedIn, Listed
<1>9. Leads(v, w) BY <1>4, <1>7, <1>8 DEF Leads
<1>10. Leads(w, setup_call_list_polling(w))
  <2> HIDE DEF w
  <2> PICK u : u = setup_call_list_polling(w) OBVIOUS
  <2>1. DOMAIN u = VoiceFields /\ u.calls = w.calls /\ u.created = w.created /\ u.task = w.task
        /\ u.in_call_state = w.in_call_state /\ u.missed = w.missed /\ u.check_id = w.check_id
    BY <1>7 DEF setup_call_list_polling, Shaped, VoiceFields
  <2>2. Shaped(u) BY <1>7, <2>1 DEF Shaped
  <2> QED BY <2>1, <2>2, SameCalls DEF Leads
<1>11. add_calls(v, new) = IF clcc /\ new # <<>> THEN setup_call_list_polling(w) ELSE w
  BY DEF add_calls
<1> HIDE DEF w
<1> QED BY <1>9, <1>10, <1>11, LeadsTransitive

----------------------------------------------------------------------------
(* Reports of the modem.                                                    *)

(* match_single_call_info keeps what a call is and whether it is listed.      *)
LEMMA MatchedShape ==
  ASSUME NEW call, DOMAIN call = CallFields, NEW info
  PROVE  DOMAIN matched(call, info) = CallFields /\ matched(call, info).listed = call.listed
<1>1. PICK known : known = [call EXCEPT
                              !.number = IF @ = 0 THEN info.number ELSE @,
                              !.index  = IF @ = 0 THEN info.index ELSE @,
                              !.again  = @ \/ (call.state \notin Ringing /\ info.state \in Ringing)]
  OBVIOUS
<1>2. DOMAIN known = CallFields /\ known.listed = call.listed BY <1>1 DEF CallFields, NewCall
<1>3. PICK new : new = change_state(known, info.state) OBVIOUS
<1>4. DOMAIN new = CallFields /\ new.listed = call.listed BY <1>2, <1>3, ChangeStateShape
<1>5. DOMAIN incoming_refresh(new) = CallFields /\ incoming_refresh(new).listed = call.listed
  BY <1>4 DEF incoming_refresh, CallFields, NewCall
<1>6. matched(call, info) \in {new, incoming_refresh(new)} BY <1>1, <1>3 DEF matched
<1> QED BY <1>4, <1>5, <1>6

(* A call that is created for a report is ringing, not in progress.           *)
LEMMA CreatedShape ==
  ASSUME NEW info, IsNew(info)
  PROVE  /\ DOMAIN create_incoming_call(info) = CallFields
         /\ create_incoming_call(info).state \notin InCall
<1>1. PICK call : call = [NewCall EXCEPT !.direction = "incoming", !.state = info.state,
                                         !.number = info.number, !.index = info.index]
  OBVIOUS
<1>2. DOMAIN call = CallFields /\ call.state = info.state BY <1>1 DEF CallFields, NewCall
<1>3. DOMAIN incoming_refresh(call) = CallFields /\ incoming_refresh(call).state = info.state
  BY <1>2 DEF incoming_refresh, CallFields, NewCall
<1>4. info.state \notin InCall BY DEF IsNew, Ringing, InCall
<1> QED BY <1>1, <1>3, <1>4 DEF create_incoming_call

(* mm_iface_modem_voice_report_call                                         *)
LEMMA ReportCallLeads ==
  ASSUME NEW v, Shaped(v), NEW info
  PROVE  Leads(v, report_call(v, info))
<1>1. PICK S : S = {c \in Live(v) : match_single_call_info(info, v.calls[c])} OBVIOUS
<1>2. CASE S # {}
  <2>1. PICK m : m = Max(S) OBVIOUS
  <2>2. PICK calls : calls = [v.calls EXCEPT ![m] = matched(@, info)] OBVIOUS
  <2>3. \A c \in Ids : DOMAIN calls[c] = CallFields /\ calls[c].listed = v.calls[c].listed
    BY <2>2, MatchedShape DEF Shaped, ShapedCalls
  <2>4. ShapedCalls(calls) BY <2>2, <2>3 DEF Shaped, ShapedCalls
  <2>5. report_call(v, info) = changed(v, calls) BY <1>1, <1>2, <2>1, <2>2 DEF report_call
  <2> QED BY <2>3, <2>4, <2>5, ChangedLeads
<1>3. CASE S = {} /\ IsNew(info)
  <2>1. PICK call : call = create_incoming_call(info) OBVIOUS
  <2>2. DOMAIN call = CallFields /\ call.state \notin InCall BY <1>3, <2>1, CreatedShape
  <2>3. PICK new : new = <<call>> OBVIOUS
  <2>4. DOMAIN new = 1 .. 1 /\ Len(new) = 1 /\ new[1] = call BY <2>3
  <2>5. report_call(v, info) = add_calls(v, <<create_incoming_call(info)>>)
    BY <1>1, <1>3 DEF report_call
  <2>6. report_call(v, info) = add_calls(v, new) BY <2>1, <2>3, <2>5
  <2>7. \A k \in 1 .. 1 : DOMAIN new[k] = CallFields /\ new[k].state \notin InCall BY <2>2, <2>4
  <2>8. PICK n \in Nat : n = 1 OBVIOUS
  <2>9. Leads(v, add_calls(v, new)) BY <2>4, <2>7, <2>8, AddCallsLeads
  <2> QED BY <2>6, <2>9
<1>4. CASE S = {} /\ ~IsNew(info) BY <1>1, <1>4, LeadsReflexive DEF report_call
<1> QED BY <1>2, <1>3, <1>4

(* SetToSeq enumerates a finite set.                                        *)
LEMMA SetToSeqElements ==
  ASSUME NEW S, IsFiniteSet(S)
  PROVE  /\ Cardinality(S) \in Nat
         /\ SetToSeq(S) \in [1 .. Cardinality(S) -> S]
<1>1. Cardinality(S) \in Nat /\ ExistsBijection(1 .. Cardinality(S), S) BY FS_CardinalityType
<1>2. \E f \in [1 .. Cardinality(S) -> S] : IsInjective(f)
  BY <1>1 DEF ExistsBijection, Bijection, Injection, IsInjective
<1> QED BY <1>1, <1>2 DEF SetToSeq

(* mm_iface_modem_voice_report_all_calls: whatever lines the calls are        *)
(* matched with.                                                             *)
LEMMA ReportAllLeads ==
  ASSUME NEW v, Shaped(v), NEW lines
  PROVE  Leads(v, report_all_calls(v, lines))
<1>1. PICK taken : taken = LineOf(v, lines) OBVIOUS
<1>2. PICK rest : rest = {l \in Lines : /\ lines[l] # Idle /\ IsNew(Info(l, lines))
                                        /\ \A c \in Ids : taken[c] # l}
  OBVIOUS
<1>3. PICK known : known = [c \in Ids |-> IF c \notin Live(v) THEN v.calls[c]
                                          ELSE IF taken[c] = 0 THEN not_in_list(v.calls[c])
                                          ELSE matched(v.calls[c], Info(taken[c], lines))]
  OBVIOUS
<1>4. PICK order : order = SetToSeq(rest) OBVIOUS
<1>5. PICK new : new = [k \in DOMAIN order |-> create_incoming_call(Info(order[k], lines))] OBVIOUS
<1>6. Leads(v, changed(v, known))
  <2>1. ASSUME NEW c \in Ids PROVE DOMAIN known[c] = CallFields /\ known[c].listed = v.calls[c].listed
    <3>1. DOMAIN v.calls[c] = CallFields BY DEF Shaped, ShapedCalls
    <3>2. known[c] \in {v.calls[c], not_in_list(v.calls[c]), matched(v.calls[c], Info(taken[c], lines))}
      BY <1>3
    <3> QED BY <3>1, <3>2, ChangeStateShape, MatchedShape DEF not_in_list
  <2>2. ShapedCalls(known) BY <1>3, <2>1 DEF Shaped, ShapedCalls
  <2> QED BY <2>1, <2>2, ChangedLeads
<1>7. Leads(changed(v, known), add_calls(changed(v, known), new))
  <2>1. IsFiniteSet(rest) BY <1>2, FS_Subset, VoiceCallsAssumption
  <2>2. Cardinality(rest) \in Nat /\ order \in [1 .. Cardinality(rest) -> rest]
    BY <1>4, <2>1, SetToSeqElements
  <2>3. DOMAIN new = 1 .. Cardinality(rest) BY <1>5, <2>2
  <2>4. Len(new) = Cardinality(rest) BY <2>2, <2>3
  <2>5. ASSUME NEW k \in 1 .. Cardinality(rest)
        PROVE  DOMAIN new[k] = CallFields /\ new[k].state \notin InCall
    <3>1. order[k] \in rest BY <2>2, <2>5
    <3>2. IsNew(Info(order[k], lines)) BY <1>2, <3>1
    <3> QED BY <1>5, <2>2, <2>5, <3>2, CreatedShape
  <2>6. Shaped(changed(v, known)) BY <1>6 DEF Leads
  <2> QED BY <2>2, <2>3, <2>4, <2>5, <2>6, AddCallsLeads
<1>8. report_all_calls(v, lines) = add_calls(changed(v, known), new)
  BY <1>1, <1>2, <1>3, <1>4, <1>5 DEF report_all_calls
<1> QED BY <1>6, <1>7, <1>8, LeadsTransitive

----------------------------------------------------------------------------
(* The actions.                                                             *)
Inv == Settled(voice) /\ Shaped(voice)

(* What follows from an action whose new state the old one leads to.          *)
LEMMA LeadsInv ==
  ASSUME Inv, Leads(voice, voice')
  PROVE  Inv'
BY LeadsKeeps DEF Inv, Leads

(* A change of what is asked of the modem changes no call.                    *)
LEMMA PollingLeads ==
  ASSUME NEW v, Shaped(v), NEW w, DOMAIN w = VoiceFields,
         \A f \in VoiceFields \ {"polling_id", "polling_ongoing", "asked", "events"} : w[f] = v[f]
  PROVE  Leads(v, w)
<1>1. /\ w.calls = v.calls /\ w.created = v.created /\ w.task = v.task
      /\ w.in_call_state = v.in_call_state /\ w.missed = v.missed /\ w.check_id = v.check_id
  BY DEF VoiceFields
<1>2. Shaped(w) BY <1>1 DEF Shaped
<1> QED BY <1>1, <1>2, SameCalls DEF Leads

LEMMA PollPreserves == Inv /\ call_list_poll => Inv'
<1> SUFFICES ASSUME Inv, call_list_poll PROVE Inv' OBVIOUS
<1>1. Shaped(voice) BY DEF Inv
<1>2. /\ DOMAIN voice' = VoiceFields
      /\ \A f \in VoiceFields \ {"polling_id", "polling_ongoing", "asked", "events"} : voice'[f] = voice[f]
  BY <1>1 DEF call_list_poll, Shaped, VoiceFields
<1> QED BY <1>1, <1>2, PollingLeads, LeadsInv

LEMMA LoadPreserves == Inv /\ load_call_list_ready => Inv'
<1> SUFFICES ASSUME Inv, load_call_list_ready PROVE Inv' OBVIOUS
<1> DEFINE Others == VoiceFields \ {"polling_id", "polling_ongoing", "asked", "events"}
<1>1. Shaped(voice) BY DEF Inv
<1>2. PICK v : v = [voice EXCEPT !.polling_ongoing = FALSE, !.asked = [l \in Lines |-> Idle]] OBVIOUS
<1>3. DOMAIN v = VoiceFields /\ \A f \in Others : v[f] = voice[f]
  BY <1>1, <1>2 DEF Shaped, VoiceFields
<1>4. Leads(voice, v) BY <1>1, <1>3, PollingLeads
<1>5. PICK lines, w : /\ w \in {v, report_all_calls(v, lines)}
                      /\ voice' = [w EXCEPT !.polling_id = TRUE]
  BY <1>2, Zenon DEF load_call_list_ready
<1>6. Leads(v, w)
  <2>1. Shaped(v) BY <1>4 DEF Leads
  <2> QED BY <1>5, <2>1, ReportAllLeads, LeadsReflexive
<1>7. Leads(w, voice')
  <2>1. Shaped(w) BY <1>6 DEF Leads
  <2>2. DOMAIN voice' = VoiceFields /\ \A f \in Others : voice'[f] = w[f]
    BY <1>5, <2>1 DEF Shaped, VoiceFields
  <2> QED BY <2>1, <2>2, PollingLeads
<1>8. Leads(voice, w) BY <1>4, <1>6, LeadsTransitive
<1>9. Leads(voice, voice') BY <1>7, <1>8, LeadsTransitive
<1> QED BY <1>9, LeadsInv

(* The check: it starts what is due, or finds a set-up or a clean-up under     *)
(* way, and remembers whether that one has the other aim.                     *)
LEMMA CheckPreserves == Inv /\ call_list_check_in_call_events => Inv'
<1> SUFFICES ASSUME Inv, call_list_check_in_call_events PROVE Inv' OBVIOUS
<1>1. Shaped(voice) /\ Settled(voice) BY DEF Inv
<1>2. PICK due : due = AnyInCall(voice) /\ due \in BOOLEAN
  <2>1. AnyInCall(voice) \in BOOLEAN BY DEF AnyInCall
  <2> QED BY <2>1
<1>3. DOMAIN voice' = VoiceFields /\ voice'.calls = voice.calls /\ voice'.created = voice.created
      /\ voice'.in_call_state = voice.in_call_state /\ voice'.check_id = FALSE
  BY <1>1 DEF call_list_check_in_call_events, Shaped, VoiceFields
<1>4. AnyInCall(voice') <=> due BY <1>2, <1>3, SameCalls
<1>5. \/ /\ voice.task # "no" /\ voice'.task = voice.task
         /\ voice'.missed = (due # (voice.task = "setup"))
      \/ /\ voice.task = "no" /\ due /\ ~voice.in_call_state
         /\ voice'.task = "setup" /\ voice'.missed = FALSE
      \/ /\ voice.task = "no" /\ ~due /\ voice.in_call_state
         /\ voice'.task = "cleanup-audio" /\ voice'.missed = FALSE
      \/ /\ voice.task = "no" /\ due = voice.in_call_state
         /\ voice'.task = "no" /\ voice'.missed = FALSE
  <2>1. voice.in_call_state \in BOOLEAN BY <1>1 DEF Shaped
  <2>2. DOMAIN voice = VoiceFields BY <1>1 DEF Shaped
  <2>3. CASE voice.task # "no" BY <1>2, <2>2, <2>3 DEF call_list_check_in_call_events, VoiceFields
  <2>4. CASE voice.task = "no" /\ due /\ ~voice.in_call_state
    BY <1>2, <2>2, <2>4 DEF call_list_check_in_call_events, VoiceFields
  <2>5. CASE voice.task = "no" /\ ~due /\ voice.in_call_state
    BY <1>2, <2>2, <2>5 DEF call_list_check_in_call_events, VoiceFields
  <2>6. CASE voice.task = "no" /\ due = voice.in_call_state
    BY <1>2, <2>1, <2>2, <2>6 DEF call_list_check_in_call_events, VoiceFields
  <2> QED BY <1>2, <2>1, <2>3, <2>4, <2>5, <2>6
<1>6. Shaped(voice') BY <1>1, <1>2, <1>3, <1>5 DEF Shaped
<1>7. Settled(voice') BY <1>1, <1>2, <1>3, <1>4, <1>5 DEF Settled, Aim, Shaped
<1> QED BY <1>6, <1>7 DEF Inv

(* The answers of the set-up and of the clean-up.                             *)
LEMMA TaskPreserves ==
  Inv /\ (in_call_setup_ready \/ cleanup_in_call_audio_channel_ready \/ in_call_cleanup_ready) => Inv'
<1> SUFFICES ASSUME Inv, \/ in_call_setup_ready \/ cleanup_in_call_audio_channel_ready
                         \/ in_call_cleanup_ready
             PROVE Inv'
  OBVIOUS
<1>1. Shaped(voice) /\ Settled(voice) BY DEF Inv
<1>2. /\ DOMAIN voice' = VoiceFields /\ voice'.calls = voice.calls
      /\ voice'.created = voice.created /\ voice'.check_id = voice.check_id
      /\ voice'.missed = voice.missed
      /\ \/ voice.task = "setup" /\ voice'.task = "no" /\ voice'.in_call_state = TRUE
         \/ /\ voice.task = "cleanup-audio" /\ voice'.task = "cleanup"
            /\ voice'.in_call_state = voice.in_call_state
         \/ voice.task = "cleanup" /\ voice'.task = "no" /\ voice'.in_call_state = FALSE
  BY <1>1 DEF in_call_setup_ready, cleanup_in_call_audio_channel_ready, in_call_cleanup_ready,
              setup_call_list_polling, Shaped, VoiceFields
<1>3. AnyInCall(voice') <=> AnyInCall(voice) BY <1>2, SameCalls
<1>4. Shaped(voice') BY <1>1, <1>2 DEF Shaped
<1>5. Settled(voice') BY <1>1, <1>2, <1>3 DEF Settled, Aim
<1> QED BY <1>4, <1>5 DEF Inv

(* Requests to a call, and what answers them.                                 *)
LEMMA CallPreserves ==
  ASSUME Inv, NEW c \in Ids,
         \/ handle_start(c) \/ handle_accept(c) \/ handle_deflect(c) \/ handle_hangup(c)
         \/ handle_ready(c) \/ incoming_timeout_cb(c)
  PROVE  Inv'
<1>1. Shaped(voice) BY DEF Inv
<1>2. \A command : Leads(voice, Asks(c, command))
  <2> TAKE command
  <2>1. PICK x : x = voice.calls[c].busy \union {command} OBVIOUS
  <2>2. PICK w : w = Asks(c, command) OBVIOUS
  <2>3. w = [voice EXCEPT !.calls[c].busy = x]
    BY <1>1, <2>1, <2>2 DEF Asks, Shaped, ShapedCalls, VoiceFields, CallFields, NewCall
  <2>4. Leads(voice, w) BY <1>1, <2>3, FieldLeads
  <2> QED BY <2>2, <2>4
<1>3. CASE handle_start(c)
  <2>0. PICK v \in {voice, Asks(c, "start")} : \E S, new : voice' = change_states(v, S, new)
    BY <1>3 DEF handle_start
  <2>1. PICK S, new : voice' = change_states(v, S, new)
    BY <2>0
  <2>2. Leads(voice, v) BY <1>1, <1>2, <2>0, LeadsReflexive
  <2>3. Leads(v, voice') BY <2>1, <2>2, ChangeStatesLeads DEF Leads
  <2> QED BY <2>2, <2>3, LeadsTransitive, LeadsInv
<1>4. CASE handle_accept(c) \/ handle_deflect(c) \/ handle_hangup(c)
  <2>1. \E command : voice' = Asks(c, command)
    BY <1>4 DEF handle_accept, handle_deflect, handle_hangup
  <2> QED BY <1>2, <2>1, LeadsInv
<1>5. CASE handle_ready(c)
  <2>1. PICK busy, timer, S, new :
           voice' = change_states([voice EXCEPT !.calls[c].busy = busy, !.calls[c].timer = timer], S, new)
    BY <1>5, Zenon DEF handle_ready
  <2>2. PICK u : u = [voice EXCEPT !.calls[c].busy = busy] OBVIOUS
  <2>3. PICK v : v = [u EXCEPT !.calls[c].timer = timer] OBVIOUS
  <2>4. Leads(voice, u) BY <1>1, <2>2, FieldLeads
  <2>5. Leads(u, v)
    <3>1. Shaped(u) BY <2>4 DEF Leads
    <3> QED BY <2>3, <3>1, FieldLeads
  <2>6. voice' = change_states(v, S, new)
    <3>1. v = [voice EXCEPT !.calls[c].busy = busy, !.calls[c].timer = timer]
      BY <1>1, <2>2, <2>3 DEF Shaped, VoiceFields, ShapedCalls
    <3> QED BY <2>1, <3>1
  <2>7. Leads(v, voice')
    <3>1. Shaped(v) BY <2>5 DEF Leads
    <3> QED BY <2>6, <3>1, ChangeStatesLeads
  <2>8. Leads(u, voice') BY <2>5, <2>7, LeadsTransitive
  <2> QED BY <2>4, <2>8, LeadsTransitive, LeadsInv
<1>6. CASE incoming_timeout_cb(c)
  <2>1. PICK v : v = [voice EXCEPT !.calls[c].timer = FALSE] OBVIOUS
  <2>2. Leads(voice, v) BY <1>1, <2>1, FieldLeads
  <2>3. voice' = change_states(v, {c}, "terminated") BY <1>6, <2>1 DEF incoming_timeout_cb
  <2>4. Leads(v, voice') BY <2>2, <2>3, ChangeStatesLeads DEF Leads
  <2> QED BY <2>2, <2>4, LeadsTransitive, LeadsInv
<1> QED BY <1>3, <1>4, <1>5, <1>6

(* Creating a call, and deleting one: the second makes no check due.          *)
LEMMA CreatePreserves ==
  ASSUME Inv, NEW l \in Lines, handle_create(l)
  PROVE  Inv'
<1>1. Shaped(voice) BY DEF Inv
<1>2. PICK call : call = [NewCall EXCEPT !.direction = "outgoing", !.number = l] OBVIOUS
<1>3. DOMAIN call = CallFields /\ call.state \notin InCall BY <1>2 DEF CallFields, NewCall, InCall
<1>4. PICK new : new = <<call>> OBVIOUS
<1>5. DOMAIN new = 1 .. 1 /\ Len(new) = 1 /\ new[1] = call BY <1>4
<1>6. \A k \in 1 .. 1 : DOMAIN new[k] = CallFields /\ new[k].state \notin InCall BY <1>3, <1>5
<1>7. PICK n \in Nat : n = 1 OBVIOUS
<1>8. Leads(voice, add_calls(voice, new)) BY <1>1, <1>5, <1>6, <1>7, AddCallsLeads
<1>9. voice' = add_calls(voice, new) BY <1>2, <1>4 DEF handle_create
<1> QED BY <1>8, <1>9, LeadsInv

LEMMA DeletePreserves ==
  ASSUME Inv, NEW c \in Ids, handle_delete(c)
  PROVE  Inv'
<1>1. Shaped(voice) /\ Settled(voice) BY DEF Inv
<1>2. PICK call : call = [voice.calls[c] EXCEPT !.listed = FALSE] OBVIOUS
<1>3. DOMAIN call = CallFields /\ call.listed = FALSE /\ call.state = voice.calls[c].state
  BY <1>1, <1>2 DEF Shaped, ShapedCalls, CallFields, NewCall
<1>4. /\ DOMAIN voice' = VoiceFields /\ voice'.calls = [voice.calls EXCEPT ![c] = call]
      /\ voice'.created = voice.created /\ voice'.check_id = voice.check_id
      /\ voice'.task = voice.task /\ voice'.in_call_state = voice.in_call_state
      /\ voice'.missed = (voice.missed \/ voice.calls[c].state \in InCall)
  BY <1>1, <1>2 DEF handle_delete, Shaped, ShapedCalls, VoiceFields
<1>5. Shaped(voice') BY <1>1, <1>3, <1>4 DEF Shaped, ShapedCalls
<1>6. ~voice'.missed => ~voice.missed /\ (AnyInCall(voice') <=> AnyInCall(voice))
  <2> SUFFICES ASSUME ~voice'.missed PROVE ~voice.missed /\ (AnyInCall(voice') <=> AnyInCall(voice))
    OBVIOUS
  <2>1. ~voice.missed /\ voice.calls[c].state \notin InCall BY <1>4
  <2>2. \A k \in Ids : voice'.calls[k].listed /\ voice'.calls[k].state \in InCall
                        <=> voice.calls[k].listed /\ voice.calls[k].state \in InCall
    BY <1>1, <1>3, <1>4, <2>1 DEF Shaped, ShapedCalls
  <2> QED BY <2>1, <2>2 DEF AnyInCall, ListedIn, Listed
<1>7. Settled(voice') BY <1>1, <1>4, <1>6 DEF Settled, Aim
<1> QED BY <1>5, <1>7 DEF Inv

(* The operations of the Voice interface change the calls of their plan.      *)
LEMMA OperationPreserves == Inv /\ voice_operation_ready => Inv'
<1> SUFFICES ASSUME Inv, voice_operation_ready PROVE Inv' OBVIOUS
<1>1. Shaped(voice) BY DEF Inv
<1>2. PICK u : u = change_states(voice, op.held, "held") OBVIOUS
<1>3. PICK v : v = change_states(u, op.terminated, "terminated") OBVIOUS
<1>4. PICK w : w = change_states(v, op.active, "active") OBVIOUS
<1>5. Leads(voice, u) BY <1>1, <1>2, ChangeStatesLeads
<1>6. Leads(u, v) BY <1>3, <1>5, ChangeStatesLeads DEF Leads
<1>7. Leads(v, w) BY <1>4, <1>6, ChangeStatesLeads DEF Leads
<1>8. Leads(voice, v) BY <1>5, <1>6, LeadsTransitive
<1>9. Leads(voice, w) BY <1>7, <1>8, LeadsTransitive
<1>10. voice' \in {voice, w} BY <1>2, <1>3, <1>4 DEF voice_operation_ready
<1> QED BY <1>1, <1>9, <1>10, LeadsReflexive, LeadsInv

(* The modem reports rings and, while it is set up for it, ends of calls.     *)
LEMMA LinePreserves ==
  ASSUME Inv, NEW l \in Lines, LineChanges(l) \/ Rings(l)
  PROVE  Inv'
<1>1. Shaped(voice) BY DEF Inv
<1>2. \E info : voice' \in {voice, report_call(voice, info)}
  <2>1. CASE LineChanges(l) BY <2>1 DEF LineChanges
  <2>2. CASE Rings(l) BY <2>2 DEF Rings
  <2> QED BY <2>1, <2>2
<1> QED BY <1>1, <1>2, ReportCallLeads, LeadsReflexive, LeadsInv

LEMMA NextPreserves == Inv /\ [Next]_vars => Inv'
<1> SUFFICES ASSUME Inv, [Next]_vars PROVE Inv' OBVIOUS
<1>1. CASE UNCHANGED vars \/ handle_voice_operation
  <2>1. voice' = voice BY <1>1 DEF vars, handle_voice_operation
  <2> QED BY <2>1 DEF Inv
<1>2. CASE Next /\ ~handle_voice_operation
  BY <1>2, PollPreserves, LoadPreserves, CheckPreserves, TaskPreserves, CallPreserves,
     CreatePreserves, DeletePreserves, OperationPreserves, LinePreserves DEF Next
<1> QED BY <1>1, <1>2

LEMMA InitEstablishes == Init => Inv
<1> SUFFICES ASSUME Init PROVE Inv OBVIOUS
<1>1. /\ DOMAIN voice = VoiceFields /\ voice.calls = [c \in Ids |-> NewCall] /\ voice.created = 0
      /\ voice.task = "no" /\ voice.in_call_state = FALSE /\ voice.check_id = FALSE
      /\ voice.missed = FALSE
  <2>1. PICK calls, asked :
           /\ calls = [c \in Ids |-> NewCall]
           /\ voice = [calls |-> calls, created |-> 0, polling_id |-> FALSE, polling_ongoing |-> FALSE,
                       asked |-> asked, check_id |-> FALSE, task |-> "no", in_call_state |-> FALSE,
                       events |-> FALSE, missed |-> FALSE]
    BY Zenon DEF Init
  <2> QED BY <2>1 DEF VoiceFields
<1>2. ShapedCalls(voice.calls)
  <2>1. NewCall.listed = FALSE BY DEF NewCall
  <2> QED BY <1>1, <2>1 DEF ShapedCalls, CallFields
<1>3. \A c \in Ids : voice.calls[c].listed = FALSE BY <1>1 DEF NewCall
<1>4. Shaped(voice)
  <2>1. 0 \in 0 .. MaxCalls BY VoiceCallsAssumption
  <2> QED BY <1>1, <1>2, <1>3, <2>1 DEF Shaped
<1>5. ~AnyInCall(voice) BY <1>3 DEF AnyInCall, ListedIn, Listed
<1> QED BY <1>1, <1>4, <1>5 DEF Inv, Settled, Aim

(* The inductive invariant, for any number of lines and calls.                *)
THEOREM Invariance == Spec => []IInv
<1>1. Inv => IInv BY DEF Inv, IInv, Shaped
<1> QED BY <1>1, InitEstablishes, NextPreserves, PTL DEF Spec

(* The modem is set up for a call exactly when a listed call is in progress,   *)
(* once nothing is under way (call_list_check_in_call_events and the answers   *)
(* of in_call_setup and in_call_cleanup), unless a check was missed.           *)
THEOREM SpecInCallIsDue == Spec => []InCallIsDue
<1>1. IInv => InCallIsDue BY DEF IInv, Settled, Aim, InCallIsDue
<1> QED BY <1>1, Invariance, PTL
=============================================================================
