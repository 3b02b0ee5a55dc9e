--------------------------- MODULE ModemStateProofs ---------------------------
(***************************************************************************)
(* Proofs about ModemState.                                                 *)
(***************************************************************************)
EXTENDS ModemState, SequenceTheorems, TLAPS

----------------------------------------------------------------------------
(* The inductive invariant.                                                *)

(* MM_MODEM_STATE_ENABLED and above; the states of a modem without          *)
(* connections among them; final states.                                    *)
Up     == {"enabled", "searching", "registered", "disconnecting", "connecting", "connected"}
Plain  == {"enabled", "searching", "registered"}
Final  == {"disabled", "enabled", "searching", "registered", "connected"}

(* What a bearer's attempt, its end and who asked for it have in common.     *)
BearerOK(r) ==
  /\ r.status \in {"connecting", "disconnecting"} => r.dialing \/ r.hanging # "no"
  /\ r.status = "connecting" => r.dialing
  /\ r.dialing => r.status \in {"connecting", "disconnecting"} /\ r.hanging = "no"
  /\ r.dialing /\ r.status = "disconnecting" => r.cancelled
  /\ r.hanging # "no" => r.status = "disconnecting"
  /\ r.by # None => r.status = "disconnecting"
  /\ r.connect # None => r.dialing

BearersOK(m) ==
  \A b \in Bearers : /\ BearerOK(m.bearers[b])
                     /\ m.bearers[b].status # "disconnected" => b \in Listed(m)

(* The state shows which sequence is under way.                             *)
Undertaken(m) == IF m.op.step = "waiting" THEN "none" ELSE m.op.kind

OpOK(m) ==
  /\ m.op.kind = "none" => m.op = NoOp
  /\ m.op.step = "none" => m.op.kind = "none"
  /\ m.op.step = "waiting" => m.op.previous = "unknown" /\ (m.op.seen # None \/ "op" \in m.waiters)
  /\ m.op.seen # None => m.op.step = "waiting" /\ "op" \notin m.waiters /\ m.op.seen \notin Intermediate
  /\ "op" \in m.waiters => m.op.step = "waiting"
  /\ m.state = "enabling" <=> Undertaken(m) = "enable"
  /\ m.state = "disabling" <=> Undertaken(m) = "disable"
  /\ Undertaken(m) = "enable" => m.op.step \in {"starting", "modem", "threegpp", "undoing"}
                                 /\ m.op.previous = "disabled"
  /\ Undertaken(m) = "disable" => m.op.step \in {"bearers", "threegpp"}
                                  /\ m.op.previous \in Final \ {"disabled"}

(* A Simple.Connect waits for a state, has a result under way, or does       *)
(* something else.                                                          *)
ConnectOK(m, c) ==
  LET r == m.connects[c]
  IN  /\ c \in m.waiters <=> r.step \in {"initialized", "enabled"} /\ r.seen = None
      /\ r.seen # None => r.step \in {"initialized", "enabled"} /\ r.seen \notin Intermediate
      /\ r.seen # None /\ r.step = "initialized" => r.seen = "disabled"
      /\ r.step = "enabling" <=> m.op.by = c
      /\ r.cancellable <=> r.step \notin {"idle", "connect"}
      /\ r.cancelled => r.cancellable
      /\ r.step = "connect" <=> r.bearer # None

ConnectsOK(m) ==
  /\ \A c \in Connects : ConnectOK(m, c)
  /\ m.ahead \subseteq m.waiters /\ (m.ahead # {} => "op" \in m.waiters)
  /\ m.op.by # None => m.op.kind = "enable"
  /\ m.ongoing # None => m.connects[m.ongoing].cancellable /\ ~m.connects[m.ongoing].cancelled

(* A Simple.Connect waits for its bearer exactly when the bearer knows it;    *)
(* those in X have just been answered.                                       *)
DialsOK(m, X) ==
  /\ \A c \in Connects :
       IF c \in X THEN m.connects[c].step = "connect"
       ELSE m.connects[c].step = "connect" => m.bearers[m.connects[c].bearer].connect = c
  /\ \A b \in Bearers :
       m.bearers[b].connect # None =>
         /\ m.bearers[b].connect \notin X /\ m.connects[m.bearers[b].connect].step = "connect"
         /\ m.connects[m.bearers[b].connect].bearer = b

(* A disconnection of the list waits for one bearer or an answer.            *)
ListOK(m, w) ==
  /\ ~m.lists[w].busy => m.lists[w] = NoList /\ \A b \in Bearers : m.bearers[b].by # w
  /\ m.lists[w].busy => m.lists[w].answer # "none" \/ \E b \in Bearers : m.bearers[b].by = w
  /\ \A b \in Bearers : m.bearers[b].by = w => m.lists[w].answer = "none"
  /\ \A a, b \in Bearers : m.bearers[a].by = w /\ m.bearers[b].by = w => a = b

(* It is about to take the next one.                                         *)
Owed(m, w) == m.lists[w].busy /\ \A b \in Bearers : m.bearers[b].by # w

(* Those in S are.                                                           *)
ListsOK(m, S) == \A w \in {"op", "user"} : IF w \in S THEN Owed(m, w) ELSE ListOK(m, w)

LinkOK(m) == m.op.step = "bearers" <=> m.lists["op"].busy

ReloadOK(m) == m.reloads \in 0 .. 1 /\ (m.reloads > 0 => m.reloading)

Sound(m, X) ==
  m \in ModemType /\ BearersOK(m) /\ ConnectsOK(m) /\ DialsOK(m, X) /\ ReloadOK(m)

Fine(m, X, S) == Sound(m, X) /\ OpOK(m) /\ ListsOK(m, S) /\ LinkOK(m)

ConnectsSleep(m) == \A c \in Connects \intersect m.waiters : ~Wanted(m, c)
OpSleeps(m)      == "op" \in m.waiters => ~Wanted(m, "op")
AllSleep(m)      == ConnectsSleep(m) /\ OpSleeps(m)

IInv == Fine(modem, {}, {}) /\ AllSleep(modem) /\ inputs \in 0 .. MaxInputs /\ strayed \in BOOLEAN

----------------------------------------------------------------------------
(* Records and levels.                                                     *)
LEMMA StateSet ==
  ToSet(States) = {"unknown", "disabled", "disabling", "enabling", "enabled", "searching",
                   "registered", "disconnecting", "connecting", "connected"}
BY DEF ToSet, States

(* The states are ordered as MMModemState is.                               *)
LEMMA Levels ==
  /\ Level("unknown") = 1 /\ Level("disabled") = 2 /\ Level("disabling") = 3 /\ Level("enabling") = 4
  /\ Level("enabled") = 5 /\ Level("searching") = 6 /\ Level("registered") = 7
  /\ Level("disconnecting") = 8 /\ Level("connecting") = 9 /\ Level("connected") = 10
BY DEF Level, States

(* The comparisons the code makes, as sets of states.                       *)
LEMMA LevelsUp ==
  ASSUME NEW s \in ToSet(States)
  PROVE  /\ Level(s) >= Level("enabled") <=> s \in Up
         /\ Level(s) < Level("enabled") <=> s \notin Up
         /\ Level(s) > Level("registered") <=> s \in {"disconnecting", "connecting", "connected"}
         /\ Level(s) >= Level("disabled") <=> s # "unknown"
BY StateSet, Levels DEF Up

(* Everything but the state, the waits and connects, the operation, the      *)
(* bearers, the list's disconnections, the registration stays.              *)
SameState(m, y)   == y.state = m.state /\ y.restored = m.restored
SameWaits(m, y)   == /\ y.waiters = m.waiters /\ y.ahead = m.ahead
                     /\ y.ongoing = m.ongoing /\ y.connects = m.connects
SameOp(m, y)      == y.op = m.op
SameBearers(m, y) == y.list = m.list /\ y.bearers = m.bearers
SameLists(m, y)   == y.lists = m.lists
SameNetwork(m, y) == /\ y.subsystem = m.subsystem /\ y.enabled = m.enabled
                     /\ y.registration = m.registration
                     /\ y.reloading = m.reloading /\ y.reloads = m.reloads

OnlyState(m, y) == SameWaits(m, y) /\ SameOp(m, y) /\ SameBearers(m, y) /\ SameLists(m, y) /\ SameNetwork(m, y)
OnlyWaits(m, y) == SameState(m, y) /\ SameOp(m, y) /\ SameBearers(m, y) /\ SameLists(m, y) /\ SameNetwork(m, y)
OnlyOp(m, y)    == SameState(m, y) /\ SameWaits(m, y) /\ SameBearers(m, y) /\ SameLists(m, y) /\ SameNetwork(m, y)
OnlyBearers(m, y) == SameState(m, y) /\ SameWaits(m, y) /\ SameOp(m, y) /\ SameLists(m, y) /\ SameNetwork(m, y)
OnlyLists(m, y) == SameState(m, y) /\ SameWaits(m, y) /\ SameOp(m, y) /\ SameBearers(m, y) /\ SameNetwork(m, y)

WithState(m, s, r)       == [m EXCEPT !.state = s, !.restored = r]
WithOp(m, o)             == [m EXCEPT !.op = o]
WithWaits(m, k, a, o, r) == [m EXCEPT !.waiters = k, !.ahead = a, !.ongoing = o, !.connects = r]
WithBearers(m, l, k)     == [m EXCEPT !.list = l, !.bearers = k]
WithLists(m, k)          == [m EXCEPT !.lists = k]

(* A state change leaves all else alone.                                    *)
LEMMA PutState ==
  ASSUME NEW m \in ModemType, NEW s \in ToSet(States), NEW r \in BOOLEAN,
         NEW y, y = WithState(m, s, r)
  PROVE  /\ y \in ModemType /\ y.state = s /\ y.restored = r
         /\ OnlyState(m, y)
BY DEF WithState, ModemType, OnlyState, SameWaits, SameOp, SameBearers, SameLists, SameNetwork

(* So does a step of the sequence,                                          *)
LEMMA PutOp ==
  ASSUME NEW m \in ModemType, NEW o \in OpType, NEW y, y = WithOp(m, o)
  PROVE  /\ y \in ModemType /\ y.op = o
         /\ OnlyOp(m, y)
BY DEF WithOp, ModemType, OnlyOp, SameState, SameWaits, SameBearers, SameLists, SameNetwork

(* of the waits and attempts,                                               *)
LEMMA PutWaits ==
  ASSUME NEW m \in ModemType, NEW k \in SUBSET Waiters, NEW a \in SUBSET Connects,
         NEW o \in Connects \union {None}, NEW r \in [Connects -> ConnectType],
         NEW y, y = WithWaits(m, k, a, o, r)
  PROVE  /\ y \in ModemType /\ y.waiters = k /\ y.ahead = a /\ y.ongoing = o /\ y.connects = r
         /\ OnlyWaits(m, y)
BY DEF WithWaits, ModemType, OnlyWaits, SameState, SameOp, SameBearers, SameLists, SameNetwork

(* of the bearers,                                                          *)
LEMMA PutBearers ==
  ASSUME NEW m \in ModemType, NEW l \in Seq(Bearers), NEW k \in [Bearers -> BearerType],
         NEW y, y = WithBearers(m, l, k)
  PROVE  /\ y \in ModemType /\ y.list = l /\ y.bearers = k
         /\ OnlyBearers(m, y)
BY DEF WithBearers, ModemType, OnlyBearers, SameState, SameWaits, SameOp, SameLists, SameNetwork

(* and of the disconnections of the list.                                   *)
LEMMA PutLists ==
  ASSUME NEW m \in ModemType, NEW k \in [{"op", "user"} -> ListType],
         NEW y, y = WithLists(m, k)
  PROVE  /\ y \in ModemType /\ y.lists = k
         /\ OnlyLists(m, y)
BY DEF WithLists, ModemType, OnlyLists, SameState, SameWaits, SameOp, SameBearers, SameNetwork

----------------------------------------------------------------------------
(* The state property.                                                      *)
LEMMA SetStateEffect ==
  ASSUME NEW m \in ModemType, NEW s \in ToSet(States), NEW y, y = SetState(m, s)
  PROVE  /\ y \in ModemType
         /\ OnlyState(m, y)
         /\ y.restored = (m.restored /\ s # "disabled")
         /\ s \notin Plain => y.state = s
         /\ s \in Plain =>
              \/ y.state \in Plain
              \/ /\ y.state = m.state /\ m.state \in {"disconnecting", "connecting", "connected"}
                 /\ Connected(m) # {}
         /\ s \in Plain /\ m.state = "connected" /\ Connected(m) # {} => y.state = "connected"
<1>1. PICK kept \in BOOLEAN :
        kept = (/\ s \in Plain
                /\ m.state \in {"disconnecting", "connecting", "connected"}
                /\ Connected(m) # {})
  OBVIOUS
<1>2. PICK t : t = IF kept THEN m.state ELSE IF s = "enabled" THEN m.subsystem ELSE s
  OBVIOUS
<1>3. PICK r \in BOOLEAN : r = (m.restored /\ s # "disabled")
  OBVIOUS
<1>4. t \in ToSet(States) /\ r \in BOOLEAN /\ m.state \in ToSet(States)
  BY <1>2, <1>3, StateSet DEF ModemType
<1>5. y = WithState(m, t, r)
  <2>1. kept = (/\ s \in {"enabled", "searching", "registered"}
                /\ Level(m.state) > Level("registered")
                /\ Connected(m) # {})
    BY <1>1, <1>4, LevelsUp DEF Plain
  <2> QED BY <1>2, <1>3, <2>1 DEF SetState, WithState
<1>6. y \in ModemType BY ONLY <1>4, <1>5, PutState, m \in ModemType
<1>7. y.state = t BY ONLY <1>4, <1>5, PutState, m \in ModemType
<1>8. y.restored = r BY ONLY <1>4, <1>5, PutState, m \in ModemType
<1>9. OnlyState(m, y) BY ONLY <1>4, <1>5, PutState, m \in ModemType
<1>10. m.subsystem \in Plain BY DEF ModemType, Plain
<1> QED BY <1>1, <1>2, <1>3, <1>6, <1>10, <1>7, <1>8, <1>9 DEF Plain

----------------------------------------------------------------------------
(* Simple.Connect: one attempt moves.                                       *)
LEMMA Nothing ==
  NoAttempt \in ConnectType /\ NoOp \in OpType /\ NoList \in ListType
BY StateSet DEF NoAttempt, ConnectType, Steps, NoOp, OpType, NoList, ListType

(* The attempts but c are as they should be; c is between two steps.        *)
ConnectsBut(m, c) ==
  /\ \A d \in Connects \ {c} : ConnectOK(m, d)
  /\ m.ahead \subseteq m.waiters /\ (m.ahead # {} => "op" \in m.waiters)
  /\ m.op.by # None => m.op.kind = "enable"
  /\ m.ongoing # None => m.connects[m.ongoing].cancellable /\ ~m.connects[m.ongoing].cancelled

Free(m, c) ==
  /\ c \notin m.waiters /\ m.op.by # c
  /\ m.connects[c].seen = None /\ m.connects[c].cancellable /\ m.connects[c].bearer = None

PutConnect(m, c, r) == [m.connects EXCEPT ![c] = r]

(* Nothing but connect c moves, which waits no more or for the first time.   *)
Moved(m, y, c) ==
  /\ y \in ModemType /\ OnlyWaits(m, y)
  /\ y.waiters \ {c} = m.waiters \ {c} /\ y.ahead \subseteq m.ahead
  /\ \A d \in Connects \ {c} : y.connects[d] = m.connects[d]
  /\ y.ongoing = m.ongoing \/ y.ongoing = None
  /\ y.connects[c].step # "connect" /\ y.connects[c].step # "enabling"

(* Who dials what is a matter of attempts and bearers only.                 *)
LEMMA DialsSame ==
  ASSUME NEW m, NEW y, y.connects = m.connects, y.bearers = m.bearers, NEW X, DialsOK(m, X)
  PROVE  DialsOK(y, X)
<1>1. \A c \in Connects :
        IF c \in X THEN y.connects[c].step = "connect"
        ELSE y.connects[c].step = "connect" => y.bearers[y.connects[c].bearer].connect = c
  BY Zenon DEF DialsOK
<1>2. \A b \in Bearers :
        y.bearers[b].connect # None =>
          /\ y.bearers[b].connect \notin X /\ y.connects[y.bearers[b].connect].step = "connect"
          /\ y.connects[y.bearers[b].connect].bearer = b
  BY Zenon DEF DialsOK
<1> QED BY <1>1, <1>2, Zenon DEF DialsOK

(* Nor does it matter what else an attempt does.                            *)
LEMMA DialsLike ==
  ASSUME NEW m \in ModemType, NEW y, y.bearers = m.bearers,
         \A c \in Connects : /\ y.connects[c].step = "connect" <=> m.connects[c].step = "connect"
                             /\ m.connects[c].step = "connect" =>
                                  y.connects[c].bearer = m.connects[c].bearer,
         NEW X, DialsOK(m, X)
  PROVE  DialsOK(y, X)
<1>1. ASSUME NEW c \in Connects
      PROVE  IF c \in X THEN y.connects[c].step = "connect"
             ELSE y.connects[c].step = "connect" => y.bearers[y.connects[c].bearer].connect = c
  BY DEF DialsOK
<1>2. ASSUME NEW b \in Bearers, y.bearers[b].connect # None
      PROVE  /\ y.bearers[b].connect \notin X /\ y.connects[y.bearers[b].connect].step = "connect"
             /\ y.connects[y.bearers[b].connect].bearer = b
  <2>1. PICK c : c = m.bearers[b].connect OBVIOUS
  <2>2. c \in Connects BY <1>2, <2>1 DEF ModemType, BearerType
  <2>3. c \notin X /\ m.connects[c].step = "connect" /\ m.connects[c].bearer = b
    BY <1>2, <2>1 DEF DialsOK
  <2> QED BY <2>1, <2>2, <2>3
<1> QED BY <1>1, <1>2, Zenon DEF DialsOK

(* When an attempt moved and is right, all are.                             *)
LEMMA MovedOK ==
  ASSUME NEW m \in ModemType, NEW c \in Connects, NEW y, NEW X, ConnectsBut(m, c), Moved(m, y, c),
         ConnectOK(y, c), c \in y.ahead => c \in y.waiters,
         y.ongoing = c => y.connects[c].cancellable /\ ~y.connects[c].cancelled
  PROVE  /\ ConnectsOK(y)
         /\ DialsOK(m, X) /\ (m.connects[c].step = "connect" => c \in X) => DialsOK(y, X \ {c})
<1>1. y.op = m.op /\ y.bearers = m.bearers
  BY DEF Moved, OnlyWaits, SameOp, SameBearers
<1>2. ConnectsOK(y)
  <2>1. \A d \in Connects \ {c} : ConnectOK(y, d)
    BY <1>1, ModemStateAssumption DEF Moved, ConnectsBut, ConnectOK
  <2>2. y.ahead \subseteq y.waiters
    BY DEF Moved, ConnectsBut
  <2>3. y.ahead # {} => "op" \in y.waiters
    BY ModemStateAssumption, <2>2 DEF Moved, ConnectsBut, ModemType
  <2>4. y.ongoing # None => y.connects[y.ongoing].cancellable /\ ~y.connects[y.ongoing].cancelled
    BY DEF Moved, ConnectsBut, ModemType
  <2> QED BY <1>1, <2>1, <2>2, <2>3, <2>4 DEF ConnectsOK, ConnectsBut
<1>3. DialsOK(m, X) /\ (m.connects[c].step = "connect" => c \in X) => DialsOK(y, X \ {c})
  <2> SUFFICES ASSUME DialsOK(m, X), m.connects[c].step = "connect" => c \in X
               PROVE  DialsOK(y, X \ {c})
    OBVIOUS
  <2>1. \A d \in Connects :
          IF d \in X \ {c} THEN y.connects[d].step = "connect"
          ELSE y.connects[d].step = "connect" => y.bearers[y.connects[d].bearer].connect = d
    BY <1>1 DEF Moved, DialsOK
  <2>2. ASSUME NEW b \in Bearers, y.bearers[b].connect # None
        PROVE  /\ y.bearers[b].connect \notin X \ {c} /\ y.connects[y.bearers[b].connect].step = "connect"
               /\ y.connects[y.bearers[b].connect].bearer = b
    <3>1. m.bearers[b].connect \in Connects \union {None} BY DEF ModemType, BearerType
    <3> QED BY <1>1, <2>2, <3>1 DEF Moved, DialsOK
  <2> QED BY <2>1, <2>2 DEF DialsOK
<1> QED BY <1>2, <1>3

(* connection_context_free: the attempt is idle and waits for nothing.      *)
LEMMA EndConnectEffect ==
  ASSUME NEW m \in ModemType, NEW c \in Connects, NEW y, y = EndConnect(m, c)
  PROVE  /\ Moved(m, y, c) /\ c \notin y.waiters /\ y.connects[c] = NoAttempt
         /\ y.ongoing = m.ongoing \/ y.ongoing = None
         /\ m.connects[c].cancellable => y.ongoing = None
<1>1. PICK o : o = IF m.connects[c].cancellable THEN None ELSE m.ongoing
  OBVIOUS
<1>2. o \in Connects \union {None}
  BY <1>1 DEF ModemType
<1>3. c # "op" BY ModemStateAssumption
<1>4. y = WithWaits(m, m.waiters \ {c}, m.ahead \ {c}, o, PutConnect(m, c, NoAttempt))
  BY <1>1, <1>3 DEF EndConnect, StopWaiting, WithWaits, PutConnect, ModemType
<1>5. /\ m.waiters \ {c} \in SUBSET Waiters /\ m.ahead \ {c} \in SUBSET Connects
      /\ PutConnect(m, c, NoAttempt) \in [Connects -> ConnectType]
  BY Nothing DEF ModemType, PutConnect
<1>6. y \in ModemType BY ONLY <1>2, <1>4, <1>5, PutWaits, m \in ModemType
<1>7. y.waiters = m.waiters \ {c} /\ y.ahead = m.ahead \ {c}
  BY ONLY <1>2, <1>4, <1>5, PutWaits, m \in ModemType
<1>8. y.ongoing = o BY ONLY <1>2, <1>4, <1>5, PutWaits, m \in ModemType
<1>9. y.connects = PutConnect(m, c, NoAttempt) BY ONLY <1>2, <1>4, <1>5, PutWaits, m \in ModemType
<1>10. OnlyWaits(m, y) BY ONLY <1>2, <1>4, <1>5, PutWaits, m \in ModemType
<1>11. /\ y.connects[c] = NoAttempt
       /\ \A d \in Connects \ {c} : y.connects[d] = m.connects[d]
  BY <1>9 DEF PutConnect, ModemType
<1>12. NoAttempt.step = "idle" BY DEF NoAttempt
<1> QED BY <1>1, <1>6, <1>7, <1>8, <1>10, <1>11, <1>12 DEF Moved

(* A connect's record with another step, and another state it is told of.    *)
AtStep(m, c, step, seen) == [m.connects[c] EXCEPT !.step = step, !.seen = seen]

(* It is an attempt's record.                                               *)
LEMMA AtStepType ==
  ASSUME NEW m \in ModemType, NEW c \in Connects, NEW step \in Steps,
         NEW seen \in ToSet(States) \union {None}, NEW r, r = AtStep(m, c, step, seen)
  PROVE  /\ r \in ConnectType /\ r.step = step /\ r.seen = seen
         /\ r.cancellable = m.connects[c].cancellable /\ r.cancelled = m.connects[c].cancelled
         /\ r.bearer = m.connects[c].bearer
<1>1. m.connects[c] \in ConnectType BY DEF ModemType
<1> QED BY <1>1 DEF AtStep, ConnectType

(* Only the record of c changes, and maybe it waits.                         *)
Stepped(m, y, c, step, seen, k) ==
  /\ Moved(m, y, c) /\ y.waiters = k /\ y.ahead = m.ahead /\ y.ongoing = m.ongoing
  /\ y.connects[c].step = step /\ y.connects[c].seen = seen
  /\ y.connects[c].cancellable = m.connects[c].cancellable
  /\ y.connects[c].cancelled = m.connects[c].cancelled
  /\ y.connects[c].bearer = m.connects[c].bearer

(* Putting it moves the attempt.                                            *)
LEMMA StepEffect ==
  ASSUME NEW m \in ModemType, NEW c \in Connects, NEW step \in Steps \ {"connect", "enabling"},
         NEW seen \in ToSet(States) \union {None}, NEW k, k = m.waiters \/ k = m.waiters \union {c},
         NEW y, y = WithWaits(m, k, m.ahead, m.ongoing, PutConnect(m, c, AtStep(m, c, step, seen)))
  PROVE  Stepped(m, y, c, step, seen, k)
<1>1. PICK r : r = AtStep(m, c, step, seen) OBVIOUS
<1>2. /\ r \in ConnectType /\ r.step = step /\ r.seen = seen
      /\ r.cancellable = m.connects[c].cancellable /\ r.cancelled = m.connects[c].cancelled
      /\ r.bearer = m.connects[c].bearer
  BY <1>1, AtStepType
<1>3. PICK f : f = PutConnect(m, c, r) OBVIOUS
<1>4. f \in [Connects -> ConnectType] /\ f[c] = r /\ \A d \in Connects \ {c} : f[d] = m.connects[d]
  BY <1>2, <1>3 DEF PutConnect, ModemType
<1>5. /\ k \in SUBSET Waiters /\ m.ahead \in SUBSET Connects
      /\ m.ongoing \in Connects \union {None}
  BY DEF ModemType, Waiters
<1>6. y = WithWaits(m, k, m.ahead, m.ongoing, f) BY <1>1, <1>3
<1>7. y \in ModemType BY ONLY <1>4, <1>5, <1>6, PutWaits, m \in ModemType
<1>8. y.waiters = k /\ y.ahead = m.ahead BY ONLY <1>4, <1>5, <1>6, PutWaits, m \in ModemType
<1>9. y.ongoing = m.ongoing BY ONLY <1>4, <1>5, <1>6, PutWaits, m \in ModemType
<1>10. y.connects = f BY ONLY <1>4, <1>5, <1>6, PutWaits, m \in ModemType
<1>11. OnlyWaits(m, y) BY ONLY <1>4, <1>5, <1>6, PutWaits, m \in ModemType
<1> QED BY <1>2, <1>4, <1>7, <1>8, <1>9, <1>10, <1>11 DEF Moved, Stepped

(* SetStep puts it.                                                         *)
LEMMA SetStepIs ==
  ASSUME NEW m \in ModemType, NEW c \in Connects, NEW step \in Steps, m.connects[c].seen = None
  PROVE  SetStep(m, c, step) =
           WithWaits(m, m.waiters, m.ahead, m.ongoing, PutConnect(m, c, AtStep(m, c, step, None)))
<1>1. m.connects[c] \in ConnectType BY DEF ModemType
<1>2. PICK r : r = [m.connects[c] EXCEPT !.step = step] OBVIOUS
<1>3. r = AtStep(m, c, step, None) BY <1>1, <1>2 DEF AtStep, ConnectType
<1>4. PICK f : f = [m.connects EXCEPT ![c] = r] OBVIOUS
<1>5. SetStep(m, c, step) = [m EXCEPT !.connects = f] BY <1>2, <1>4 DEF SetStep, ModemType
<1>6. [m EXCEPT !.connects = f] = WithWaits(m, m.waiters, m.ahead, m.ongoing, f) BY DEF WithWaits, ModemType
<1> QED BY <1>3, <1>4, <1>5, <1>6 DEF PutConnect

(* What a step of connect c gives: it ends, goes on, is told or waits.        *)
LEMMA WaitForOK ==
  ASSUME NEW m \in ModemType, NEW c \in Connects, ConnectsBut(m, c), Free(m, c),
         ~m.connects[c].cancelled,
         NEW step \in {"initialized", "enabled"}, NEW s \in {"disabled", None},
         s = "disabled" <=> step = "initialized",
         NEW y, y = WaitFor(m, c, step, s)
  PROVE  /\ Moved(m, y, c) /\ ConnectOK(y, c) /\ c \notin y.ahead
         /\ y.connects[c].cancellable /\ ~y.connects[c].cancelled
         /\ c \in y.waiters => ~Wanted(y, c)
         /\ y.connects[c].step = step
<1>1. m.state \in ToSet(States) /\ m.state # None /\ c # None
  BY ModemStateAssumption DEF ModemType
<1>2. c \notin m.ahead BY DEF ConnectsBut, Free
<1>3. CASE m.state \notin Intermediate /\ s \in {None, m.state}
  <2>1. y = WithWaits(m, m.waiters, m.ahead, m.ongoing, PutConnect(m, c, AtStep(m, c, step, m.state)))
    BY <1>3 DEF WaitFor, WithWaits, PutConnect, AtStep, ModemType
  <2>2. Stepped(m, y, c, step, m.state, m.waiters)
    BY <1>1, <2>1, StepEffect DEF Steps
  <2>3. y.op = m.op BY <2>2 DEF Stepped, Moved, OnlyWaits, SameOp
  <2>4. step = "initialized" => m.state = "disabled"
    BY <1>3, StateSet, ModemStateAssumption
  <2> QED BY <1>1, <1>2, <1>3, <2>2, <2>3, <2>4 DEF Free, ConnectOK, Stepped
<1>4. CASE ~(m.state \notin Intermediate /\ s \in {None, m.state})
  <2>1. PICK n : n = SetStep(m, c, step) OBVIOUS
  <2>2. PICK f : f = PutConnect(m, c, AtStep(m, c, step, None)) OBVIOUS
  <2>3. n = WithWaits(m, m.waiters, m.ahead, m.ongoing, f)
    BY <2>1, <2>2, SetStepIs DEF Free, Steps
  <2>4. y = [n EXCEPT !.waiters = n.waiters \union {c}]
    BY <1>4, <2>1 DEF WaitFor
  <2>5. y = WithWaits(m, m.waiters \union {c}, m.ahead, m.ongoing, f)
    BY <2>3, <2>4 DEF WithWaits, ModemType
  <2>6. Stepped(m, y, c, step, None, m.waiters \union {c})
    BY <2>2, <2>5, StepEffect DEF Steps
  <2>7. y.op = m.op /\ y.state = m.state BY <2>6 DEF Stepped, Moved, OnlyWaits, SameOp, SameState
  <2> QED BY <1>1, <1>2, <1>4, <2>6, <2>7 DEF Free, ConnectOK, Wanted, Stepped
<1> QED BY <1>3, <1>4

Proceeded(m, y, c, step) ==
  /\ Moved(m, y, c) /\ ConnectOK(y, c) /\ c \notin y.ahead
  /\ y.ongoing = c => y.connects[c].cancellable /\ ~y.connects[c].cancelled
  /\ c \in y.waiters => ~Wanted(y, c) /\ step \in {"initialized", "enabled"}
  /\ y.connects[c].step \in {step, "idle"}

(* An attempt that ends moves as it should;                                 *)
LEMMA EndConnectProceeds ==
  ASSUME NEW m \in ModemType, NEW c \in Connects, ConnectsBut(m, c), m.op.by # c,
         NEW step, NEW y, y = EndConnect(m, c)
  PROVE  Proceeded(m, y, c, step)
<1>1. /\ Moved(m, y, c) /\ c \notin y.waiters /\ y.connects[c] = NoAttempt
      /\ y.ongoing = m.ongoing \/ y.ongoing = None
      /\ m.connects[c].cancellable => y.ongoing = None
  BY EndConnectEffect
<1>2. ConnectOK(y, c)
  BY <1>1 DEF ConnectOK, NoAttempt, Moved, OnlyWaits, SameOp
<1>3. y.ongoing # c
  BY <1>1, ModemStateAssumption DEF ConnectsBut
<1>4. c \notin y.ahead
  <2>1. y = EndConnect(m, c) /\ c # "op" BY ModemStateAssumption
  <2> QED BY <2>1 DEF EndConnect, StopWaiting, ModemType
<1>5. y.connects[c].step = "idle" BY <1>1 DEF NoAttempt
<1> QED BY <1>1, <1>2, <1>3, <1>4, <1>5 DEF Proceeded

(* so does one that goes on,                                                *)
LEMMA SetStepProceeds ==
  ASSUME NEW m \in ModemType, NEW c \in Connects, ConnectsBut(m, c), Free(m, c),
         ~m.connects[c].cancelled,
         NEW step \in {"unlock", "enable", "pausing", "registering", "bearer"},
         NEW y, y = SetStep(m, c, step)
  PROVE  Proceeded(m, y, c, step)
<1>1. y = WithWaits(m, m.waiters, m.ahead, m.ongoing, PutConnect(m, c, AtStep(m, c, step, None)))
  BY SetStepIs DEF Free, Steps
<1>2. Stepped(m, y, c, step, None, m.waiters)
  BY <1>1, StepEffect DEF Steps
<1>3. y.op = m.op BY <1>2 DEF Stepped, Moved, OnlyWaits, SameOp
<1>4. c \notin m.ahead BY DEF ConnectsBut, Free
<1> QED BY <1>2, <1>3, <1>4 DEF Proceeded, Stepped, Free, ConnectOK

(* and one that takes a step, whatever comes of it.                         *)
LEMMA ConnectionStepProceeds ==
  ASSUME NEW m \in ModemType, NEW c \in Connects, ConnectsBut(m, c), Free(m, c),
         NEW step \in {"unlock", "initialized", "enable", "enabled", "pausing", "registering", "bearer"},
         NEW y, y = ConnectionStep(m, c, step)
  PROVE  Proceeded(m, y, c, step)
<1>1. CASE m.connects[c].cancellable /\ m.connects[c].cancelled
  <2>1. y = EndConnect(m, c) BY <1>1 DEF ConnectionStep
  <2> QED BY <2>1, EndConnectProceeds DEF Free
<1>2. CASE ~m.connects[c].cancelled
  <2>1. CASE step \in {"initialized", "enabled"}
    <3>1. PICK s \in {"disabled", None} : s = IF step = "initialized" THEN "disabled" ELSE None
      OBVIOUS
    <3>2. s = "disabled" <=> step = "initialized"
      BY <2>1, <3>1, StateSet, ModemStateAssumption
    <3>3. y = WaitFor(m, c, step, s) BY <1>2, <2>1, <3>1 DEF ConnectionStep
    <3>4. /\ Moved(m, y, c) /\ ConnectOK(y, c) /\ c \notin y.ahead
          /\ y.connects[c].cancellable /\ ~y.connects[c].cancelled
          /\ c \in y.waiters => ~Wanted(y, c)
          /\ y.connects[c].step = step
      BY <1>2, <2>1, <3>2, <3>3, WaitForOK
    <3> QED BY <2>1, <3>4 DEF Proceeded
  <2>2. CASE step \notin {"initialized", "enabled"}
    <3>1. y = SetStep(m, c, step) BY <1>2, <2>2 DEF ConnectionStep
    <3> QED BY <1>2, <2>2, <3>1, SetStepProceeds
  <2> QED BY <2>1, <2>2
<1> QED BY <1>1, <1>2 DEF Free

(* What an attempt that moved leaves right.                                  *)
LEMMA ProceededOK ==
  ASSUME NEW m \in ModemType, NEW c \in Connects, ConnectsBut(m, c), NEW step, NEW X,
         NEW y, Proceeded(m, y, c, step)
  PROVE  /\ ConnectsOK(y)
         /\ DialsOK(m, X) /\ (m.connects[c].step = "connect" => c \in X) => DialsOK(y, X \ {c})
         /\ ConnectsSleep(m) => ConnectsSleep(y)
<1>1. ConnectsOK(y) /\ (DialsOK(m, X) /\ (m.connects[c].step = "connect" => c \in X) => DialsOK(y, X \ {c}))
  BY MovedOK DEF Proceeded
<1>2. ASSUME ConnectsSleep(m), NEW d \in Connects \intersect y.waiters
      PROVE  ~Wanted(y, d)
  <2>1. y.state = m.state BY DEF Proceeded, Moved, OnlyWaits, SameState
  <2>2. CASE d = c BY <1>2, <2>2 DEF Proceeded
  <2>3. CASE d # c
    BY <1>2, <2>1, <2>3 DEF Proceeded, Moved, Wanted, ConnectsSleep
  <2> QED BY <2>2, <2>3
<1> QED BY <1>1, <1>2 DEF ConnectsSleep

(* What the waits and attempts leave alone.                                 *)
LEMMA WaitsFrame ==
  ASSUME NEW m \in ModemType, NEW y, OnlyWaits(m, y), "op" \in y.waiters <=> "op" \in m.waiters
  PROVE  /\ OpOK(m) => OpOK(y)
         /\ BearersOK(m) => BearersOK(y)
         /\ ReloadOK(m) => ReloadOK(y)
         /\ OpSleeps(m) => OpSleeps(y)
         /\ LinkOK(m) => LinkOK(y)
         /\ \A S : ListsOK(m, S) => ListsOK(y, S)
<1>1. /\ y.state = m.state /\ y.op = m.op /\ y.list = m.list /\ y.bearers = m.bearers
      /\ y.lists = m.lists /\ y.reloads = m.reloads /\ y.reloading = m.reloading
  BY DEF OnlyWaits, SameState, SameOp, SameBearers, SameLists, SameNetwork
<1>2. OpOK(m) => OpOK(y) BY <1>1 DEF OpOK, Undertaken
<1>3. BearersOK(m) => BearersOK(y) BY <1>1 DEF BearersOK, Listed
<1>4. ReloadOK(m) => ReloadOK(y) BY <1>1 DEF ReloadOK
<1>5. OpSleeps(m) => OpSleeps(y) BY <1>1, ModemStateAssumption DEF OpSleeps, Wanted
<1>6. LinkOK(m) => LinkOK(y) BY <1>1 DEF LinkOK
<1>7. ASSUME NEW S, ListsOK(m, S) PROVE ListsOK(y, S)
  BY <1>1, <1>7 DEF ListsOK, ListOK, Owed
<1> QED BY <1>2, <1>3, <1>4, <1>5, <1>6, <1>7

(* Two moves of an attempt are one.                                         *)
LEMMA MovedTwice ==
  ASSUME NEW m \in ModemType, NEW c \in Connects, NEW n, Moved(m, n, c),
         NEW step, NEW y, Proceeded(n, y, c, step)
  PROVE  Proceeded(m, y, c, step)
BY DEF Proceeded, Moved, OnlyWaits, SameState, SameOp, SameBearers, SameLists, SameNetwork

(* The wait of connect c is over.                                           *)
LEMMA ConnectToldProceeds ==
  ASSUME NEW m \in ModemType, NEW c \in Connects, ConnectsOK(m),
         m.connects[c].step \in {"initialized", "enabled"},
         NEW s \in ToSet(States), NEW y, y = ConnectTold(m, c, s)
  PROVE  \E step \in {"enable", "pausing"} : Proceeded(m, y, c, step)
<1>1. PICK n : n = [StopWaiting(m, c) EXCEPT !.connects[c] = [@ EXCEPT !.seen = None]]
  OBVIOUS
<1>2. c # "op" /\ c # None BY ModemStateAssumption
<1>3. PICK r : r = AtStep(m, c, m.connects[c].step, None)
  OBVIOUS
<1>4. r = [m.connects[c] EXCEPT !.seen = None]
  BY <1>3 DEF AtStep, ModemType, ConnectType
<1>5. PICK f : f = PutConnect(m, c, r) OBVIOUS
<1>6. n = WithWaits(m, m.waiters \ {c}, m.ahead \ {c}, m.ongoing, f)
  BY <1>1, <1>2, <1>4, <1>5 DEF StopWaiting, WithWaits, PutConnect, ModemType
<1>7. /\ r \in ConnectType /\ r.step = m.connects[c].step /\ r.seen = None
      /\ r.cancellable = m.connects[c].cancellable /\ r.cancelled = m.connects[c].cancelled
      /\ r.bearer = m.connects[c].bearer
  BY <1>3, AtStepType DEF Steps
<1>8. f \in [Connects -> ConnectType] /\ f[c] = r /\ \A d \in Connects \ {c} : f[d] = m.connects[d]
  BY <1>5, <1>7 DEF PutConnect, ModemType
<1>9. /\ m.waiters \ {c} \in SUBSET Waiters /\ m.ahead \ {c} \in SUBSET Connects
      /\ m.ongoing \in Connects \union {None}
  BY DEF ModemType
<1>10. n \in ModemType BY ONLY <1>6, <1>8, <1>9, PutWaits, m \in ModemType
<1>11. n.waiters = m.waiters \ {c} /\ n.ahead = m.ahead \ {c} /\ n.ongoing = m.ongoing
  BY ONLY <1>6, <1>8, <1>9, PutWaits, m \in ModemType
<1>12. n.connects = f BY ONLY <1>6, <1>8, <1>9, PutWaits, m \in ModemType
<1>13. OnlyWaits(m, n) BY ONLY <1>6, <1>8, <1>9, PutWaits, m \in ModemType
<1>14. Moved(m, n, c)
  BY <1>7, <1>8, <1>10, <1>11, <1>12, <1>13 DEF Moved
<1>15. n.op = m.op BY <1>13 DEF OnlyWaits, SameOp
<1>16. ConnectOK(m, c) BY DEF ConnectsOK
<1>17. Free(n, c)
  BY <1>7, <1>8, <1>11, <1>12, <1>15, <1>16 DEF Free, ConnectOK
<1>18. ConnectsBut(n, c)
  <2>1. \A d \in Connects \ {c} : ConnectOK(n, d)
    BY <1>8, <1>11, <1>12, <1>15 DEF ConnectsOK, ConnectOK
  <2>2. n.ahead \subseteq n.waiters BY <1>11 DEF ConnectsOK
  <2>3. n.ahead # {} => "op" \in n.waiters BY <1>2, <1>11 DEF ConnectsOK
  <2>4. n.ongoing # None => n.connects[n.ongoing].cancellable /\ ~n.connects[n.ongoing].cancelled
    BY <1>7, <1>8, <1>9, <1>11, <1>12 DEF ConnectsOK
  <2> QED BY <1>15, <2>1, <2>2, <2>3, <2>4 DEF ConnectsBut, ConnectsOK
<1>19. CASE y = EndConnect(n, c)
  <2>1. n.op.by # c BY <1>17 DEF Free
  <2> QED BY <1>10, <1>14, <1>18, <1>19, <2>1, EndConnectProceeds, MovedTwice
<1>20. CASE y = ConnectionStep(n, c, "enable")
  BY <1>10, <1>14, <1>17, <1>18, <1>20, ConnectionStepProceeds, MovedTwice
<1>21. CASE y = ConnectionStep(n, c, "pausing")
  BY <1>10, <1>14, <1>17, <1>18, <1>21, ConnectionStepProceeds, MovedTwice
<1> QED BY <1>1, <1>19, <1>20, <1>21 DEF ConnectTold

(* Some of the connects that waited go on.                                   *)
Woken(m, y) ==
  /\ y \in ModemType /\ OnlyWaits(m, y) /\ ConnectsOK(y)
  /\ y.waiters \subseteq m.waiters /\ ("op" \in y.waiters <=> "op" \in m.waiters)
  /\ \A X : DialsOK(m, X) => DialsOK(y, X)
  /\ ConnectsSleep(m) => ConnectsSleep(y)

(* Those told no longer sleep, the others are left alone.                   *)
LEMMA TellConnectsWakes ==
  ASSUME NEW m \in ModemType, ConnectsOK(m), NEW C \in SUBSET Connects, NEW y, y = TellConnects(m, C)
  PROVE  Woken(m, y) /\ (C = Connects => ConnectsSleep(y))
<1>1. PICK told : told = {c \in C \intersect m.waiters : Wanted(m, c)}
  OBVIOUS
<1>2. PICK After : After = [c \in Connects |-> ConnectTold(m, c, m.state)]
  OBVIOUS
<1>3. \A c \in told : c \in Connects /\ c \in m.waiters /\ c # "op"
  BY <1>1, ModemStateAssumption
<1>4. ASSUME NEW c \in told
      PROVE  \E step \in {"enable", "pausing"} : Proceeded(m, After[c], c, step)
  <2>1. c \in Connects /\ c \in m.waiters /\ c # "op" BY <1>3
  <2>2. m.connects[c].step \in {"initialized", "enabled"}
    BY <2>1 DEF ConnectsOK, ConnectOK
  <2>3. m.state \in ToSet(States) BY DEF ModemType
  <2>4. After[c] = ConnectTold(m, c, m.state) BY <1>2, <2>1
  <2> QED BY <2>1, <2>2, <2>3, <2>4, ConnectToldProceeds
<1>5. PICK f : f = [c \in Connects |-> IF c \in told THEN After[c].connects[c] ELSE m.connects[c]]
  OBVIOUS
<1>6. PICK o : o = IF \E c \in told : After[c].ongoing = None THEN None ELSE m.ongoing
  OBVIOUS
<1>7. y = WithWaits(m, m.waiters \ told, m.ahead \ told, o, f)
  <2>1. \A c \in told : After[c] = ConnectTold(m, c, m.state) BY <1>2, <1>3
  <2>2. PICK g : g = [c \in Connects |-> IF c \in told THEN ConnectTold(m, c, m.state).connects[c] ELSE m.connects[c]]
    OBVIOUS
  <2>3. f = g BY <1>5, <2>1, <2>2
  <2>4. o = IF \E c \in told : ConnectTold(m, c, m.state).ongoing = None THEN None ELSE m.ongoing
    BY <1>6, <2>1
  <2>5. y = [m EXCEPT !.connects = g, !.ongoing = o, !.waiters = @ \ told, !.ahead = @ \ told]
    BY <1>1, <2>2, <2>4, Zenon DEF TellConnects
  <2>6. [m EXCEPT !.connects = g, !.ongoing = o, !.waiters = @ \ told, !.ahead = @ \ told]
          = WithWaits(m, m.waiters \ told, m.ahead \ told, o, g)
    BY DEF WithWaits, ModemType
  <2> QED BY <2>3, <2>5, <2>6
<1>8. \A c \in told : /\ After[c].connects[c] \in ConnectType
                      /\ After[c].connects[c].step \in {"idle", "enable", "pausing"}
                      /\ ConnectOK(After[c], c) /\ c \notin After[c].waiters
                      /\ After[c].op = m.op
                      /\ After[c].ongoing = m.ongoing \/ After[c].ongoing = None
                      /\ After[c].ongoing = c => /\ After[c].connects[c].cancellable
                                                 /\ ~After[c].connects[c].cancelled
  <2> SUFFICES ASSUME NEW c \in told
               PROVE  /\ After[c].connects[c] \in ConnectType
                      /\ After[c].connects[c].step \in {"idle", "enable", "pausing"}
                      /\ ConnectOK(After[c], c) /\ c \notin After[c].waiters
                      /\ After[c].op = m.op
                      /\ After[c].ongoing = m.ongoing \/ After[c].ongoing = None
                      /\ After[c].ongoing = c => /\ After[c].connects[c].cancellable
                                                 /\ ~After[c].connects[c].cancelled
    OBVIOUS
  <2>1. c \in Connects BY <1>3
  <2>2. PICK step \in {"enable", "pausing"} : Proceeded(m, After[c], c, step) BY <1>4
  <2>3. After[c].connects[c] \in ConnectType BY <2>1, <2>2 DEF Proceeded, Moved, ModemType
  <2> QED BY <2>2, <2>3 DEF Proceeded, Moved, OnlyWaits, SameOp
<1>9. /\ f \in [Connects -> ConnectType] /\ \A c \in told : f[c] = After[c].connects[c]
      /\ \A c \in Connects \ told : f[c] = m.connects[c]
  BY <1>3, <1>5, <1>8 DEF ModemType
<1>10. /\ m.waiters \ told \in SUBSET Waiters /\ m.ahead \ told \in SUBSET Connects
       /\ o \in Connects \union {None}
  BY <1>6 DEF ModemType
<1>11. y \in ModemType BY ONLY <1>7, <1>9, <1>10, PutWaits, m \in ModemType
<1>12. y.waiters = m.waiters \ told /\ y.ahead = m.ahead \ told
  BY ONLY <1>7, <1>9, <1>10, PutWaits, m \in ModemType
<1>13. y.ongoing = o /\ y.connects = f BY ONLY <1>7, <1>9, <1>10, PutWaits, m \in ModemType
<1>14. OnlyWaits(m, y) BY ONLY <1>7, <1>9, <1>10, PutWaits, m \in ModemType
<1>15. y.op = m.op /\ y.state = m.state /\ y.bearers = m.bearers
  BY <1>14 DEF OnlyWaits, SameOp, SameState, SameBearers
<1>16. "op" \in y.waiters <=> "op" \in m.waiters BY <1>3, <1>12
<1>17. ConnectsOK(y)
  <2>1. ASSUME NEW c \in Connects PROVE ConnectOK(y, c)
    <3>1. CASE c \in told
      BY <1>8, <1>9, <1>12, <1>13, <1>15, <3>1 DEF ConnectOK
    <3>2. CASE c \notin told
      BY <1>9, <1>12, <1>13, <1>15, <3>2 DEF ConnectsOK, ConnectOK
    <3> QED BY <3>1, <3>2
  <2>2. y.ahead \subseteq y.waiters /\ (y.ahead # {} => "op" \in y.waiters)
    BY <1>12, <1>16 DEF ConnectsOK
  <2>3. y.ongoing # None => y.connects[y.ongoing].cancellable /\ ~y.connects[y.ongoing].cancelled
    <3> SUFFICES ASSUME y.ongoing # None
                 PROVE  y.connects[y.ongoing].cancellable /\ ~y.connects[y.ongoing].cancelled
      OBVIOUS
    <3>1. o = m.ongoing /\ o # None /\ ~\E c \in told : After[c].ongoing = None
      BY <1>6, <1>13
    <3>2. o \in Connects BY <1>10, <3>1
    <3>3. CASE o \in told BY <1>8, <1>9, <1>13, <3>1, <3>2, <3>3
    <3>4. CASE o \notin told BY <1>9, <1>13, <3>1, <3>2, <3>4 DEF ConnectsOK
    <3> QED BY <3>3, <3>4
  <2> QED BY <1>15, <2>1, <2>2, <2>3 DEF ConnectsOK
<1>18. ASSUME NEW X, DialsOK(m, X) PROVE DialsOK(y, X)
  <2>1. \A c \in told : m.connects[c].step # "connect"
    BY <1>3 DEF ConnectsOK, ConnectOK
  <2>2. \A c \in told : y.connects[c].step # "connect"
    BY <1>8, <1>9, <1>13
  <2>3. \A c \in Connects : y.connects[c].step = "connect" <=> m.connects[c].step = "connect"
    BY <1>9, <1>13, <2>1, <2>2
  <2>4. \A c \in Connects \ told : y.connects[c] = m.connects[c] BY <1>9, <1>13
  <2>5. \A c \in Connects :
          m.connects[c].step = "connect" => y.connects[c].bearer = m.connects[c].bearer
    BY <2>1, <2>4
  <2> QED BY <1>15, <1>18, <2>3, <2>5, DialsLike
<1>19. ASSUME NEW c \in Connects \intersect y.waiters
       PROVE  Wanted(y, c) => c \in m.waiters /\ c \notin told /\ Wanted(m, c)
  BY <1>9, <1>12, <1>13, <1>15, <1>19 DEF Wanted
<1>20. ConnectsSleep(m) => ConnectsSleep(y)
  BY <1>19 DEF ConnectsSleep
<1>21. C = Connects => ConnectsSleep(y)
  BY <1>1, <1>19 DEF ConnectsSleep
<1> QED BY <1>11, <1>12, <1>14, <1>16, <1>17, <1>18, <1>20, <1>21 DEF Woken

(* So with a change of the state.                                           *)
LEMMA TellOthersWakes ==
  ASSUME NEW m \in ModemType, ConnectsOK(m), NEW s, NEW y, y = TellOthers(s, m)
  PROVE  Woken(m, y) /\ (m.state # s \/ ConnectsSleep(m) => ConnectsSleep(y))
<1>1. CASE m.state = s
  <2>1. y = m BY <1>1 DEF TellOthers
  <2> QED BY <1>1, <2>1 DEF Woken, OnlyWaits, SameState, SameOp, SameBearers, SameLists, SameNetwork
<1>2. CASE m.state # s
  <2>1. y = TellConnects(m, Connects) BY <1>2 DEF TellOthers
  <2> QED BY <2>1, TellConnectsWakes
<1> QED BY <1>1, <1>2

----------------------------------------------------------------------------
(* The end of a sequence.                                                   *)

(* It no longer holds the lock, and a Simple.Connect that began it goes on.   *)
OpOver(m, y) ==
  /\ y \in ModemType /\ y.op = NoOp /\ "op" \notin y.waiters
  /\ SameBearers(m, y) /\ SameLists(m, y) /\ SameNetwork(m, y)
  /\ ConnectsOK(y)
  /\ \A X : DialsOK(m, X) => DialsOK(y, X)
  /\ ConnectsSleep(m) => ConnectsSleep(y)

(* state_operation_ready gives that.                                        *)
LEMMA OpDoneOK ==
  ASSUME NEW m \in ModemType, ConnectsOK(m), NEW ok, NEW y, y = OpDone(m, ok)
  PROVE  OpOver(m, y) /\ SameState(m, y)
<1>1. PICK n : n = [StopWaiting(m, "op") EXCEPT !.op = NoOp] OBVIOUS
<1>2. PICK p : p = WithWaits(m, m.waiters \ {"op"}, {}, m.ongoing, m.connects) OBVIOUS
<1>3. StopWaiting(m, "op") = p BY <1>2 DEF StopWaiting, WithWaits, ModemType
<1>4. n = WithOp(p, NoOp) BY <1>1, <1>3 DEF WithOp
<1>5. /\ m.waiters \ {"op"} \in SUBSET Waiters /\ {} \in SUBSET Connects
      /\ m.ongoing \in Connects \union {None} /\ m.connects \in [Connects -> ConnectType]
  BY DEF ModemType
<1>6. p \in ModemType BY ONLY <1>2, <1>5, PutWaits, m \in ModemType
<1>7. p.waiters = m.waiters \ {"op"} /\ p.ahead = {} /\ p.ongoing = m.ongoing
  BY ONLY <1>2, <1>5, PutWaits, m \in ModemType
<1>8. p.connects = m.connects BY ONLY <1>2, <1>5, PutWaits, m \in ModemType
<1>9. OnlyWaits(m, p) BY ONLY <1>2, <1>5, PutWaits, m \in ModemType
<1>10. n \in ModemType /\ n.op = NoOp /\ OnlyOp(p, n) BY <1>4, <1>6, Nothing, PutOp
<1>11. /\ n.waiters = m.waiters \ {"op"} /\ n.ahead = {} /\ n.ongoing = m.ongoing
       /\ n.connects = m.connects /\ n.state = m.state /\ n.bearers = m.bearers
       /\ SameState(m, n) /\ SameBearers(m, n) /\ SameLists(m, n) /\ SameNetwork(m, n)
  BY <1>7, <1>8, <1>9, <1>10
     DEF OnlyOp, OnlyWaits, SameWaits, SameState, SameBearers, SameLists, SameNetwork
<1>12. NoOp.by = None BY DEF NoOp
<1>13. \A c \in Connects : c # "op" /\ c # None BY ModemStateAssumption
<1>14. ConnectsSleep(m) => ConnectsSleep(n)
  BY <1>11, <1>13 DEF ConnectsSleep, Wanted
<1>15. \A X : DialsOK(m, X) => DialsOK(n, X)
  BY <1>11, DialsSame
<1>16. CASE m.op.by = None
  <2>1. y = n BY <1>1, <1>16 DEF OpDone
  <2>2. \A c \in Connects : ConnectOK(n, c)
    BY <1>10, <1>11, <1>12, <1>13, <1>16 DEF ConnectsOK, ConnectOK
  <2>3. ConnectsOK(n)
    BY <1>10, <1>11, <1>12, <2>2 DEF ConnectsOK
  <2> QED BY <1>10, <1>11, <1>14, <1>15, <2>1, <2>3 DEF OpOver
<1>17. CASE m.op.by # None
  <2>1. PICK c \in Connects : c = m.op.by BY <1>17 DEF ModemType, OpType
  <2>2. ConnectOK(m, c) BY DEF ConnectsOK
  <2>3. \A d \in Connects \ {c} : ConnectOK(n, d)
    BY <1>10, <1>11, <1>12, <1>13, <2>1 DEF ConnectsOK, ConnectOK
  <2>4. ConnectsBut(n, c)
    BY <1>10, <1>11, <1>12, <2>3 DEF ConnectsBut, ConnectsOK
  <2>5. Free(n, c)
    BY <1>10, <1>11, <1>12, <1>13, <2>1, <2>2 DEF Free, ConnectOK
  <2>6. Proceeded(n, y, c, "enabled")
    <3>1. y = ConnectionStep(n, c, "enabled") \/ y = EndConnect(n, c)
      BY <1>1, <1>17, <2>1 DEF OpDone
    <3>2. n.op.by # c BY <2>5 DEF Free
    <3>3. CASE y = ConnectionStep(n, c, "enabled")
      BY <1>10, <2>4, <2>5, <3>3, ConnectionStepProceeds
    <3>4. CASE y = EndConnect(n, c)
      BY <1>10, <2>4, <3>2, <3>4, EndConnectProceeds
    <3> QED BY <3>1, <3>3, <3>4
  <2>7. /\ ConnectsOK(y)
        /\ \A X : DialsOK(n, X) => DialsOK(y, X \ {c})
        /\ ConnectsSleep(n) => ConnectsSleep(y)
    <3>1. n.connects[c].step # "connect" BY <1>11, <2>1, <2>2 DEF ConnectOK
    <3> QED BY <1>10, <2>4, <2>6, <3>1, ProceededOK
  <2>8. \A X : DialsOK(m, X) => c \notin X
    BY <2>1, <2>2 DEF DialsOK, ConnectOK
  <2>9. ASSUME NEW X, DialsOK(m, X) PROVE DialsOK(y, X)
    <3>2. DialsOK(y, X \ {c}) /\ c \notin X BY <1>15, <2>7, <2>8, <2>9
    <3> QED BY <3>2 DEF DialsOK
  <2>10. /\ y \in ModemType /\ y.op = NoOp /\ "op" \notin y.waiters
         /\ SameState(m, y) /\ SameBearers(m, y) /\ SameLists(m, y) /\ SameNetwork(m, y)
    BY <1>10, <1>11, <1>13, <2>6
       DEF Proceeded, Moved, OnlyWaits, SameState, SameOp, SameBearers, SameLists, SameNetwork
  <2> QED BY <1>14, <2>7, <2>9, <2>10 DEF OpOver
<1> QED BY <1>16, <1>17

(* It ends in a state that is no sequence's.                                 *)
Quiet == {"enabling", "disabling"}

(* The state is set and the connects are told, as at the end of a sequence.   *)
LEMMA SetStateWakes ==
  ASSUME NEW m \in ModemType, ConnectsOK(m), NEW s \in ToSet(States) \ Quiet,
         NEW y, y = TellOthers(m.state, SetState(m, s))
  PROVE  /\ y \in ModemType /\ ConnectsOK(y) /\ y.state \notin Quiet
         /\ SameOp(m, y) /\ SameBearers(m, y) /\ SameLists(m, y) /\ SameNetwork(m, y)
         /\ \A X : DialsOK(m, X) => DialsOK(y, X)
         /\ ConnectsSleep(m) => ConnectsSleep(y)
<1>1. PICK p : p = SetState(m, s) OBVIOUS
<1>2. /\ p \in ModemType
      /\ OnlyState(m, p)
      /\ s \notin Plain => p.state = s
      /\ s \in Plain =>
           \/ p.state \in Plain
           \/ /\ p.state = m.state /\ m.state \in {"disconnecting", "connecting", "connected"}
              /\ Connected(m) # {}
  BY <1>1, SetStateEffect
<1>3. p.state \notin Quiet BY <1>2 DEF Plain, Quiet
<1>4. /\ p.waiters = m.waiters /\ p.connects = m.connects /\ p.ahead = m.ahead /\ p.ongoing = m.ongoing
      /\ p.op = m.op /\ p.bearers = m.bearers
  BY <1>2 DEF OnlyState, SameWaits, SameOp, SameBearers
<1>5. ConnectsOK(p) BY <1>4 DEF ConnectsOK, ConnectOK
<1>6. \A X : DialsOK(m, X) => DialsOK(p, X) BY <1>4, DialsSame
<1>7. Woken(p, y) /\ (p.state # m.state \/ ConnectsSleep(p) => ConnectsSleep(y))
  BY <1>1, <1>2, <1>5, TellOthersWakes
<1>8. p.state = m.state /\ ConnectsSleep(m) => ConnectsSleep(p)
  BY <1>4 DEF ConnectsSleep, Wanted
<1>9. y.state = p.state BY <1>7 DEF Woken, OnlyWaits, SameState
<1>10. SameOp(m, y) /\ SameBearers(m, y) /\ SameLists(m, y) /\ SameNetwork(m, y)
  BY <1>2, <1>7 DEF Woken, OnlyWaits, OnlyState, SameOp, SameBearers, SameLists, SameNetwork
<1> QED BY <1>3, <1>6, <1>7, <1>8, <1>9, <1>10 DEF Woken

(* A sequence that fails puts its state back, another sequence's never.     *)
LEMMA OpFailedOK ==
  ASSUME NEW m \in ModemType, ConnectsOK(m), m.op.previous \notin Quiet,
         m.op.previous # (IF m.op.kind = "disable" THEN "disabled" ELSE "enabled"),
         NEW y, y = OpFailed(m)
  PROVE  OpOver(m, y) /\ y.state \notin Quiet
<1>1. m.op.previous \in ToSet(States) \ Quiet BY DEF ModemType, OpType
<1>2. PICK p : p = TellOthers(m.state, SetState(m, m.op.previous)) OBVIOUS
<1>3. /\ p \in ModemType /\ ConnectsOK(p) /\ p.state \notin Quiet
      /\ SameOp(m, p) /\ SameBearers(m, p) /\ SameLists(m, p) /\ SameNetwork(m, p)
      /\ \A X : DialsOK(m, X) => DialsOK(p, X)
      /\ ConnectsSleep(m) => ConnectsSleep(p)
  BY <1>1, <1>2, SetStateWakes
<1>4. PICK n : n = [p EXCEPT !.restored = TRUE] OBVIOUS
<1>5. n = WithState(p, p.state, TRUE) BY <1>3, <1>4 DEF WithState, ModemType
<1>6. p.state \in ToSet(States) BY <1>3 DEF ModemType
<1>7. n \in ModemType /\ n.state = p.state /\ OnlyState(p, n)
  <2>1. PICK s \in ToSet(States), r \in BOOLEAN : s = p.state /\ r = TRUE BY <1>6
  <2>2. n = WithState(p, s, r) BY <1>5, <2>1
  <2>3. /\ n \in ModemType /\ n.state = s /\ n.restored = r
        /\ OnlyState(p, n)
    BY <1>3, <2>2, PutState
  <2> QED BY <2>1, <2>3
<1>8. ConnectsOK(n) /\ \A X : DialsOK(p, X) => DialsOK(n, X)
  <2>1. /\ n.waiters = p.waiters /\ n.ahead = p.ahead /\ n.ongoing = p.ongoing
        /\ n.connects = p.connects /\ n.op = p.op /\ n.bearers = p.bearers
    BY <1>7 DEF OnlyState, SameWaits, SameOp, SameBearers
  <2>2. \A X : DialsOK(p, X) => DialsOK(n, X) BY <2>1, DialsSame
  <2>3. ConnectsOK(n) BY <1>3, <2>1 DEF ConnectsOK, ConnectOK
  <2> QED BY <2>2, <2>3
<1>9. ConnectsSleep(p) => ConnectsSleep(n)
  BY <1>7 DEF OnlyState, SameWaits, ConnectsSleep, Wanted
<1>10. y = OpDone(n, FALSE)
  BY <1>2, <1>4 DEF OpFailed
<1>11. OpOver(n, y) /\ SameState(n, y)
  BY <1>7, <1>8, <1>10, OpDoneOK
<1>12. /\ SameBearers(m, y) /\ SameLists(m, y) /\ SameNetwork(m, y)
       /\ y.state \notin Quiet
  BY <1>3, <1>7, <1>11 DEF OpOver, OnlyState, SameState, SameBearers, SameLists, SameNetwork
<1>13. \A X : DialsOK(m, X) => DialsOK(y, X)
  BY <1>3, <1>8, <1>11 DEF OpOver
<1> QED BY <1>3, <1>9, <1>11, <1>12, <1>13 DEF OpOver

(* One that succeeds ends in disabled, enabled or above.                    *)
LEMMA OpSucceededOK ==
  ASSUME NEW m \in ModemType, ConnectsOK(m), NEW y, y = OpSucceeded(m)
  PROVE  OpOver(m, y) /\ y.state \notin Quiet
<1>1. PICK end : end = IF m.op.kind = "disable" THEN "disabled" ELSE "enabled" OBVIOUS
<1>2. end \in ToSet(States) \ Quiet BY <1>1, StateSet DEF Quiet
<1>3. PICK n : n = TellOthers(m.state, SetState(m, end)) OBVIOUS
<1>4. /\ n \in ModemType /\ ConnectsOK(n) /\ n.state \notin Quiet
      /\ SameOp(m, n) /\ SameBearers(m, n) /\ SameLists(m, n) /\ SameNetwork(m, n)
      /\ \A X : DialsOK(m, X) => DialsOK(n, X)
      /\ ConnectsSleep(m) => ConnectsSleep(n)
  BY <1>2, <1>3, SetStateWakes
<1>5. y = OpDone(n, TRUE) BY <1>1, <1>3 DEF OpSucceeded
<1>6. OpOver(n, y) /\ SameState(n, y) BY <1>4, <1>5, OpDoneOK
<1>7. /\ SameBearers(m, y) /\ SameLists(m, y) /\ SameNetwork(m, y)
      /\ y.state \notin Quiet
  BY <1>4, <1>6 DEF OpOver, SameState, SameBearers, SameLists, SameNetwork
<1>8. \A X : DialsOK(m, X) => DialsOK(y, X) BY <1>4, <1>6 DEF OpOver
<1> QED BY <1>4, <1>6, <1>7, <1>8 DEF OpOver

(* Nothing of the modem is left in a sequence.                              *)
LEMMA OpOverFine ==
  ASSUME NEW m \in ModemType, NEW y, OpOver(m, y), y.state \notin Quiet,
         NEW X, DialsOK(m, X), BearersOK(m), ReloadOK(m),
         NEW S, ListsOK(m, S), ~m.lists["op"].busy
  PROVE  Fine(y, X, S) /\ OpSleeps(y)
<1>1. /\ y \in ModemType /\ ConnectsOK(y) /\ DialsOK(y, X) /\ y.op = NoOp /\ "op" \notin y.waiters
      /\ y.list = m.list /\ y.bearers = m.bearers /\ y.lists = m.lists
      /\ y.reloads = m.reloads /\ y.reloading = m.reloading
  BY DEF OpOver, SameBearers, SameLists, SameNetwork
<1>2. BearersOK(y) BY <1>1 DEF BearersOK, Listed
<1>3. ReloadOK(y) BY <1>1 DEF ReloadOK
<1>4. ListsOK(y, S) BY <1>1 DEF ListsOK, ListOK, Owed
<1>5. NoOp.kind = "none" /\ NoOp.step = "none" /\ NoOp.seen = None BY DEF NoOp
<1>6. OpOK(y) BY <1>1, <1>5 DEF OpOK, Undertaken, Quiet
<1>7. LinkOK(y) BY <1>1, <1>5 DEF LinkOK
<1> QED BY <1>1, <1>2, <1>3, <1>4, <1>6, <1>7 DEF Fine, Sound, OpSleeps

----------------------------------------------------------------------------
(* One bearer.                                                              *)
PutBearer(m, b, r) == [m.bearers EXCEPT ![b] = r]

BearerPut(m, y, b, r) ==
  /\ y \in ModemType /\ OnlyBearers(m, y) /\ y.list = m.list
  /\ y.bearers[b] = r /\ \A d \in Bearers \ {b} : y.bearers[d] = m.bearers[d]

(* Putting a record changes this bearer only.                               *)
LEMMA BearerPutEffect ==
  ASSUME NEW m \in ModemType, NEW b \in Bearers, NEW r \in BearerType,
         NEW y, y = WithBearers(m, m.list, PutBearer(m, b, r))
  PROVE  BearerPut(m, y, b, r)
<1>1. PICK f : f = PutBearer(m, b, r) OBVIOUS
<1>2. f \in [Bearers -> BearerType] /\ f[b] = r /\ \A d \in Bearers \ {b} : f[d] = m.bearers[d]
  BY <1>1 DEF PutBearer, ModemType
<1>3. PICK l \in Seq(Bearers) : l = m.list BY DEF ModemType
<1>4. y = WithBearers(m, l, f) BY <1>1, <1>3
<1>5. /\ y \in ModemType /\ y.list = l /\ y.bearers = f
      /\ OnlyBearers(m, y)
  BY <1>2, <1>4, PutBearers
<1> QED BY <1>2, <1>3, <1>5 DEF BearerPut

(* Nobody slept through more than before.                                    *)
Asleep(m, y) == (ConnectsSleep(m) => ConnectsSleep(y)) /\ (OpSleeps(m) => OpSleeps(y))

(* The bearer's status is set, and maybe the modem's state.                   *)
Turned(m, y, b, s) ==
  /\ y \in ModemType /\ SameWaits(m, y) /\ SameOp(m, y) /\ SameLists(m, y) /\ SameNetwork(m, y)
  /\ y.list = m.list /\ \A d \in Bearers \ {b} : y.bearers[d] = m.bearers[d]
  /\ y.bearers[b].status = s /\ y.bearers[b].dialing = m.bearers[b].dialing
  /\ y.bearers[b].cancelled = m.bearers[b].cancelled /\ y.bearers[b].hanging = m.bearers[b].hanging
  /\ y.bearers[b].by = m.bearers[b].by /\ y.bearers[b].connect = m.bearers[b].connect
  /\ y.state = m.state \/ (y.state = s /\ m.state \notin Quiet)
  /\ y.restored = m.restored

(* A status is set,                                                         *)
LEMMA SetStatusTurns ==
  ASSUME NEW m \in ModemType, NEW b \in Bearers, NEW s \in Statuses,
         NEW y, y = SetStatus(m, b, s)
  PROVE  Turned(m, y, b, s) /\ y.state = m.state
<1>1. m.bearers[b] \in BearerType BY DEF ModemType
<1>2. PICK r : r = [m.bearers[b] EXCEPT !.status = s] OBVIOUS
<1>3. /\ r \in BearerType /\ r.status = s /\ r.dialing = m.bearers[b].dialing
      /\ r.cancelled = m.bearers[b].cancelled /\ r.hanging = m.bearers[b].hanging
      /\ r.by = m.bearers[b].by /\ r.connect = m.bearers[b].connect
  BY <1>1, <1>2 DEF BearerType
<1>4. y = WithBearers(m, m.list, PutBearer(m, b, r))
  BY <1>2 DEF SetStatus, WithBearers, PutBearer, ModemType
<1>5. BearerPut(m, y, b, r) BY <1>3, <1>4, BearerPutEffect
<1>6. /\ y \in ModemType /\ SameWaits(m, y) /\ SameOp(m, y) /\ SameLists(m, y) /\ SameNetwork(m, y)
      /\ y.state = m.state /\ y.restored = m.restored
      /\ y.list = m.list /\ y.bearers[b] = r /\ \A d \in Bearers \ {b} : y.bearers[d] = m.bearers[d]
  BY <1>5 DEF BearerPut, OnlyBearers, SameState
<1>7. /\ y.bearers[b].status = s /\ y.bearers[b].dialing = m.bearers[b].dialing
      /\ y.bearers[b].cancelled = m.bearers[b].cancelled /\ y.bearers[b].hanging = m.bearers[b].hanging
      /\ y.bearers[b].by = m.bearers[b].by /\ y.bearers[b].connect = m.bearers[b].connect
  BY ONLY <1>3, <1>6
<1> QED BY ONLY <1>6, <1>7 DEF Turned

(* and the state follows it outside a sequence.                             *)
LEMMA QuietStatusTurns ==
  ASSUME NEW m \in ModemType, NEW b \in Bearers, NEW s \in {"connecting", "disconnecting"},
         NEW y, y = QuietStatus(m, b, s)
  PROVE  Turned(m, y, b, s)
<1>1. PICK n : n = SetStatus(m, b, s) OBVIOUS
<1>2. Turned(m, n, b, s) /\ n.state = m.state BY <1>1, SetStatusTurns DEF Statuses
<1>3. CASE m.state \in Quiet \/ Connected(n) \ {b} # {}
  <2>1. y = n BY <1>1, <1>3 DEF QuietStatus, Quiet
  <2> QED BY <1>2, <2>1
<1>4. CASE ~(m.state \in Quiet \/ Connected(n) \ {b} # {})
  <2>1. y = SetState(n, s) BY <1>1, <1>4 DEF QuietStatus, Quiet
  <2>2. s \in ToSet(States) /\ s \notin Plain /\ s # "disabled" BY StateSet DEF Plain
  <2>3. n \in ModemType BY <1>2 DEF Turned
  <2>4. /\ y \in ModemType
        /\ OnlyState(n, y)
        /\ y.restored = (n.restored /\ s # "disabled")
        /\ s \notin Plain => y.state = s
    BY <2>1, <2>2, <2>3, SetStateEffect
  <2>5. y.restored = n.restored BY <2>2, <2>3, <2>4 DEF ModemType
  <2> QED BY <1>2, <1>4, <2>2, <2>4, <2>5
          DEF Turned, OnlyState, SameWaits, SameOp, SameBearers, SameLists, SameNetwork
<1> QED BY <1>3, <1>4

(* Attempts and bearers know each other while neither forgets.              *)
LEMMA DialsFrame ==
  ASSUME NEW m \in ModemType, ConnectsOK(m), NEW y, y.connects = m.connects,
         \A b \in Bearers : y.bearers[b].connect = m.bearers[b].connect,
         NEW X, DialsOK(m, X)
  PROVE  DialsOK(y, X)
<1>1. ASSUME NEW c \in Connects \ X, m.connects[c].step = "connect"
      PROVE  y.bearers[m.connects[c].bearer].connect = c
  <2>1. m.bearers[m.connects[c].bearer].connect = c BY <1>1 DEF DialsOK
  <2>2. m.connects[c].bearer \in Bearers
    BY <1>1 DEF ConnectsOK, ConnectOK, ModemType, ConnectType
  <2> QED BY <2>1, <2>2
<1> QED BY <1>1 DEF DialsOK

(* What such a step leaves alone.                                            *)
LEMMA TurnedFrame ==
  ASSUME NEW m \in ModemType, NEW b \in Bearers, NEW s \in {"connecting", "disconnecting"},
         NEW y, Turned(m, y, b, s)
  PROVE  /\ OpOK(m) => OpOK(y)
         /\ ConnectsOK(m) => ConnectsOK(y)
         /\ \A X : ConnectsOK(m) /\ DialsOK(m, X) => DialsOK(y, X)
         /\ ReloadOK(m) => ReloadOK(y)
         /\ LinkOK(m) => LinkOK(y)
         /\ Asleep(m, y)
<1>1. /\ y.op = m.op /\ y.waiters = m.waiters /\ y.ahead = m.ahead /\ y.ongoing = m.ongoing
      /\ y.connects = m.connects /\ y.lists = m.lists
      /\ y.reloads = m.reloads /\ y.reloading = m.reloading
  BY DEF Turned, SameWaits, SameOp, SameLists, SameNetwork
<1>2. y.state = m.state \/ (y.state \in {"connecting", "disconnecting"} /\ m.state \notin Quiet)
  BY DEF Turned
<1>3. OpOK(m) => OpOK(y) BY <1>1, <1>2 DEF OpOK, Undertaken, Quiet
<1>4. ConnectsOK(m) => ConnectsOK(y) BY <1>1 DEF ConnectsOK, ConnectOK
<1>5. \A d \in Bearers : y.bearers[d].connect = m.bearers[d].connect BY DEF Turned
<1>6. ASSUME NEW X, ConnectsOK(m), DialsOK(m, X) PROVE DialsOK(y, X)
  BY <1>1, <1>5, <1>6, DialsFrame
<1>7. ReloadOK(m) => ReloadOK(y) BY <1>1 DEF ReloadOK
<1>8. LinkOK(m) => LinkOK(y) BY <1>1 DEF LinkOK
<1>9. Asleep(m, y)
  BY <1>1, <1>2 DEF Asleep, ConnectsSleep, OpSleeps, Wanted, Intermediate
<1> QED BY <1>3, <1>4, <1>6, <1>7, <1>8, <1>9

(* A bearer that is dialing or connected is asked to disconnect.             *)
Asked(m, y, b, who) ==
  /\ y \in ModemType /\ SameLists(m, y)
  /\ BearersOK(y) /\ ConnectsOK(y) /\ OpOK(y) /\ LinkOK(y) /\ ReloadOK(y)
  /\ \A X : DialsOK(m, X) => DialsOK(y, X)
  /\ y.bearers[b].by = who /\ m.bearers[b].by = None
  /\ \A d \in Bearers \ {b} : y.bearers[d].by = m.bearers[d].by
  /\ Asleep(m, y)

(* Cancelled while it dials, or hung up.                                    *)
LEMMA AskedByOK ==
  ASSUME NEW m \in ModemType, BearersOK(m), ConnectsOK(m), OpOK(m), LinkOK(m), ReloadOK(m),
         NEW b \in Bearers, NEW who \in {"op", "user", "client"},
         NEW hanging \in {"no", "user"},
         \/ m.bearers[b].status = "connecting" /\ hanging = "no"
         \/ m.bearers[b].status = "connected" /\ hanging = "user",
         NEW y, y = QuietStatus(AskedBy(m, b, who, hanging), b, "disconnecting")
  PROVE  Asked(m, y, b, who)
<1>1. PICK n : n = AskedBy(m, b, who, hanging) OBVIOUS
<1>2. m.bearers[b] \in BearerType BY DEF ModemType
<1>3. PICK k \in BOOLEAN : k = (m.bearers[b].cancelled \/ m.bearers[b].status = "connecting")
  OBVIOUS
<1>4. PICK r : r = [m.bearers[b] EXCEPT !.by = who, !.hanging = hanging, !.cancelled = k] OBVIOUS
<1>5. /\ r \in BearerType /\ r.status = m.bearers[b].status /\ r.dialing = m.bearers[b].dialing
      /\ r.cancelled = k /\ r.hanging = hanging /\ r.by = who /\ r.connect = m.bearers[b].connect
  BY <1>2, <1>3, <1>4 DEF BearerType
<1>6. n = WithBearers(m, m.list, PutBearer(m, b, r))
  <2>1. PICK z : z = (m.bearers[b].cancelled \/ m.bearers[b].status = "connecting") OBVIOUS
  <2>2. z = k BY <1>3, <2>1
  <2>3. PICK q : q = [m.bearers[b] EXCEPT !.by = who, !.hanging = hanging, !.cancelled = z] OBVIOUS
  <2>4. q = r BY <1>4, <2>2, <2>3
  <2>5. n = [m EXCEPT !.bearers[b] = q] BY <1>1, <2>1, <2>3, Zenon DEF AskedBy
  <2> QED BY <2>4, <2>5 DEF WithBearers, PutBearer, ModemType
<1>7. BearerPut(m, n, b, r) BY <1>5, <1>6, BearerPutEffect
<1>8. /\ n \in ModemType /\ n.list = m.list /\ n.bearers[b] = r
      /\ \A d \in Bearers \ {b} : n.bearers[d] = m.bearers[d]
      /\ n.op = m.op /\ n.state = m.state /\ n.waiters = m.waiters /\ n.ahead = m.ahead
      /\ n.ongoing = m.ongoing /\ n.connects = m.connects /\ n.lists = m.lists
      /\ n.reloads = m.reloads /\ n.reloading = m.reloading
  BY <1>7 DEF BearerPut, OnlyBearers, SameState, SameWaits, SameOp, SameLists, SameNetwork
<1>9. y = QuietStatus(n, b, "disconnecting") BY <1>1
<1>10. Turned(n, y, b, "disconnecting") BY <1>8, <1>9, QuietStatusTurns
<1>11. OpOK(n) BY <1>8 DEF OpOK, Undertaken
<1>12. ConnectsOK(n) BY <1>8 DEF ConnectsOK, ConnectOK
<1>13. ReloadOK(n) /\ LinkOK(n) BY <1>8 DEF ReloadOK, LinkOK
<1>14. \A X : DialsOK(m, X) => DialsOK(n, X)
  <2>1. \A d \in Bearers : n.bearers[d].connect = m.bearers[d].connect BY <1>5, <1>8
  <2> QED BY <1>8, <2>1, DialsFrame
<1>15. Asleep(m, n) BY <1>8 DEF Asleep, ConnectsSleep, OpSleeps, Wanted
<1>16. /\ OpOK(n) => OpOK(y)
       /\ ConnectsOK(n) => ConnectsOK(y)
       /\ \A X : ConnectsOK(n) /\ DialsOK(n, X) => DialsOK(y, X)
       /\ ReloadOK(n) => ReloadOK(y)
       /\ LinkOK(n) => LinkOK(y)
       /\ Asleep(n, y)
  BY <1>8, <1>10, TurnedFrame
<1>17. /\ y \in ModemType /\ y.list = m.list /\ SameLists(m, y)
       /\ \A d \in Bearers \ {b} : y.bearers[d] = m.bearers[d]
       /\ y.bearers[b].status = "disconnecting" /\ y.bearers[b].dialing = m.bearers[b].dialing
       /\ y.bearers[b].cancelled = k /\ y.bearers[b].hanging = hanging
       /\ y.bearers[b].by = who /\ y.bearers[b].connect = m.bearers[b].connect
  BY <1>5, <1>8, <1>10 DEF Turned, SameLists
<1>18. BearerOK(m.bearers[b]) /\ b \in Listed(m) BY DEF BearersOK
<1>19. BearerOK(y.bearers[b])
  BY <1>3, <1>17, <1>18 DEF BearerOK
<1>20. BearersOK(y)
  BY <1>17, <1>18, <1>19 DEF BearersOK, Listed
<1>21. m.bearers[b].by = None BY <1>18 DEF BearerOK
<1>22. Asleep(m, y) BY <1>15, <1>16 DEF Asleep
<1> QED BY <1>11, <1>12, <1>13, <1>14, <1>16, <1>17, <1>20, <1>21, <1>22 DEF Asked

----------------------------------------------------------------------------
(* The disconnections of the whole list.                                    *)
PutList(m, w, r) == [m.lists EXCEPT ![w] = r]

ListPut(m, y, w, r) ==
  /\ y \in ModemType /\ OnlyLists(m, y) /\ y.lists[w] = r
  /\ \A v \in {"op", "user"} \ {w} : y.lists[v] = m.lists[v]

(* Putting a record changes this disconnection only.                        *)
LEMMA ListPutEffect ==
  ASSUME NEW m \in ModemType, NEW w \in {"op", "user"}, NEW r \in ListType,
         NEW y, y = WithLists(m, PutList(m, w, r))
  PROVE  ListPut(m, y, w, r)
<1>1. PICK f : f = PutList(m, w, r) OBVIOUS
<1>2. /\ f \in [{"op", "user"} -> ListType] /\ f[w] = r
      /\ \A v \in {"op", "user"} \ {w} : f[v] = m.lists[v]
  BY <1>1 DEF PutList, ModemType
<1>3. y \in ModemType /\ y.lists = f /\ OnlyLists(m, y) BY <1>1, <1>2, PutLists
<1> QED BY <1>2, <1>3 DEF ListPut

(* What they leave alone.                                                    *)
ListFrame(m, y, w) ==
  /\ OpOK(m) => OpOK(y)
  /\ \A X : Sound(m, X) => Sound(y, X)
  /\ \A S : ListsOK(m, S) => \A v \in {"op", "user"} \ {w} : IF v \in S THEN Owed(y, v) ELSE ListOK(y, v)
  /\ w = "user" /\ LinkOK(m) => LinkOK(y)
  /\ y.op = m.op /\ y.bearers = m.bearers /\ y.list = m.list /\ y.state = m.state
  /\ Asleep(m, y)

(* Nothing but the disconnection itself is disturbed.                       *)
LEMMA ListPutFrame ==
  ASSUME NEW m \in ModemType, NEW w \in {"op", "user"}, NEW r, NEW y, ListPut(m, y, w, r)
  PROVE  ListFrame(m, y, w)
<1>1. /\ y \in ModemType /\ y.op = m.op /\ y.waiters = m.waiters /\ y.ahead = m.ahead
      /\ y.ongoing = m.ongoing /\ y.connects = m.connects /\ y.bearers = m.bearers /\ y.list = m.list
      /\ y.reloads = m.reloads /\ y.reloading = m.reloading /\ y.state = m.state
  BY DEF ListPut, OnlyLists, SameWaits, SameOp, SameBearers, SameNetwork, SameState
<1>2. OpOK(m) => OpOK(y) BY <1>1 DEF OpOK, Undertaken
<1>3. BearersOK(m) => BearersOK(y) BY <1>1 DEF BearersOK, Listed
<1>4. ConnectsOK(m) => ConnectsOK(y) BY <1>1 DEF ConnectsOK, ConnectOK
<1>5. \A X : DialsOK(m, X) => DialsOK(y, X) BY <1>1, DialsSame
<1>6. ReloadOK(m) => ReloadOK(y) BY <1>1 DEF ReloadOK
<1>7. \A X : Sound(m, X) => Sound(y, X) BY <1>1, <1>3, <1>4, <1>5, <1>6 DEF Sound
<1>8. ASSUME NEW S, ListsOK(m, S), NEW v \in {"op", "user"} \ {w}
      PROVE  IF v \in S THEN Owed(y, v) ELSE ListOK(y, v)
  <2>1. y.lists[v] = m.lists[v] BY DEF ListPut
  <2> QED BY <1>1, <1>8, <2>1 DEF ListsOK, ListOK, Owed
<1>9. w = "user" /\ LinkOK(m) => LinkOK(y) BY <1>1 DEF LinkOK, ListPut
<1>10. Asleep(m, y) BY <1>1 DEF Asleep, ConnectsSleep, OpSleeps, Wanted
<1> QED BY <1>1, <1>2, <1>7, <1>8, <1>9, <1>10 DEF ListFrame

(* The answer is put beside the rest.                                       *)
LEMMA SetAnswerPuts ==
  ASSUME NEW m \in ModemType, NEW w \in {"op", "user"}, NEW a \in {"none", "ok", "error"},
         NEW y, y = SetAnswer(m, w, a)
  PROVE  \E r \in ListType : /\ ListPut(m, y, w, r)
                             /\ r.busy = m.lists[w].busy /\ r.pending = m.lists[w].pending /\ r.answer = a
<1>1. m.lists[w] \in ListType BY DEF ModemType
<1>2. PICK r : r = [m.lists[w] EXCEPT !.answer = a] OBVIOUS
<1>3. r \in ListType /\ r.busy = m.lists[w].busy /\ r.pending = m.lists[w].pending /\ r.answer = a
  BY <1>1, <1>2 DEF ListType
<1>4. y = WithLists(m, PutList(m, w, r)) BY <1>2 DEF SetAnswer, WithLists, PutList
<1>5. ListPut(m, y, w, r) BY <1>3, <1>4, ListPutEffect
<1> QED BY <1>3, <1>5

(* Disconnect when it is refused or needs nothing.                           *)
LEMMA AnsweredOK ==
  ASSUME NEW m \in ModemType, NEW X, NEW S, Fine(m, X, S), NEW w \in {"op", "user"}, w \in S,
         NEW a \in {"ok", "error"}, NEW y, y = SetAnswer(m, w, a)
  PROVE  Fine(y, X, S \ {w}) /\ Asleep(m, y)
<1>1. PICK r \in ListType : /\ ListPut(m, y, w, r)
                            /\ r.busy = m.lists[w].busy /\ r.pending = m.lists[w].pending /\ r.answer = a
  BY SetAnswerPuts
<1>2. ListFrame(m, y, w) BY <1>1, ListPutFrame
<1>3. Owed(m, w) BY DEF Fine, ListsOK
<1>4. y.lists[w] = r BY <1>1 DEF ListPut
<1>5. ListOK(y, w)
  <2>1. y.lists[w].busy /\ y.lists[w].answer \in {"ok", "error"} BY <1>1, <1>3, <1>4 DEF Owed
  <2>2. \A b \in Bearers : y.bearers[b].by # w BY <1>2, <1>3 DEF Owed, ListFrame
  <2> QED BY <2>1, <2>2 DEF ListOK
<1>6. LinkOK(y)
  <2>1. CASE w = "user" BY <1>2, <2>1 DEF Fine, ListFrame
  <2>2. CASE w = "op" BY <1>1, <1>2, <1>4, <2>2 DEF Fine, LinkOK, ListFrame
  <2> QED BY <2>1, <2>2
<1>7. ListsOK(y, S \ {w})
  <2>1. ListsOK(m, S) BY DEF Fine
  <2>2. \A v \in {"op", "user"} \ {w} : IF v \in S THEN Owed(y, v) ELSE ListOK(y, v)
    BY <1>2, <2>1 DEF ListFrame
  <2> QED BY <1>5, <2>2 DEF ListsOK
<1> QED BY <1>2, <1>6, <1>7 DEF Fine, ListFrame

(* Disconnect when the bearer goes down: it will answer.                    *)
LEMMA AskedFine ==
  ASSUME NEW m \in ModemType, NEW X, NEW S, Fine(m, X, S), NEW b \in Bearers,
         NEW who \in {"op", "user", "client"},
         who # "client" => who \in S /\ m.lists[who].answer = "none",
         NEW y, Asked(m, y, b, who)
  PROVE  Fine(y, X, S \ {who}) /\ Asleep(m, y)
<1>1. y.lists = m.lists BY DEF Asked, SameLists
<1>2. ListsOK(m, S) BY DEF Fine
<1>3. /\ y.bearers[b].by = who /\ m.bearers[b].by = None
      /\ \A d \in Bearers \ {b} : y.bearers[d].by = m.bearers[d].by
  BY DEF Asked
<1>4. ASSUME NEW v \in {"op", "user"} PROVE IF v \in S \ {who} THEN Owed(y, v) ELSE ListOK(y, v)
  <2>1. v # None BY ModemStateAssumption
  <2>2. CASE v = who
    <3>1. Owed(m, v) BY <1>2, <2>2 DEF ListsOK
    <3>2. m.lists[v].busy /\ m.lists[v].answer = "none" /\ \A d \in Bearers : m.bearers[d].by # v
      BY <2>2, <3>1 DEF Owed
    <3> QED BY <1>1, <1>3, <2>2, <3>2 DEF ListOK
  <2>3. CASE v # who
    <3>1. \A d \in Bearers : y.bearers[d].by = v <=> m.bearers[d].by = v BY <1>3, <2>1, <2>3
    <3>2. IF v \in S THEN Owed(m, v) ELSE ListOK(m, v) BY <1>2 DEF ListsOK
    <3>3. CASE v \in S BY <1>1, <2>3, <3>1, <3>2, <3>3 DEF Owed
    <3>4. CASE v \notin S
      <4>1. ListOK(m, v) BY <3>2, <3>4
      <4>2. ListOK(y, v) BY <1>1, <3>1, <4>1 DEF ListOK
      <4> QED BY <3>4, <4>2
    <3> QED BY <3>3, <3>4
  <2> QED BY <2>2, <2>3
<1>5. ListsOK(y, S \ {who}) BY <1>4 DEF ListsOK
<1> QED BY <1>5 DEF Fine, Sound, Asked

(* One bearer of a list's disconnection.                                     *)
LEMMA DisconnectOK ==
  ASSUME NEW m \in ModemType, NEW X, NEW S, Fine(m, X, S), NEW b \in Bearers,
         NEW who \in {"op", "user"}, who \in S, m.lists[who].answer = "none",
         NEW y, y = Disconnect(m, b, who)
  PROVE  Fine(y, X, S \ {who}) /\ Asleep(m, y)
<1>1. m.bearers[b].status \in Statuses BY DEF ModemType, BearerType
<1>2. CASE m.bearers[b].status = "disconnected"
  <2>1. y = SetAnswer(m, who, "ok") BY <1>2 DEF Disconnect
  <2> QED BY <2>1, AnsweredOK
<1>3. CASE m.bearers[b].status = "disconnecting"
  <2>1. y = SetAnswer(m, who, "error") BY <1>3 DEF Disconnect
  <2> QED BY <2>1, AnsweredOK
<1>4. CASE m.bearers[b].status = "connecting"
  <2>1. y = QuietStatus(AskedBy(m, b, who, "no"), b, "disconnecting") BY <1>4 DEF Disconnect
  <2>2. Asked(m, y, b, who) BY <1>4, <2>1, AskedByOK DEF Fine, Sound
  <2> QED BY <2>2, AskedFine
<1>5. CASE m.bearers[b].status = "connected"
  <2>1. y = QuietStatus(AskedBy(m, b, who, "user"), b, "disconnecting") BY <1>5 DEF Disconnect
  <2>2. Asked(m, y, b, who) BY <1>5, <2>1, AskedByOK DEF Fine, Sound
  <2> QED BY <2>2, AskedFine
<1> QED BY <1>1, <1>2, <1>3, <1>4, <1>5 DEF Statuses

(* A step of the sequence is put beside the rest.                           *)
LEMMA OpStepPuts ==
  ASSUME NEW m \in ModemType, NEW s \in {"starting", "modem", "threegpp", "bearers", "undoing"},
         NEW y, y = OpStep(m, s)
  PROVE  \E o \in OpType : /\ y = WithOp(m, o) /\ y \in ModemType /\ y.op = o /\ OnlyOp(m, y)
                           /\ o.step = s /\ o.kind = m.op.kind /\ o.by = m.op.by
                           /\ o.seen = m.op.seen /\ o.previous = m.op.previous
<1>1. PICK o : o = [m.op EXCEPT !.step = s] OBVIOUS
<1>2. /\ o \in OpType /\ o.step = s /\ o.kind = m.op.kind /\ o.by = m.op.by
      /\ o.seen = m.op.seen /\ o.previous = m.op.previous
  BY <1>1 DEF ModemType, OpType
<1>3. y = WithOp(m, o) BY <1>1 DEF OpStep, WithOp
<1>4. y \in ModemType /\ y.op = o /\ OnlyOp(m, y) BY <1>2, <1>3, PutOp
<1> QED BY <1>2, <1>3, <1>4

(* The sequence moves on.                                                    *)
LEMMA OpFrame ==
  ASSUME NEW m \in ModemType, NEW y \in ModemType, OnlyOp(m, y), y.op.by = m.op.by,
         y.op.by # None => y.op.kind = "enable"
  PROVE  /\ \A X : Sound(m, X) => Sound(y, X)
         /\ \A S : ListsOK(m, S) => ListsOK(y, S)
         /\ Asleep(m, y)
<1>1. /\ y.waiters = m.waiters /\ y.ahead = m.ahead /\ y.state = m.state
      /\ y.ongoing = m.ongoing /\ y.connects = m.connects /\ y.bearers = m.bearers /\ y.list = m.list
      /\ y.reloads = m.reloads /\ y.reloading = m.reloading /\ y.lists = m.lists
  BY DEF OnlyOp, SameState, SameWaits, SameBearers, SameLists, SameNetwork
<1>2. BearersOK(m) => BearersOK(y) BY <1>1 DEF BearersOK, Listed
<1>3. ConnectsOK(m) => ConnectsOK(y) BY <1>1 DEF ConnectsOK, ConnectOK
<1>4. \A X : DialsOK(m, X) => DialsOK(y, X) BY <1>1, DialsSame
<1>5. ReloadOK(m) => ReloadOK(y) BY <1>1 DEF ReloadOK
<1>6. \A X : Sound(m, X) => Sound(y, X) BY <1>2, <1>3, <1>4, <1>5 DEF Sound
<1>7. ASSUME NEW S, ListsOK(m, S) PROVE ListsOK(y, S)
  BY <1>1, <1>7 DEF ListsOK, ListOK, Owed
<1>8. Asleep(m, y) BY <1>1 DEF Asleep, ConnectsSleep, OpSleeps, Wanted
<1> QED BY <1>6, <1>7, <1>8

(* A sequence that disconnects the bearers is disabling.                    *)
LEMMA BearersStep ==
  ASSUME NEW m \in ModemType, OpOK(m), m.op.step = "bearers"
  PROVE  /\ m.op.kind = "disable" /\ m.state = "disabling" /\ m.op.previous \in Final \ {"disabled"}
         /\ "op" \notin m.waiters /\ m.op.seen = None
BY DEF OpOK, Undertaken, NoOp, ModemType, OpType

(* The end of a disconnection is told to the sequence that waits for it.    *)
LEMMA ListDoneOK ==
  ASSUME NEW m \in ModemType, NEW X, NEW S, Fine(m, X, S), NEW who \in {"op", "user"}, who \in S,
         NEW ok \in BOOLEAN, NEW y, y = ListDone(m, who, ok)
  PROVE  Fine(y, X, S \ {who}) /\ Asleep(m, y)
<1>1. PICK n : n = [m EXCEPT !.lists[who] = NoList] OBVIOUS
<1>2. n = WithLists(m, PutList(m, who, NoList)) BY <1>1 DEF WithLists, PutList
<1>3. ListPut(m, n, who, NoList) BY <1>2, Nothing, ListPutEffect
<1>4. ListFrame(m, n, who) BY <1>3, ListPutFrame
<1>5. Owed(m, who) BY DEF Fine, ListsOK
<1>6. n.lists[who] = NoList /\ n \in ModemType BY <1>3 DEF ListPut
<1>7. ~NoList.busy /\ NoList.answer = "none" BY DEF NoList
<1>8. ListOK(n, who)
  <2>1. \A b \in Bearers : n.bearers[b].by # who BY <1>4, <1>5 DEF Owed, ListFrame
  <2> QED BY <1>6, <1>7, <2>1 DEF ListOK
<1>9. ListsOK(n, S \ {who})
  <2>1. \A v \in {"op", "user"} \ {who} : IF v \in S THEN Owed(n, v) ELSE ListOK(n, v)
    BY <1>4 DEF Fine, ListFrame
  <2> QED BY <1>8, <2>1 DEF ListsOK
<1>10. Sound(n, X) /\ OpOK(n) BY <1>4 DEF Fine, ListFrame
<1>11. CASE who = "user"
  <2>1. y = n BY <1>1, <1>11 DEF ListDone
  <2> QED BY <1>4, <1>9, <1>10, <1>11, <2>1 DEF Fine, ListFrame
<1>12. CASE who = "op"
  <2>1. m.op.step = "bearers" BY <1>5, <1>12 DEF Fine, LinkOK, Owed
  <2>2. /\ m.op.kind = "disable" /\ m.state = "disabling" /\ m.op.previous \in Final \ {"disabled"}
        /\ "op" \notin m.waiters /\ m.op.seen = None
    BY <2>1, BearersStep DEF Fine
  <2>3. CASE ok
    <3>1. y = OpStep(n, "threegpp") BY <1>1, <1>12, <2>3, ModemStateAssumption DEF ListDone
    <3>2. PICK o \in OpType : /\ y = WithOp(n, o) /\ y \in ModemType /\ y.op = o /\ OnlyOp(n, y)
                              /\ o.step = "threegpp" /\ o.kind = n.op.kind /\ o.by = n.op.by
                              /\ o.seen = n.op.seen /\ o.previous = n.op.previous
      BY <1>6, <3>1, OpStepPuts
    <3>3. y.op.by # None => y.op.kind = "enable" BY <1>10, <3>2 DEF Sound, ConnectsOK
    <3>4. /\ \A Z : Sound(n, Z) => Sound(y, Z)
          /\ \A Z : ListsOK(n, Z) => ListsOK(y, Z)
          /\ Asleep(n, y)
      BY <1>6, <3>2, <3>3, OpFrame
    <3>5. /\ y.op.step = "threegpp" /\ y.op.kind = "disable" /\ y.op.seen = None
          /\ y.op.previous \in Final \ {"disabled"} /\ y.state = "disabling" /\ "op" \notin y.waiters
          /\ y.lists = n.lists
      <4>1. n.waiters = m.waiters BY <1>3 DEF ListPut, OnlyLists, SameWaits
      <4> QED BY <1>4, <2>2, <3>2, <4>1 DEF ListFrame, OnlyOp, SameState, SameWaits, SameLists
    <3>6. OpOK(y) BY <3>5 DEF OpOK, Undertaken
    <3>7. LinkOK(y) BY <1>6, <1>7, <1>12, <3>5 DEF LinkOK
    <3>8. Asleep(m, y) BY <1>4, <3>4 DEF Asleep, ListFrame
    <3> QED BY <1>9, <1>10, <1>12, <3>4, <3>6, <3>7, <3>8 DEF Fine
  <2>4. CASE ~ok
    <3>1. y = OpFailed(n) BY <1>1, <1>12, <2>4, ModemStateAssumption DEF ListDone
    <3>2. n.op.previous \notin Quiet /\ n.op.previous # "disabled" /\ n.op.kind = "disable"
      BY <1>4, <2>2 DEF Final, Quiet, ListFrame
    <3>3. ConnectsOK(n) /\ BearersOK(n) /\ DialsOK(n, X) /\ ReloadOK(n) BY <1>10 DEF Sound
    <3>4. OpOver(n, y) /\ y.state \notin Quiet BY <1>6, <3>1, <3>2, <3>3, OpFailedOK
    <3>5. ~n.lists["op"].busy BY <1>6, <1>7, <1>12
    <3>6. Fine(y, X, S \ {who}) /\ OpSleeps(y) BY <1>6, <1>9, <3>3, <3>4, <3>5, OpOverFine
    <3>7. Asleep(m, y) BY <1>4, <3>4, <3>6 DEF OpOver, Asleep, ListFrame
    <3> QED BY <3>6, <3>7
  <2> QED BY <2>3, <2>4
<1> QED BY <1>11, <1>12

(* A list's disconnection is begun or goes on with one bearer less.          *)
Begun(m, w, p) == [m EXCEPT !.lists[w] = [busy |-> TRUE, pending |-> p, answer |-> "none"]]

Owing(m, n, w, p, X, S) ==
  /\ Fine(n, X, S \union {w}) /\ Asleep(m, n) /\ n \in ModemType
  /\ n.lists[w].answer = "none" /\ n.lists[w].pending = p /\ n.list = m.list

(* It owes a disconnection of the next one.                                 *)
LEMMA OwesOK ==
  ASSUME NEW m \in ModemType, NEW X, NEW S, Sound(m, X), OpOK(m), ListsOK(m, S),
         NEW who \in {"op", "user"}, \A b \in Bearers : m.bearers[b].by # who,
         who = "user" => LinkOK(m), who = "op" => m.op.step = "bearers",
         NEW p \in Seq(Bearers),
         NEW n, n = Begun(m, who, p)
  PROVE  Owing(m, n, who, p, X, S)
<1>1. PICK r : r = [busy |-> TRUE, pending |-> p, answer |-> "none"] OBVIOUS
<1>2. r \in ListType /\ r.busy /\ r.pending = p /\ r.answer = "none" BY <1>1 DEF ListType
<1>3. n = WithLists(m, PutList(m, who, r)) BY <1>1 DEF Begun, WithLists, PutList
<1>4. ListPut(m, n, who, r) BY <1>2, <1>3, ListPutEffect
<1>5. ListFrame(m, n, who) BY <1>4, ListPutFrame
<1>6. n.lists[who] = r /\ n \in ModemType BY <1>4 DEF ListPut
<1>7. Owed(n, who) BY <1>2, <1>5, <1>6 DEF Owed, ListFrame
<1>8. ListsOK(n, S \union {who})
  <2>1. \A v \in {"op", "user"} \ {who} : IF v \in S THEN Owed(n, v) ELSE ListOK(n, v)
    BY <1>5 DEF ListFrame
  <2> QED BY <1>7, <2>1 DEF ListsOK
<1>9. LinkOK(n) BY <1>2, <1>5, <1>6 DEF LinkOK, ListFrame
<1> QED BY <1>2, <1>5, <1>6, <1>8, <1>9 DEF Fine, ListFrame, Owing

(* disconnect_bearers_next pays it, or ends the disconnection;              *)
LEMMA DisconnectNextOK ==
  ASSUME NEW m \in ModemType, NEW X, NEW S, Fine(m, X, S), NEW who \in {"op", "user"}, who \in S,
         NEW y, y = DisconnectNext(m, who)
  PROVE  Fine(y, X, S \ {who}) /\ Asleep(m, y)
<1>1. PICK left \in Seq(Bearers) : left = m.lists[who].pending BY DEF ModemType, ListType
<1>2. CASE left = <<>>
  <2>1. y = ListDone(m, who, TRUE) BY <1>1, <1>2 DEF DisconnectNext
  <2> QED BY <2>1, ListDoneOK
<1>3. CASE left # <<>>
  <2>1. PICK p \in Seq(Bearers) : p = Tail(left) BY <1>3, HeadTailProperties
  <2>2. PICK b \in Bearers : b = Head(left) BY <1>3, HeadTailProperties
  <2>3. PICK n : n = Begun(m, who, p)
    OBVIOUS
  <2>4. Owed(m, who) BY DEF Fine, ListsOK
  <2>5. (\A d \in Bearers : m.bearers[d].by # who) /\ (who = "op" => m.op.step = "bearers")
    BY <2>4 DEF Owed, Fine, LinkOK
  <2>6. Sound(m, X) /\ OpOK(m) /\ ListsOK(m, S) /\ LinkOK(m) BY DEF Fine
  <2>7. Owing(m, n, who, p, X, S) BY <2>3, <2>5, <2>6, OwesOK
  <2>8. y = Disconnect(n, b, who) BY <1>1, <1>3, <2>1, <2>2, <2>3, Zenon DEF DisconnectNext, Begun
  <2>9. PICK T : T = S \union {who} OBVIOUS
  <2>10. Fine(y, X, T \ {who}) /\ Asleep(n, y) BY <2>7, <2>8, <2>9, DisconnectOK DEF Owing
  <2>11. T \ {who} = S \ {who} BY <2>9
  <2> QED BY <2>7, <2>10, <2>11 DEF Asleep, Owing
<1> QED BY <1>2, <1>3

(* so does the answer of a bearer.                                          *)
LEMMA BearerDisconnectReadyOK ==
  ASSUME NEW m \in ModemType, NEW X, NEW S, Fine(m, X, S), NEW who \in {"op", "user"}, who \in S,
         NEW ok \in BOOLEAN, NEW y, y = BearerDisconnectReady(m, who, ok)
  PROVE  Fine(y, X, S \ {who}) /\ Asleep(m, y)
<1>1. CASE ok
  <2>1. y = DisconnectNext(m, who) BY <1>1 DEF BearerDisconnectReady
  <2> QED BY <2>1, DisconnectNextOK
<1>2. CASE ~ok
  <2>1. y = ListDone(m, who, FALSE) BY <1>2 DEF BearerDisconnectReady
  <2> QED BY <2>1, ListDoneOK
<1> QED BY <1>1, <1>2

(* The bearers are disconnected in the order they were created.             *)
LEMMA ReverseListed ==
  ASSUME NEW l \in Seq(Bearers)
  PROVE  Reverse(l) \in Seq(Bearers) /\ ToSet(Reverse(l)) = ToSet(l)
<1>1. PICK n \in Nat : n = Len(l) OBVIOUS
<1>2. PICK s : s = Reverse(l) OBVIOUS
<1>3. s = [i \in 1 .. n |-> l[(n - i) + 1]] BY <1>1, <1>2 DEF Reverse
<1>4. \A i \in 1 .. n : (n - i) + 1 \in 1 .. n OBVIOUS
<1>5. s \in Seq(Bearers) /\ Len(s) = n BY <1>1, <1>3, <1>4
<1>6. \A i \in 1 .. n : s[i] = l[(n - i) + 1] BY <1>3
<1>7. \A i \in 1 .. n : l[i] = s[(n - i) + 1] BY <1>4, <1>6
<1>8. \A x : x \in ToSet(s) <=> \E i \in 1 .. n : s[i] = x BY <1>5 DEF ToSet
<1>9. \A x : x \in ToSet(l) <=> \E i \in 1 .. n : l[i] = x BY <1>1 DEF ToSet
<1>10. ASSUME NEW x PROVE x \in ToSet(s) <=> x \in ToSet(l)
  BY <1>4, <1>6, <1>7, <1>8, <1>9
<1> QED BY <1>2, <1>5, <1>10

(* mm_bearer_list_disconnect_bearers, for a sequence or a client.           *)
LEMMA DisconnectBearersOK ==
  ASSUME NEW m \in ModemType, NEW X, NEW S, Sound(m, X), OpOK(m), ListsOK(m, S),
         NEW who \in {"op", "user"} \ S, ~m.lists[who].busy,
         who = "user" => LinkOK(m), who = "op" => m.op.step = "bearers",
         NEW y, y = DisconnectBearers(m, who)
  PROVE  Fine(y, X, S) /\ Asleep(m, y)
<1>1. PICK p \in Seq(Bearers) : p = Reverse(m.list) BY ReverseListed DEF ModemType
<1>2. PICK n : n = Begun(m, who, p)
  OBVIOUS
<1>3. ListOK(m, who) BY DEF ListsOK
<1>4. \A b \in Bearers : m.bearers[b].by # who BY <1>3 DEF ListOK
<1>5. Owing(m, n, who, p, X, S) BY <1>2, <1>4, OwesOK
<1>6. PICK T : T = S \union {who} OBVIOUS
<1>9. T \ {who} = S BY <1>6
<1>10. /\ Fine(n, X, T) /\ Asleep(m, n) /\ n \in ModemType /\ who \in T /\ who \in {"op", "user"}
      /\ n.lists[who].answer = "none"
  BY <1>5, <1>6 DEF Owing
<1>7. CASE m.list = <<>>
  <2>1. y = SetAnswer(n, who, "ok") BY <1>1, <1>2, <1>7, Zenon DEF DisconnectBearers, Begun
  <2>2. Fine(y, X, T \ {who}) /\ Asleep(n, y) BY <1>10, <2>1, AnsweredOK
  <2> QED BY <1>9, <1>10, <2>2 DEF Asleep
<1>8. CASE m.list # <<>>
  <2>1. y = DisconnectNext(n, who) BY <1>1, <1>2, <1>8, Zenon DEF DisconnectBearers, Begun
  <2>2. Fine(y, X, T \ {who}) /\ Asleep(n, y) BY <1>10, <2>1, DisconnectNextOK
  <2> QED BY <1>9, <1>10, <2>2 DEF Asleep
<1> QED BY <1>7, <1>8

----------------------------------------------------------------------------
(* A sequence is told of the state it waited for.                           *)
StateFrame(m, y) ==
  /\ \A X : Sound(m, X) => Sound(y, X)
  /\ \A S : ListsOK(m, S) => ListsOK(y, S)
  /\ LinkOK(m) => LinkOK(y)
  /\ y.op = m.op /\ y.waiters = m.waiters /\ y.connects = m.connects /\ y.lists = m.lists
  /\ y.list = m.list /\ y.bearers = m.bearers

(* A change of the state disturbs nothing but who is in it.                 *)
LEMMA OnlyStateFrame ==
  ASSUME NEW m \in ModemType, NEW y \in ModemType, OnlyState(m, y)
  PROVE  StateFrame(m, y)
<1>1. /\ y.waiters = m.waiters /\ y.ahead = m.ahead /\ y.op = m.op
      /\ y.ongoing = m.ongoing /\ y.connects = m.connects /\ y.bearers = m.bearers /\ y.list = m.list
      /\ y.reloads = m.reloads /\ y.reloading = m.reloading /\ y.lists = m.lists
  BY DEF OnlyState, SameOp, SameWaits, SameBearers, SameLists, SameNetwork
<1>2. BearersOK(m) => BearersOK(y) BY <1>1 DEF BearersOK, Listed
<1>3. ConnectsOK(m) => ConnectsOK(y) BY <1>1 DEF ConnectsOK, ConnectOK
<1>4. \A X : DialsOK(m, X) => DialsOK(y, X) BY <1>1, DialsSame
<1>5. ReloadOK(m) => ReloadOK(y) BY <1>1 DEF ReloadOK
<1>6. \A X : Sound(m, X) => Sound(y, X) BY <1>2, <1>3, <1>4, <1>5 DEF Sound
<1>7. ASSUME NEW S, ListsOK(m, S) PROVE ListsOK(y, S)
  BY <1>1, <1>7 DEF ListsOK, ListOK, Owed
<1>8. LinkOK(m) => LinkOK(y) BY <1>1 DEF LinkOK
<1> QED BY <1>1, <1>6, <1>7, <1>8 DEF StateFrame

(* The sequence begins its work in its own state.                            *)
LEMMA BeginOK ==
  ASSUME NEW m \in ModemType, NEW X, NEW S, Sound(m, X), ListsOK(m, S), "op" \notin m.waiters,
         m.op.seen = None, NEW t \in Quiet,
         t = "enabling" => m.op.kind = "enable" /\ m.op.previous = "disabled",
         t = "disabling" => m.op.kind = "disable" /\ m.op.previous \in Final \ {"disabled"},
         NEW step, step = IF t = "enabling" THEN "starting" ELSE "bearers",
         NEW y, y = OpStep(SetState(m, t), step)
  PROVE  /\ y \in ModemType /\ Sound(y, X) /\ ListsOK(y, S) /\ OpOK(y) /\ AllSleep(y)
         /\ y.op.step = step /\ y.lists = m.lists
<1>1. PICK p : p = SetState(m, t) OBVIOUS
<1>2. t \in ToSet(States) /\ t \notin Plain BY StateSet DEF Quiet, Plain
<1>3. /\ p \in ModemType
      /\ OnlyState(m, p)
      /\ t \notin Plain => p.state = t
  BY <1>1, <1>2, SetStateEffect
<1>4. StateFrame(m, p) BY <1>3, OnlyStateFrame
<1>5. step \in {"starting", "modem", "threegpp", "bearers", "undoing"} OBVIOUS
<1>6. y = OpStep(p, step) BY <1>1
<1>7. PICK o \in OpType : /\ y = WithOp(p, o) /\ y \in ModemType /\ y.op = o /\ OnlyOp(p, y)
                          /\ o.step = step /\ o.kind = p.op.kind /\ o.by = p.op.by
                          /\ o.seen = p.op.seen /\ o.previous = p.op.previous
  BY <1>3, <1>5, <1>6, OpStepPuts
<1>8. y.op.by # None => y.op.kind = "enable"
  BY <1>4, <1>7 DEF StateFrame, Sound, ConnectsOK
<1>9. /\ \A Z : Sound(p, Z) => Sound(y, Z)
      /\ \A Z : ListsOK(p, Z) => ListsOK(y, Z)
      /\ Asleep(p, y)
  BY <1>3, <1>4, <1>7, <1>8, OpFrame DEF StateFrame
<1>10. /\ y.state = t /\ "op" \notin y.waiters /\ y.lists = m.lists
       /\ y.op.step = step /\ y.op.kind = m.op.kind /\ y.op.seen = None /\ y.op.previous = m.op.previous
  BY <1>2, <1>3, <1>4, <1>7 DEF OnlyOp, SameState, SameWaits, SameLists, StateFrame
<1>11. OpOK(y)
  <2>1. CASE t = "enabling" BY <1>10, <2>1 DEF OpOK, Undertaken
  <2>2. CASE t = "disabling" BY <1>10, <2>2 DEF OpOK, Undertaken
  <2> QED BY <2>1, <2>2 DEF Quiet
<1>12. AllSleep(y) BY <1>10 DEF AllSleep, ConnectsSleep, OpSleeps, Wanted, Intermediate, Quiet
<1> QED BY <1>4, <1>7, <1>9, <1>10, <1>11, <1>12 DEF StateFrame

(* The sequence's wait is over.                                             *)
WaitOver(m, s) == [StopWaiting(m, "op") EXCEPT !.op = [@ EXCEPT !.seen = None, !.previous = s]]

(* It has the lock and neither waits nor works.                             *)
LEMMA StopWaitingOp ==
  ASSUME NEW m \in ModemType, NEW X, NEW S, Sound(m, X), ListsOK(m, S), NEW s \in ToSet(States),
         NEW n, n = WaitOver(m, s)
  PROVE  /\ n \in ModemType /\ Sound(n, X) /\ ListsOK(n, S) /\ "op" \notin n.waiters
         /\ n.op.seen = None /\ n.op.previous = s /\ n.op.kind = m.op.kind /\ n.lists = m.lists
         /\ n.bearers = m.bearers /\ n.state = m.state
         /\ ConnectsSleep(m) => ConnectsSleep(n)
<1>1. PICK p : p = WithWaits(m, m.waiters \ {"op"}, {}, m.ongoing, m.connects) OBVIOUS
<1>2. StopWaiting(m, "op") = p BY <1>1 DEF StopWaiting, WithWaits, ModemType
<1>3. /\ m.waiters \ {"op"} \in SUBSET Waiters /\ {} \in SUBSET Connects
      /\ m.ongoing \in Connects \union {None} /\ m.connects \in [Connects -> ConnectType]
  BY DEF ModemType
<1>4. p \in ModemType BY ONLY <1>1, <1>3, PutWaits, m \in ModemType
<1>5. p.waiters = m.waiters \ {"op"} /\ p.ahead = {} /\ p.ongoing = m.ongoing
  BY ONLY <1>1, <1>3, PutWaits, m \in ModemType
<1>6. p.connects = m.connects BY ONLY <1>1, <1>3, PutWaits, m \in ModemType
<1>7. OnlyWaits(m, p) BY ONLY <1>1, <1>3, PutWaits, m \in ModemType
<1>8. PICK o : o = [p.op EXCEPT !.seen = None, !.previous = s] OBVIOUS
<1>9. p.op = m.op BY <1>7 DEF OnlyWaits, SameOp
<1>10. /\ o \in OpType /\ o.seen = None /\ o.previous = s /\ o.kind = m.op.kind /\ o.by = m.op.by
  BY <1>8, <1>9 DEF ModemType, OpType
<1>11. n = WithOp(p, o) BY <1>2, <1>8 DEF WithOp, WaitOver
<1>12. n \in ModemType /\ n.op = o /\ OnlyOp(p, n) BY <1>4, <1>10, <1>11, PutOp
<1>13. /\ n.waiters = m.waiters \ {"op"} /\ n.ahead = {} /\ n.ongoing = m.ongoing
       /\ n.connects = m.connects /\ n.state = m.state /\ n.bearers = m.bearers /\ n.list = m.list
       /\ n.lists = m.lists /\ n.reloads = m.reloads /\ n.reloading = m.reloading
  BY <1>5, <1>6, <1>7, <1>12
     DEF OnlyOp, OnlyWaits, SameWaits, SameState, SameBearers, SameLists, SameNetwork
<1>14. \A c \in Connects : c # "op" BY ModemStateAssumption
<1>15. BearersOK(n) BY <1>13 DEF Sound, BearersOK, Listed
<1>16. ConnectsOK(n) BY <1>10, <1>12, <1>13, <1>14 DEF Sound, ConnectsOK, ConnectOK
<1>17. DialsOK(n, X) /\ ReloadOK(n) BY <1>13, DialsSame DEF Sound, ReloadOK
<1>18. ListsOK(n, S) BY <1>13 DEF ListsOK, ListOK, Owed
<1>19. ConnectsSleep(m) => ConnectsSleep(n) BY <1>13, <1>14 DEF ConnectsSleep, Wanted
<1> QED BY <1>10, <1>12, <1>13, <1>15, <1>16, <1>17, <1>18, <1>19 DEF Sound

(* It fails, is done at once or begins.                                     *)
LEMMA OpToldOK ==
  ASSUME NEW m \in ModemType, NEW X, NEW S, Fine(m, X, S), m.op.step = "waiting",
         NEW s \in ToSet(States) \ Intermediate, NEW y, y = OpTold(m, s)
  PROVE  Fine(y, X, S) /\ OpSleeps(y) /\ (ConnectsSleep(m) => ConnectsSleep(y))
<1>1. Sound(m, X) /\ ListsOK(m, S) /\ OpOK(m) /\ LinkOK(m) BY DEF Fine
<1>2. ~m.lists["op"].busy BY <1>1 DEF LinkOK
<1>3. "op" \notin S BY <1>1, <1>2 DEF ListsOK, Owed
<1>4. m.op.kind \in {"enable", "disable"} BY <1>1 DEF OpOK, NoOp, ModemType, OpType
<1>5. PICK n : n = WaitOver(m, s)
  OBVIOUS
<1>6. /\ n \in ModemType /\ Sound(n, X) /\ ListsOK(n, S) /\ "op" \notin n.waiters
      /\ n.op.seen = None /\ n.op.previous = s /\ n.op.kind = m.op.kind /\ n.lists = m.lists
      /\ n.bearers = m.bearers /\ n.state = m.state
      /\ ConnectsSleep(m) => ConnectsSleep(n)
  BY <1>1, <1>5, StopWaitingOp
<1>7. ConnectsOK(n) /\ BearersOK(n) /\ DialsOK(n, X) /\ ReloadOK(n) BY <1>6 DEF Sound
<1>8. ~n.lists["op"].busy BY <1>2, <1>6
<1>9. ASSUME OpOver(n, y), y.state \notin Quiet
      PROVE  Fine(y, X, S) /\ OpSleeps(y) /\ (ConnectsSleep(m) => ConnectsSleep(y))
  <2>1. Fine(y, X, S) /\ OpSleeps(y) BY <1>6, <1>7, <1>8, <1>9, OpOverFine
  <2> QED BY <1>6, <1>9, <2>1 DEF OpOver
<1>10. CASE s = "unknown"
  <2>1. y = OpFailed(n) BY <1>5, <1>10, Zenon DEF OpTold, WaitOver
  <2>2. n.op.previous \notin Quiet /\ n.op.previous # "disabled" /\ n.op.previous # "enabled"
    BY <1>6, <1>10 DEF Quiet
  <2> QED BY <1>6, <1>7, <1>9, <2>1, <2>2, OpFailedOK
<1>11. CASE s # "unknown" /\ m.op.kind = "enable" /\ Level(s) >= Level("enabled")
  <2>1. y = OpSucceeded(n) BY <1>5, <1>11, Zenon DEF OpTold, WaitOver
  <2> QED BY <1>6, <1>7, <1>9, <2>1, OpSucceededOK
<1>12. CASE s # "unknown" /\ m.op.kind = "enable" /\ ~(Level(s) >= Level("enabled"))
  <2>1. y = OpStep(SetState(n, "enabling"), "starting") BY <1>5, <1>12, Zenon DEF OpTold, WaitOver
  <2>2. s = "disabled" BY <1>12, StateSet, LevelsUp DEF Up, Intermediate
  <2>3. /\ y \in ModemType /\ Sound(y, X) /\ ListsOK(y, S) /\ OpOK(y) /\ AllSleep(y)
        /\ y.op.step = "starting" /\ y.lists = n.lists
    BY <1>6, <1>12, <2>1, <2>2, BeginOK DEF Quiet
  <2>4. LinkOK(y) BY <1>8, <2>3 DEF LinkOK
  <2> QED BY <2>3, <2>4 DEF Fine, AllSleep
<1>13. CASE s # "unknown" /\ m.op.kind = "disable" /\ s = "disabled"
  <2>1. y = OpSucceeded(n) BY <1>5, <1>13, Zenon DEF OpTold, WaitOver
  <2> QED BY <1>6, <1>7, <1>9, <2>1, OpSucceededOK
<1>14. CASE s # "unknown" /\ m.op.kind = "disable" /\ s # "disabled"
  <2>1. PICK p : p = OpStep(SetState(n, "disabling"), "bearers") OBVIOUS
  <2>2. s \in Final \ {"disabled"} BY <1>14, StateSet DEF Final, Intermediate
  <2>3. /\ p \in ModemType /\ Sound(p, X) /\ ListsOK(p, S) /\ OpOK(p) /\ AllSleep(p)
        /\ p.op.step = "bearers" /\ p.lists = n.lists
    BY <1>6, <1>14, <2>1, <2>2, BeginOK DEF Quiet
  <2>4. y = DisconnectBearers(p, "op") BY <1>5, <1>14, <2>1, Zenon DEF OpTold, WaitOver
  <2>5. Fine(y, X, S) /\ Asleep(p, y)
    BY <1>3, <1>8, <2>3, <2>4, DisconnectBearersOK
  <2> QED BY <2>3, <2>5 DEF Asleep, AllSleep
<1> QED BY <1>4, <1>10, <1>11, <1>12, <1>13, <1>14

----------------------------------------------------------------------------
(* Everybody is told, in turn.                                              *)
LEMMA WokenFine ==
  ASSUME NEW m \in ModemType, NEW X, NEW S, Fine(m, X, S), NEW y, Woken(m, y)
  PROVE  Fine(y, X, S) /\ (OpSleeps(m) => OpSleeps(y))
<1>1. OnlyWaits(m, y) /\ ("op" \in y.waiters <=> "op" \in m.waiters) BY DEF Woken
<1>2. /\ OpOK(m) => OpOK(y)
      /\ BearersOK(m) => BearersOK(y)
      /\ ReloadOK(m) => ReloadOK(y)
      /\ OpSleeps(m) => OpSleeps(y)
      /\ LinkOK(m) => LinkOK(y)
      /\ \A Z : ListsOK(m, Z) => ListsOK(y, Z)
  BY <1>1, WaitsFrame
<1> QED BY <1>2 DEF Fine, Sound, Woken

(* The sequence, those before it and those after it.                        *)
LEMMA TellOK ==
  ASSUME NEW m \in ModemType, NEW X, NEW S, Fine(m, X, S), NEW s, m.state = s => AllSleep(m),
         NEW y, y = Tell(s, m)
  PROVE  Fine(y, X, S) /\ AllSleep(y)
<1>1. CASE m.state = s
  <2>1. y = m BY <1>1 DEF Tell
  <2> QED BY <1>1, <2>1
<1>2. CASE m.state # s
  <2>1. PICK first : first = TellConnects(m, m.ahead) OBVIOUS
  <2>2. ConnectsOK(m) /\ OpOK(m) /\ m.ahead \in SUBSET Connects BY DEF Fine, Sound, ModemType
  <2>3. Woken(m, first) BY <2>1, <2>2, TellConnectsWakes
  <2>4. Fine(first, X, S) /\ first \in ModemType BY <2>3, WokenFine DEF Fine, Sound
  <2>5. /\ first.op = m.op /\ first.state = m.state
        /\ "op" \in first.waiters <=> "op" \in m.waiters
    BY <2>3 DEF Woken, OnlyWaits, SameOp, SameState
  <2>6. PICK n : n = IF "op" \in m.waiters /\ Wanted(m, "op") THEN OpTold(first, m.state) ELSE first
    OBVIOUS
  <2>7. y = TellConnects(n, Connects) BY <1>2, <2>1, <2>6 DEF Tell
  <2>8. Fine(n, X, S) /\ OpSleeps(n)
    <3>1. CASE "op" \in m.waiters /\ Wanted(m, "op")
      <4>1. first.op.step = "waiting" BY <2>2, <2>5, <3>1 DEF OpOK
      <4>2. m.state \in ToSet(States) \ Intermediate BY <3>1 DEF Wanted, ModemType
      <4>3. n = OpTold(first, m.state) BY <2>6, <3>1
      <4> QED BY <2>4, <4>1, <4>2, <4>3, OpToldOK
    <3>2. CASE ~("op" \in m.waiters /\ Wanted(m, "op"))
      <4>1. n = first BY <2>6, <3>2
      <4>2. Wanted(first, "op") => Wanted(m, "op") BY <2>5, ModemStateAssumption DEF Wanted
      <4> QED BY <2>4, <2>5, <3>2, <4>1, <4>2 DEF OpSleeps
    <3> QED BY <3>1, <3>2
  <2>9. n \in ModemType /\ ConnectsOK(n) BY <2>8 DEF Fine, Sound
  <2>10. Woken(n, y) /\ ConnectsSleep(y) BY <2>7, <2>9, TellConnectsWakes
  <2>11. Fine(y, X, S) /\ OpSleeps(y) BY <2>8, <2>9, <2>10, WokenFine
  <2> QED BY <2>10, <2>11 DEF AllSleep
<1> QED BY <1>1, <1>2

(* mm_iface_modem_update_state, outside a sequence.                         *)
LEMMA UpdateStateOK ==
  ASSUME NEW m \in ModemType, NEW X, NEW S, Fine(m, X, S), AllSleep(m), m.state \notin Quiet,
         NEW s \in ToSet(States) \ Quiet, NEW y, y = UpdateState(m, s)
  PROVE  Fine(y, X, S) /\ AllSleep(y)
<1>1. PICK p : p = SetState(m, s) OBVIOUS
<1>2. /\ p \in ModemType
      /\ OnlyState(m, p)
      /\ s \notin Plain => p.state = s
      /\ s \in Plain =>
           \/ p.state \in Plain
           \/ /\ p.state = m.state /\ m.state \in {"disconnecting", "connecting", "connected"}
              /\ Connected(m) # {}
  BY <1>1, SetStateEffect
<1>3. p.state \notin Quiet BY <1>2 DEF Plain, Quiet
<1>4. StateFrame(m, p) BY <1>2, OnlyStateFrame
<1>5. OpOK(p) BY <1>3, <1>4 DEF OpOK, Undertaken, StateFrame, Fine, Quiet
<1>6. Fine(p, X, S) BY <1>4, <1>5 DEF Fine, StateFrame
<1>7. p.state = m.state => AllSleep(p)
  BY <1>4 DEF StateFrame, AllSleep, ConnectsSleep, OpSleeps, Wanted
<1>8. y = Tell(m.state, p) BY <1>1 DEF UpdateState
<1> QED BY <1>2, <1>6, <1>7, <1>8, TellOK

(* A bearer is connected or disconnected.                                    *)
LEMMA BearerStatusChangedOK ==
  ASSUME NEW m \in ModemType, NEW b \in Bearers, NEW s \in {"connected", "disconnected"},
         NEW n \in ModemType, n = SetStatus(m, b, s), n.state = m.state,
         NEW X, NEW S, Fine(n, X, S), AllSleep(n),
         NEW y, y = BearerStatusChanged(m, b, s)
  PROVE  Fine(y, X, S) /\ AllSleep(y)
<1>1. CASE m.state \in Quiet \/ Connected(n) \ {b} # {}
  <2>1. y = n BY <1>1 DEF BearerStatusChanged, Quiet
  <2> QED BY <2>1
<1>2. CASE ~(m.state \in Quiet \/ Connected(n) \ {b} # {})
  <2>1. PICK t : t = IF s = "connected" THEN s ELSE m.subsystem OBVIOUS
  <2>2. t \in ToSet(States) \ Quiet BY <2>1, StateSet DEF ModemType, Quiet
  <2>3. y = UpdateState(n, t) BY <1>2, <2>1 DEF BearerStatusChanged, Quiet
  <2> QED BY <1>2, <2>2, <2>3, UpdateStateOK
<1> QED BY <1>1, <1>2

(* All that is wrong with the modem is bearer b, whose attempt is over.       *)
Settling(m, b, X) ==
  /\ m \in ModemType /\ b \in Listed(m)
  /\ ~m.bearers[b].dialing /\ m.bearers[b].connect = None
  /\ \A d \in Bearers \ {b} : /\ BearerOK(m.bearers[d])
                              /\ m.bearers[d].status # "disconnected" => d \in Listed(m)
  /\ ConnectsOK(m) /\ DialsOK(m, X) /\ ReloadOK(m) /\ OpOK(m) /\ ListsOK(m, {}) /\ LinkOK(m)
  /\ AllSleep(m)

(* Its status is told, and who asked for it is answered.                    *)
LEMMA SettleOK ==
  ASSUME NEW m, NEW b \in Bearers, NEW X, Settling(m, b, X),
         NEW s \in {"connected", "disconnected"}, NEW y, y = Settle(m, b, s)
  PROVE  Fine(y, X, {}) /\ AllSleep(y)
<1>1. m \in ModemType BY DEF Settling
<1>2. m.bearers[b] \in BearerType BY <1>1 DEF ModemType
<1>3. PICK who : who = m.bearers[b].by OBVIOUS
<1>4. PICK r : r = [m.bearers[b] EXCEPT !.by = None, !.hanging = "no"] OBVIOUS
<1>5. /\ r \in BearerType /\ r.by = None /\ r.hanging = "no"
      /\ r.dialing = m.bearers[b].dialing /\ r.connect = m.bearers[b].connect
  BY <1>2, <1>4 DEF BearerType
<1>6. PICK p : p = [m EXCEPT !.bearers[b] = r] OBVIOUS
<1>7. p = WithBearers(m, m.list, PutBearer(m, b, r)) BY <1>1, <1>6 DEF WithBearers, PutBearer, ModemType
<1>8. BearerPut(m, p, b, r) BY <1>1, <1>5, <1>7, BearerPutEffect
<1>9. /\ p \in ModemType /\ p.list = m.list /\ p.bearers[b] = r
      /\ \A d \in Bearers \ {b} : p.bearers[d] = m.bearers[d]
      /\ p.op = m.op /\ p.state = m.state /\ p.waiters = m.waiters /\ p.ahead = m.ahead
      /\ p.ongoing = m.ongoing /\ p.connects = m.connects /\ p.lists = m.lists
      /\ p.reloads = m.reloads /\ p.reloading = m.reloading
  BY <1>8 DEF BearerPut, OnlyBearers, SameState, SameWaits, SameOp, SameLists, SameNetwork
<1>10. PICK n : n = SetStatus(p, b, s) OBVIOUS
<1>11. Turned(p, n, b, s) /\ n.state = p.state BY <1>9, <1>10, SetStatusTurns DEF Statuses
<1>12. /\ n \in ModemType /\ n.list = m.list /\ n.state = m.state
       /\ n.bearers[b].status = s /\ ~n.bearers[b].dialing /\ n.bearers[b].hanging = "no"
       /\ n.bearers[b].by = None /\ n.bearers[b].connect = None
       /\ \A d \in Bearers \ {b} : n.bearers[d] = m.bearers[d]
       /\ n.op = m.op /\ n.waiters = m.waiters /\ n.ahead = m.ahead
       /\ n.ongoing = m.ongoing /\ n.connects = m.connects /\ n.lists = m.lists
       /\ n.reloads = m.reloads /\ n.reloading = m.reloading
  BY <1>5, <1>9, <1>11 DEF Turned, SameWaits, SameOp, SameLists, SameNetwork, Settling
<1>13. BearerOK(n.bearers[b]) BY <1>12 DEF BearerOK
<1>14. BearersOK(n) BY <1>12, <1>13 DEF BearersOK, Settling, Listed
<1>15. ConnectsOK(n) BY <1>12 DEF ConnectsOK, ConnectOK, Settling
<1>16. DialsOK(n, X)
  <2>1. \A d \in Bearers : n.bearers[d].connect = m.bearers[d].connect BY <1>12 DEF Settling
  <2>2. ConnectsOK(m) /\ DialsOK(m, X) BY DEF Settling
  <2> QED BY <1>1, <1>12, <2>1, <2>2, DialsFrame
<1>17. ReloadOK(n) /\ OpOK(n) /\ LinkOK(n)
  BY <1>12 DEF ReloadOK, OpOK, Undertaken, LinkOK, Settling
<1>18. PICK S : S = {who} \intersect {"op", "user"} OBVIOUS
<1>19. ASSUME NEW v \in {"op", "user"} PROVE IF v \in S THEN Owed(n, v) ELSE ListOK(n, v)
  <2>1. ListOK(m, v) BY DEF Settling, ListsOK
  <2>2. v # None BY ModemStateAssumption
  <2>3. CASE v = who
    <3>1. \A d \in Bearers : m.bearers[d].by = v => d = b BY <1>3, <2>1, <2>3 DEF ListOK
    <3>2. \A d \in Bearers : n.bearers[d].by # v BY <1>12, <2>2, <3>1
    <3>3. m.lists[v].busy BY <1>3, <2>1, <2>3 DEF ListOK
    <3> QED BY <1>12, <1>18, <2>3, <3>2, <3>3 DEF Owed
  <2>4. CASE v # who
    <3>1. \A d \in Bearers : n.bearers[d].by = v <=> m.bearers[d].by = v BY <1>3, <1>12, <2>2, <2>4
    <3>2. ListOK(n, v) BY <1>12, <2>1, <3>1 DEF ListOK
    <3> QED BY <1>18, <2>4, <3>2
  <2> QED BY <2>3, <2>4
<1>20. Fine(n, X, S)
  BY <1>12, <1>14, <1>15, <1>16, <1>17, <1>19 DEF Fine, Sound, ListsOK
<1>21. AllSleep(n) BY <1>12 DEF AllSleep, ConnectsSleep, OpSleeps, Wanted, Settling
<1>22. PICK q : q = BearerStatusChanged(p, b, s) OBVIOUS
<1>23. Fine(q, X, S) /\ AllSleep(q)
  BY <1>9, <1>10, <1>12, <1>20, <1>21, <1>22, BearerStatusChangedOK
<1>24. q \in ModemType BY <1>23 DEF Fine, Sound
<1>25. y = IF who \in {None, "client"} THEN q ELSE BearerDisconnectReady(q, who, s = "disconnected")
  BY <1>3, <1>4, <1>6, <1>22, Zenon DEF Settle
<1>26. CASE who \in {None, "client"}
  <2>1. S = {} BY <1>18, <1>26, ModemStateAssumption
  <2> QED BY <1>23, <1>25, <1>26, <2>1
<1>27. CASE who \notin {None, "client"}
  <2>1. who \in {"op", "user"} /\ who \in S /\ S \ {who} = {}
    BY <1>2, <1>3, <1>18, <1>27 DEF BearerType
  <2>2. PICK ok \in BOOLEAN : ok = (s = "disconnected") OBVIOUS
  <2>3. y = BearerDisconnectReady(q, who, ok) BY <1>25, <1>27, <2>2
  <2>4. Fine(y, X, S \ {who}) /\ Asleep(q, y)
    BY <1>23, <1>24, <2>1, <2>3, BearerDisconnectReadyOK
  <2> QED BY <1>23, <2>1, <2>4 DEF Asleep, AllSleep
<1> QED BY <1>26, <1>27

----------------------------------------------------------------------------
(* The registration.                                                        *)
OnlyNetwork(m, y) == SameState(m, y) /\ SameWaits(m, y) /\ SameOp(m, y) /\ SameBearers(m, y) /\ SameLists(m, y)

(* The registration disturbs nothing else;                                  *)
LEMMA NetworkFrame ==
  ASSUME NEW m \in ModemType, NEW y \in ModemType, OnlyNetwork(m, y), NEW X, NEW S, Fine(m, X, S), ReloadOK(y)
  PROVE  Fine(y, X, S) /\ Asleep(m, y)
<1>1. /\ y.waiters = m.waiters /\ y.ahead = m.ahead /\ y.op = m.op /\ y.state = m.state
      /\ y.ongoing = m.ongoing /\ y.connects = m.connects /\ y.bearers = m.bearers /\ y.list = m.list
      /\ y.lists = m.lists
  BY DEF OnlyNetwork, SameState, SameOp, SameWaits, SameBearers, SameLists
<1>2. BearersOK(y) BY <1>1 DEF BearersOK, Listed, Fine, Sound
<1>3. ConnectsOK(y) BY <1>1 DEF ConnectsOK, ConnectOK, Fine, Sound
<1>4. DialsOK(y, X) BY <1>1, DialsSame DEF Fine, Sound
<1>5. ListsOK(y, S) BY <1>1 DEF ListsOK, ListOK, Owed, Fine
<1>6. LinkOK(y) /\ OpOK(y) BY <1>1 DEF LinkOK, OpOK, Undertaken, Fine
<1>7. Asleep(m, y) BY <1>1 DEF Asleep, ConnectsSleep, OpSleeps, Wanted
<1> QED BY <1>2, <1>3, <1>4, <1>5, <1>6, <1>7 DEF Fine, Sound

(* its state is the modem's, outside a sequence.                            *)
LEMMA UpdateSubsystemStateOK ==
  ASSUME NEW m \in ModemType, NEW X, NEW S, Fine(m, X, S), AllSleep(m),
         NEW s \in Plain, NEW y, y = UpdateSubsystemState(m, s)
  PROVE  /\ Fine(y, X, S) /\ AllSleep(y)
         /\ m.state \in Quiet => y.op = m.op /\ y.state = m.state
<1>1. PICK n : n = [m EXCEPT !.subsystem = s] OBVIOUS
<1>2. n \in ModemType BY <1>1 DEF ModemType, Plain
<1>3. OnlyNetwork(m, n) /\ n.reloads = m.reloads /\ n.reloading = m.reloading
  BY <1>1 DEF ModemType, OnlyNetwork, SameState, SameWaits, SameOp, SameBearers, SameLists
<1>4. ReloadOK(n) BY <1>3 DEF ReloadOK, Fine, Sound
<1>5. Fine(n, X, S) /\ Asleep(m, n) BY <1>2, <1>3, <1>4, NetworkFrame
<1>6. AllSleep(n) /\ n.state = m.state /\ n.op = m.op
  BY <1>3, <1>5 DEF Asleep, AllSleep, OnlyNetwork, SameState, SameOp
<1>7. CASE m.state \in Quiet
  <2>1. y = n BY <1>1, <1>7 DEF UpdateSubsystemState, Quiet
  <2> QED BY <1>5, <1>6, <2>1
<1>8. CASE m.state \notin Quiet
  <2>1. y = UpdateState(n, s) BY <1>1, <1>8 DEF UpdateSubsystemState, Quiet
  <2>2. s \in ToSet(States) \ Quiet BY StateSet DEF Plain, Quiet
  <2> QED BY <1>2, <1>5, <1>6, <1>8, <2>1, <2>2, UpdateStateOK
<1> QED BY <1>7, <1>8

(* The registration r, and attempts that are cancelled if k.                 *)
Lost(m, r) ==
  LET Cancelled(b) == m.bearers[b].cancelled \/ (r = "unknown" /\ m.bearers[b].status = "connecting")
  IN  [m EXCEPT !.registration = r,
                !.bearers = [b \in Bearers |-> [m.bearers[b] EXCEPT !.cancelled = Cancelled(b)]]]

(* A cancelled attempt is still one.                                        *)
LEMMA LostOK ==
  ASSUME NEW m \in ModemType, NEW X, NEW S, Fine(m, X, S), AllSleep(m),
         NEW r \in {"unknown", "searching"}, NEW y, y = Lost(m, r)
  PROVE  y \in ModemType /\ Fine(y, X, S) /\ AllSleep(y) /\ y.op = m.op /\ y.state = m.state
<1>1. PICK k : k = [b \in Bearers |-> m.bearers[b].cancelled \/ (r = "unknown" /\ m.bearers[b].status = "connecting")]
  OBVIOUS
<1>2. \A b \in Bearers : k[b] \in BOOLEAN /\ (m.bearers[b].cancelled => k[b])
  BY <1>1 DEF ModemType, BearerType
<1>3. PICK f : f = [b \in Bearers |-> [m.bearers[b] EXCEPT !.cancelled = k[b]]] OBVIOUS
<1>4. ASSUME NEW b \in Bearers
      PROVE  /\ f[b] \in BearerType
             /\ f[b].status = m.bearers[b].status /\ f[b].dialing = m.bearers[b].dialing
             /\ f[b].hanging = m.bearers[b].hanging /\ f[b].by = m.bearers[b].by
             /\ f[b].connect = m.bearers[b].connect /\ (m.bearers[b].cancelled => f[b].cancelled)
  <2>1. f[b] = [m.bearers[b] EXCEPT !.cancelled = k[b]] BY <1>3
  <2>2. m.bearers[b] \in BearerType BY DEF ModemType
  <2> QED BY <1>2, <2>1, <2>2 DEF BearerType
<1>5. f \in [Bearers -> BearerType] BY <1>3, <1>4
<1>6. y = [m EXCEPT !.registration = r, !.bearers = f]
  <2>1. f = [b \in Bearers |-> [m.bearers[b] EXCEPT !.cancelled = m.bearers[b].cancelled \/ (r = "unknown" /\ m.bearers[b].status = "connecting")]]
    <3>1. \A b \in Bearers : k[b] = (m.bearers[b].cancelled \/ (r = "unknown" /\ m.bearers[b].status = "connecting"))
      BY <1>1
    <3> QED BY <1>3, <3>1, Zenon
  <2> QED BY <2>1, Zenon DEF Lost
<1>7. /\ y \in ModemType /\ y.bearers = f /\ y.waiters = m.waiters /\ y.ahead = m.ahead /\ y.op = m.op
      /\ y.state = m.state /\ y.ongoing = m.ongoing /\ y.connects = m.connects /\ y.list = m.list
      /\ y.lists = m.lists /\ y.reloads = m.reloads /\ y.reloading = m.reloading
  BY <1>5, <1>6 DEF ModemType
<1>8. BearersOK(y)
  <2>1. ASSUME NEW b \in Bearers PROVE BearerOK(y.bearers[b])
    <3>1. BearerOK(m.bearers[b]) BY DEF Fine, Sound, BearersOK
    <3> QED BY <1>4, <1>7, <3>1 DEF BearerOK
  <2> QED BY <1>4, <1>7, <2>1 DEF BearersOK, Listed, Fine, Sound
<1>9. ConnectsOK(y) BY <1>7 DEF ConnectsOK, ConnectOK, Fine, Sound
<1>10. DialsOK(y, X)
  <2>1. \A b \in Bearers : y.bearers[b].connect = m.bearers[b].connect BY <1>4, <1>7
  <2> QED BY <1>7, <2>1, DialsFrame DEF Fine, Sound
<1>11. ListsOK(y, S)
  <2>1. \A b \in Bearers : y.bearers[b].by = m.bearers[b].by BY <1>4, <1>7
  <2> QED BY <1>7, <2>1 DEF ListsOK, ListOK, Owed, Fine
<1>12. LinkOK(y) /\ OpOK(y) /\ ReloadOK(y) BY <1>7 DEF LinkOK, OpOK, Undertaken, ReloadOK, Fine, Sound
<1>13. AllSleep(y) BY <1>7 DEF AllSleep, ConnectsSleep, OpSleeps, Wanted
<1> QED BY <1>7, <1>8, <1>9, <1>10, <1>11, <1>12, <1>13 DEF Fine, Sound

(* update_non_registered_state keeps all right,                             *)
LEMMA UpdateNonRegisteredOK ==
  ASSUME NEW m \in ModemType, NEW X, NEW S, Fine(m, X, S), AllSleep(m),
         NEW r \in {"unknown", "searching"}, NEW y, y = UpdateNonRegistered(m, r)
  PROVE  /\ Fine(y, X, S) /\ AllSleep(y)
         /\ m.state \in Quiet => y.op = m.op /\ y.state = m.state
<1>1. CASE ~m.enabled \/ r = m.registration
  <2>1. y = m BY <1>1 DEF UpdateNonRegistered
  <2> QED BY <2>1
<1>2. CASE ~(~m.enabled \/ r = m.registration)
  <2>1. PICK s \in Plain : s = IF r = "searching" THEN "searching" ELSE "enabled" BY DEF Plain
  <2>2. PICK n : n = Lost(m, r) OBVIOUS
  <2>3. y = UpdateSubsystemState(n, s) BY <1>2, <2>1, <2>2, Zenon DEF UpdateNonRegistered, Lost
  <2>4. n \in ModemType /\ Fine(n, X, S) /\ AllSleep(n) /\ n.op = m.op /\ n.state = m.state
    BY <2>2, LostOK
  <2>5. /\ Fine(y, X, S) /\ AllSleep(y)
        /\ n.state \in Quiet => y.op = n.op /\ y.state = n.state
    BY <2>3, <2>4, UpdateSubsystemStateOK
  <2> QED BY <2>4, <2>5
<1> QED BY <1>1, <1>2

(* and so does the disabling of the interface, within a sequence.           *)
LEMMA Disable3gppOK ==
  ASSUME NEW m \in ModemType, NEW X, NEW S, Fine(m, X, S), AllSleep(m), NEW y, y = Disable3gpp(m)
  PROVE  /\ y \in ModemType /\ Fine(y, X, S) /\ AllSleep(y)
         /\ m.state \in Quiet => y.op = m.op /\ y.state = m.state
<1>1. PICK n : n = UpdateNonRegistered(m, "unknown") OBVIOUS
<1>2. /\ Fine(n, X, S) /\ AllSleep(n)
      /\ m.state \in Quiet => n.op = m.op /\ n.state = m.state
  BY <1>1, UpdateNonRegisteredOK
<1>3. n \in ModemType BY <1>2 DEF Fine, Sound
<1>4. y = [n EXCEPT !.enabled = FALSE] BY <1>1 DEF Disable3gpp
<1>5. y \in ModemType BY <1>3, <1>4 DEF ModemType
<1>6. OnlyNetwork(n, y) /\ y.reloads = n.reloads /\ y.reloading = n.reloading
  BY <1>3, <1>4 DEF ModemType, OnlyNetwork, SameState, SameWaits, SameOp, SameBearers, SameLists
<1>7. ReloadOK(y) BY <1>2, <1>6 DEF ReloadOK, Fine, Sound
<1>8. Fine(y, X, S) /\ Asleep(n, y) BY <1>2, <1>3, <1>5, <1>6, <1>7, NetworkFrame
<1>9. AllSleep(y) BY <1>2, <1>8 DEF Asleep, AllSleep
<1>10. y.op = n.op /\ y.state = n.state BY <1>6 DEF OnlyNetwork, SameOp, SameState
<1> QED BY <1>2, <1>5, <1>8, <1>9, <1>10

----------------------------------------------------------------------------
(* What begins.                                                             *)
Whole(m) == Fine(m, {}, {}) /\ AllSleep(m)

(* All is well but for connect c, which does not wait.                       *)
But(m, c) ==
  /\ m \in ModemType /\ BearersOK(m) /\ OpOK(m) /\ ReloadOK(m) /\ ListsOK(m, {}) /\ LinkOK(m)
  /\ AllSleep(m)
  /\ \A d \in Connects \ {c} :
       m.connects[d].step = "connect" => m.bearers[m.connects[d].bearer].connect = d
  /\ \A b \in Bearers :
       m.bearers[b].connect # None =>
         /\ m.bearers[b].connect # c /\ m.connects[m.bearers[b].connect].step = "connect"
         /\ m.connects[m.bearers[b].connect].bearer = b

(* A bearer is asked to connect.                                             *)
LEMMA DialOK ==
  ASSUME NEW m, NEW c \in Connects \union {None}, But(m, c), ConnectsOK(m),
         NEW b \in Bearers, b \in Listed(m), m.bearers[b].status = "disconnected",
         c # None => m.connects[c].bearer = b,
         NEW y, y = Dial(m, b, c)
  PROVE  Whole(y)
<1>1. m \in ModemType BY DEF But
<1>2. m.bearers[b] \in BearerType BY <1>1 DEF ModemType
<1>3. PICK r : r = [m.bearers[b] EXCEPT !.dialing = TRUE, !.cancelled = FALSE, !.connect = c] OBVIOUS
<1>4. /\ r \in BearerType /\ r.dialing = TRUE /\ r.cancelled = FALSE /\ r.connect = c
      /\ r.by = m.bearers[b].by /\ r.hanging = m.bearers[b].hanging /\ r.status = m.bearers[b].status
  BY <1>2, <1>3 DEF BearerType
<1>5. PICK p : p = [m EXCEPT !.bearers[b] = r] OBVIOUS
<1>6. p = WithBearers(m, m.list, PutBearer(m, b, r)) BY <1>1, <1>5 DEF WithBearers, PutBearer, ModemType
<1>7. BearerPut(m, p, b, r) BY <1>1, <1>4, <1>6, BearerPutEffect
<1>8. /\ p \in ModemType /\ p.list = m.list /\ p.bearers[b] = r
      /\ \A d \in Bearers \ {b} : p.bearers[d] = m.bearers[d]
      /\ p.op = m.op /\ p.state = m.state /\ p.waiters = m.waiters /\ p.ahead = m.ahead
      /\ p.ongoing = m.ongoing /\ p.connects = m.connects /\ p.lists = m.lists
      /\ p.reloads = m.reloads /\ p.reloading = m.reloading
  BY <1>7 DEF BearerPut, OnlyBearers, SameState, SameWaits, SameOp, SameLists, SameNetwork
<1>9. y = QuietStatus(p, b, "connecting") BY <1>3, <1>5, Zenon DEF Dial
<1>10. Turned(p, y, b, "connecting") BY <1>8, <1>9, QuietStatusTurns
<1>11. BearerOK(m.bearers[b]) BY DEF But, BearersOK
<1>12. ~m.bearers[b].dialing /\ m.bearers[b].by = None /\ m.bearers[b].hanging = "no"
       /\ m.bearers[b].connect = None
  BY <1>11 DEF BearerOK
<1>13. /\ y \in ModemType /\ y.list = m.list /\ y.lists = m.lists /\ y.connects = m.connects
       /\ \A d \in Bearers \ {b} : y.bearers[d] = m.bearers[d]
       /\ y.bearers[b].status = "connecting" /\ y.bearers[b].dialing
       /\ y.bearers[b].hanging = "no" /\ y.bearers[b].by = None /\ y.bearers[b].connect = c
  BY <1>4, <1>8, <1>10, <1>12 DEF Turned, SameLists, SameWaits
<1>14. BearerOK(y.bearers[b]) BY <1>13 DEF BearerOK
<1>15. BearersOK(y) BY <1>13, <1>14 DEF BearersOK, But, Listed
<1>16. /\ OpOK(p) => OpOK(y)
       /\ ConnectsOK(p) => ConnectsOK(y)
       /\ \A X : ConnectsOK(p) /\ DialsOK(p, X) => DialsOK(y, X)
       /\ ReloadOK(p) => ReloadOK(y)
       /\ LinkOK(p) => LinkOK(y)
       /\ Asleep(p, y)
  BY <1>8, <1>10, TurnedFrame
<1>17. ConnectsOK(p) BY <1>8 DEF ConnectsOK, ConnectOK
<1>18. ReloadOK(p) /\ LinkOK(p) /\ OpOK(p) BY <1>8 DEF ReloadOK, LinkOK, OpOK, Undertaken, But
<1>19. AllSleep(p) BY <1>8 DEF AllSleep, ConnectsSleep, OpSleeps, Wanted, But
<1>20. DialsOK(y, {})
  <2>1. ASSUME NEW d \in Connects, m.connects[d].step = "connect"
        PROVE  y.bearers[m.connects[d].bearer].connect = d
    <3>1. m.connects[d].bearer \in Bearers
      BY <1>1, <2>1 DEF ConnectsOK, ConnectOK, ModemType, ConnectType
    <3>2. CASE d = c BY <1>13, <3>2, ModemStateAssumption
    <3>3. CASE d # c
      <4>1. m.bearers[m.connects[d].bearer].connect = d BY <2>1, <3>3 DEF But
      <4>2. m.connects[d].bearer # b BY <1>12, <4>1, ModemStateAssumption
      <4> QED BY <1>13, <3>1, <4>1, <4>2
    <3> QED BY <3>2, <3>3
  <2>2. ASSUME NEW d \in Bearers, y.bearers[d].connect # None
        PROVE  /\ m.connects[y.bearers[d].connect].step = "connect"
               /\ m.connects[y.bearers[d].connect].bearer = d
    <3>1. CASE d = b
      BY <1>1, <1>13, <2>2, <3>1, ModemStateAssumption DEF ConnectsOK, ConnectOK, ModemType, ConnectType
    <3>2. CASE d # b BY <1>13, <2>2, <3>2 DEF But
    <3> QED BY <3>1, <3>2
  <2>3. \A d \in Connects :
          IF d \in {} THEN y.connects[d].step = "connect"
          ELSE y.connects[d].step = "connect" => y.bearers[y.connects[d].bearer].connect = d
    BY <1>13, <2>1
  <2>4. \A d \in Bearers :
          y.bearers[d].connect # None =>
            /\ y.bearers[d].connect \notin {} /\ y.connects[y.bearers[d].connect].step = "connect"
            /\ y.connects[y.bearers[d].connect].bearer = d
    BY <1>13, <2>2
  <2> QED BY <2>3, <2>4, Zenon DEF DialsOK
<1>21. ListsOK(y, {})
  <2>1. \A d \in Bearers : y.bearers[d].by = m.bearers[d].by BY <1>12, <1>13
  <2> QED BY <1>13, <2>1 DEF ListsOK, ListOK, But
<1> QED BY <1>13, <1>15, <1>16, <1>17, <1>18, <1>19, <1>20, <1>21
        DEF Whole, Fine, Sound, Asleep, AllSleep

(* CONNECTION_STEP_CONNECT of a connect that is between two steps.            *)
LEMMA ConnectWithOK ==
  ASSUME NEW m, NEW c \in Connects, But(m, c), ConnectsBut(m, c), Free(m, c),
         m.connects[c].step # "idle", NEW b \in Bearers, b \in Listed(m),
         NEW y, y = ConnectWith(m, c, b)
  PROVE  Whole(y)
<1>1. m \in ModemType /\ c # None /\ c # "op" /\ b # None BY ModemStateAssumption DEF But
<1>2. PICK r : r = [NoAttempt EXCEPT !.step = "connect", !.bearer = b] OBVIOUS
<1>3. /\ r \in ConnectType /\ r.step = "connect" /\ r.bearer = b /\ r.seen = None
      /\ ~r.cancellable /\ ~r.cancelled
  BY <1>2, Nothing DEF ConnectType, NoAttempt, Steps
<1>4. PICK n : n = [m EXCEPT !.ongoing = None, !.connects[c] = r] OBVIOUS
<1>5. n = [m EXCEPT !.ongoing = IF m.connects[c].cancellable THEN None ELSE @,
                    !.connects[c] = [NoAttempt EXCEPT !.step = "connect", !.bearer = b]]
  BY <1>2, <1>4 DEF Free
<1>6. /\ n \in ModemType /\ n.ongoing = None /\ n.connects[c] = r
      /\ \A d \in Connects \ {c} : n.connects[d] = m.connects[d]
  BY <1>1, <1>3, <1>4 DEF ModemType
<1>7. /\ n.list = m.list /\ n.bearers = m.bearers /\ n.op = m.op /\ n.state = m.state
      /\ n.waiters = m.waiters /\ n.ahead = m.ahead /\ n.lists = m.lists
      /\ n.reloads = m.reloads /\ n.reloading = m.reloading
  BY <1>1, <1>4 DEF ModemType
<1>8. ConnectOK(n, c) BY <1>1, <1>3, <1>6, <1>7 DEF ConnectOK, Free
<1>9. ConnectsOK(n)
  <2>1. \A d \in Connects \ {c} : ConnectOK(n, d) BY <1>6, <1>7 DEF ConnectsBut, ConnectOK
  <2> QED BY <1>6, <1>7, <1>8, <2>1 DEF ConnectsOK, ConnectsBut
<1>10. But(n, c)
  <2>1. BearersOK(n) /\ OpOK(n) /\ ReloadOK(n) /\ LinkOK(n)
    BY <1>7 DEF BearersOK, Listed, OpOK, Undertaken, ReloadOK, LinkOK, But
  <2>2. ListsOK(n, {}) BY <1>7 DEF ListsOK, ListOK, But
  <2>3. AllSleep(n)
    BY <1>6, <1>7 DEF AllSleep, ConnectsSleep, OpSleeps, Wanted, But, Free
  <2>4. \A d \in Connects \ {c} :
          n.connects[d].step = "connect" => n.bearers[n.connects[d].bearer].connect = d
    BY <1>6, <1>7 DEF But
  <2>5. ASSUME NEW d \in Bearers, n.bearers[d].connect # None
        PROVE  /\ n.bearers[d].connect # c /\ n.connects[n.bearers[d].connect].step = "connect"
               /\ n.connects[n.bearers[d].connect].bearer = d
    <3>1. m.bearers[d].connect \in Connects \union {None} BY <1>1 DEF ModemType, BearerType
    <3> QED BY <1>6, <1>7, <2>5, <3>1 DEF But
  <2> QED BY <1>6, <2>1, <2>2, <2>3, <2>4, <2>5 DEF But
<1>12. CASE m.bearers[b].status = "disconnected"
  <2>1. y = Dial(n, b, c) BY <1>5, <1>12, Zenon DEF ConnectWith
  <2>2. b \in Listed(n) BY <1>7 DEF Listed
  <2> QED BY <1>3, <1>6, <1>7, <1>9, <1>10, <1>12, <2>1, <2>2, DialOK
<1>13. CASE m.bearers[b].status # "disconnected"
  <2>1. y = EndConnect(n, c) BY <1>5, <1>13, Zenon DEF ConnectWith
  <2>2. ConnectsBut(n, c) /\ n.op.by # c BY <1>7, <1>9 DEF ConnectsOK, ConnectsBut, Free
  <2>3. Proceeded(n, y, c, "connect") BY <1>6, <2>1, <2>2, EndConnectProceeds
  <2>4. DialsOK(n, {c}) /\ n.connects[c].step = "connect" BY <1>3, <1>6, <1>10 DEF But, DialsOK
  <2>5. /\ ConnectsOK(y)
        /\ DialsOK(n, {c}) => DialsOK(y, {c} \ {c})
        /\ ConnectsSleep(n) => ConnectsSleep(y)
    BY <1>6, <2>2, <2>3, ProceededOK
  <2>6. DialsOK(y, {})
    <3>1. {c} \ {c} = {} OBVIOUS
    <3> QED BY <2>4, <2>5, <3>1
  <2>7. OnlyWaits(n, y) /\ y \in ModemType /\ ("op" \in y.waiters <=> "op" \in n.waiters)
    BY <1>1, <2>3 DEF Proceeded, Moved
  <2>8. /\ OpOK(n) => OpOK(y)
        /\ BearersOK(n) => BearersOK(y)
        /\ ReloadOK(n) => ReloadOK(y)
        /\ OpSleeps(n) => OpSleeps(y)
        /\ LinkOK(n) => LinkOK(y)
        /\ \A S : ListsOK(n, S) => ListsOK(y, S)
    BY <1>6, <2>7, WaitsFrame
  <2> QED BY <1>10, <2>5, <2>6, <2>7, <2>8 DEF Whole, Fine, Sound, But, AllSleep
<1> QED BY <1>12, <1>13

(* mm_iface_modem_simple_abort_ongoing                                       *)
LEMMA AbortOngoingOK ==
  ASSUME NEW m, Whole(m), NEW y, y = AbortOngoing(m)
  PROVE  Whole(y) /\ y.op = m.op /\ y.lists = m.lists /\ y.state = m.state
<1>1. m \in ModemType BY DEF Whole, Fine, Sound
<1>2. CASE m.ongoing = None
  BY <1>2 DEF AbortOngoing
<1>3. CASE m.ongoing # None
  <2>1. PICK c \in Connects : c = m.ongoing BY <1>1, <1>3 DEF ModemType
  <2>2. m.connects[c] \in ConnectType BY <1>1 DEF ModemType
  <2>3. PICK r : r = [m.connects[c] EXCEPT !.cancelled = TRUE] OBVIOUS
  <2>4. /\ r \in ConnectType /\ r.cancelled /\ r.step = m.connects[c].step /\ r.seen = m.connects[c].seen
        /\ r.cancellable = m.connects[c].cancellable /\ r.bearer = m.connects[c].bearer
    BY <2>2, <2>3 DEF ConnectType
  <2>5. y = [m EXCEPT !.connects[c] = r, !.ongoing = None]
    BY <1>3, <2>1, <2>3, Zenon DEF AbortOngoing
  <2>6. /\ y \in ModemType /\ y.ongoing = None /\ y.connects[c] = r
        /\ \A d \in Connects \ {c} : y.connects[d] = m.connects[d]
        /\ y.list = m.list /\ y.bearers = m.bearers /\ y.op = m.op /\ y.state = m.state
        /\ y.waiters = m.waiters /\ y.ahead = m.ahead /\ y.lists = m.lists
        /\ y.reloads = m.reloads /\ y.reloading = m.reloading
    <3>1. PICK f : f = PutConnect(m, c, r) OBVIOUS
    <3>2. f \in [Connects -> ConnectType] /\ f[c] = r /\ \A d \in Connects \ {c} : f[d] = m.connects[d]
      BY <1>1, <2>4, <3>1 DEF PutConnect, ModemType
    <3>3. y = [m EXCEPT !.connects = f, !.ongoing = None] BY <2>5, <3>1, Zenon DEF PutConnect
    <3> QED BY <1>1, <3>2, <3>3 DEF ModemType
  <2>7. m.connects[c].cancellable BY <1>3, <2>1 DEF Whole, Fine, Sound, ConnectsOK
  <2>8. \A d \in Connects : ConnectOK(m, d) BY DEF Whole, Fine, Sound, ConnectsOK
  <2>9. ASSUME NEW d \in Connects PROVE ConnectOK(y, d)
    <3>1. ConnectOK(m, d) BY <2>8
    <3>2. CASE d = c BY <2>4, <2>6, <2>7, <3>1, <3>2 DEF ConnectOK
    <3>3. CASE d # c BY <2>6, <3>1, <3>3 DEF ConnectOK
    <3> QED BY <3>2, <3>3
  <2>10. ConnectsOK(y) BY <2>6, <2>9 DEF ConnectsOK, Whole, Fine, Sound
  <2>11. DialsOK(y, {})
    <3>1. \A d \in Connects : y.connects[d].step = m.connects[d].step /\ y.connects[d].bearer = m.connects[d].bearer
      BY <2>4, <2>6
    <3>2. DialsOK(m, {}) BY DEF Whole, Fine, Sound
    <3> QED BY <1>1, <2>6, <3>1, <3>2, DialsLike
  <2>12. BearersOK(y) /\ ReloadOK(y) /\ OpOK(y) /\ LinkOK(y)
    BY <2>6 DEF BearersOK, Listed, ReloadOK, OpOK, Undertaken, LinkOK, Whole, Fine, Sound
  <2>13. ListsOK(y, {}) BY <2>6 DEF ListsOK, ListOK, Whole, Fine
  <2>14. AllSleep(y)
    <3>1. \A d \in Connects : y.connects[d].step = m.connects[d].step BY <2>4, <2>6
    <3> QED BY <2>6, <3>1, ModemStateAssumption DEF AllSleep, ConnectsSleep, OpSleeps, Wanted, Whole
  <2> QED BY <2>6, <2>10, <2>11, <2>12, <2>13, <2>14 DEF Whole, Fine, Sound
<1> QED BY <1>2, <1>3

(* A sequence begins, for connect by or for a client.                        *)
LEMMA StartOpOK ==
  ASSUME NEW m \in ModemType, NEW by \in Connects \union {None}, NEW kind \in {"enable", "disable"},
         by # None => /\ kind = "enable" /\ m.connects[by].step = "enabling" /\ by \notin m.waiters
                      /\ m.connects[by].seen = None /\ m.connects[by].cancellable
                      /\ m.connects[by].bearer = None,
         m.op = NoOp, BearersOK(m), OpOK(m), ReloadOK(m), ListsOK(m, {}), LinkOK(m), AllSleep(m),
         DialsOK(m, {}), \A d \in Connects \ {by} : ConnectOK(m, d),
         m.ahead \subseteq m.waiters /\ (m.ahead # {} => "op" \in m.waiters),
         m.ongoing # None => m.connects[m.ongoing].cancellable /\ ~m.connects[m.ongoing].cancelled,
         NEW y, y = StartOp(m, kind, by)
  PROVE  Whole(y)
<1>1. /\ NoOp.kind = "none" /\ NoOp.by = None /\ NoOp.step = "none" /\ NoOp.previous = "unknown"
      /\ NoOp.seen = None
  BY DEF NoOp
<1>2. "op" \notin m.waiters /\ m.ahead = {} /\ m.state \notin Quiet /\ ~m.lists["op"].busy
  BY <1>1 DEF OpOK, Undertaken, LinkOK, Quiet
<1>3. PICK seen : seen = IF m.state \in Intermediate THEN None ELSE m.state OBVIOUS
<1>4. /\ seen \in ToSet(States) \union {None} /\ m.state # None
      /\ seen # None => seen \notin Intermediate
  BY <1>3, ModemStateAssumption DEF ModemType
<1>5. PICK o : o = [NoOp EXCEPT !.kind = kind, !.by = by, !.step = "waiting", !.seen = seen] OBVIOUS
<1>6. /\ o \in OpType /\ o.kind = kind /\ o.by = by /\ o.step = "waiting" /\ o.seen = seen
      /\ o.previous = "unknown"
  BY <1>1, <1>4, <1>5, Nothing DEF OpType, NoOp
<1>7. PICK n : n = [m EXCEPT !.op = o] OBVIOUS
<1>8. n = WithOp(m, o) BY <1>7 DEF WithOp
<1>9. n \in ModemType /\ n.op = o /\ OnlyOp(m, n) BY <1>6, <1>8, PutOp
<1>10. /\ y \in ModemType /\ y.op = o /\ y.ongoing = m.ongoing /\ y.connects = m.connects
       /\ y.list = m.list /\ y.bearers = m.bearers /\ y.state = m.state /\ y.lists = m.lists
       /\ y.reloads = m.reloads /\ y.reloading = m.reloading
       /\ m.state \in Intermediate => y.waiters = m.waiters \union {"op"} /\ y.ahead = m.waiters
       /\ m.state \notin Intermediate => y.waiters = m.waiters /\ y.ahead = {}
  <2>1. /\ n.waiters = m.waiters /\ n.ahead = {} /\ n.ongoing = m.ongoing /\ n.connects = m.connects
        /\ n.list = m.list /\ n.bearers = m.bearers /\ n.state = m.state /\ n.lists = m.lists
        /\ n.reloads = m.reloads /\ n.reloading = m.reloading
    BY <1>2, <1>9 DEF OnlyOp, SameState, SameWaits, SameBearers, SameLists, SameNetwork
  <2>2. CASE m.state \notin Intermediate
    <3>1. y = n BY <1>3, <1>5, <1>7, <2>2, Zenon DEF StartOp
    <3> QED BY <1>9, <2>1, <2>2, <3>1
  <2>3. CASE m.state \in Intermediate
    <3>1. y = [n EXCEPT !.waiters = @ \union {"op"}, !.ahead = @ \union (m.waiters \ {"op"})]
      BY <1>3, <1>5, <1>7, <2>3, Zenon DEF StartOp
    <3>2. m.waiters \union {"op"} \in SUBSET Waiters /\ m.waiters \in SUBSET Connects
      BY <1>2 DEF ModemType, Waiters
    <3>3. n.ahead \union (m.waiters \ {"op"}) = m.waiters BY <1>2, <2>1
    <3>4. y = WithWaits(n, n.waiters \union {"op"}, m.waiters, n.ongoing, n.connects)
      BY <1>9, <3>1, <3>3 DEF WithWaits, ModemType
    <3>5. n.ongoing \in Connects \union {None} /\ n.connects \in [Connects -> ConnectType]
      BY <1>9 DEF ModemType
    <3>6. /\ y \in ModemType /\ y.waiters = m.waiters \union {"op"} /\ y.ahead = m.waiters
          /\ y.ongoing = n.ongoing /\ y.connects = n.connects /\ OnlyWaits(n, y)
      BY <1>9, <2>1, <3>2, <3>4, <3>5, PutWaits
    <3> QED BY <1>9, <2>1, <2>3, <3>6
              DEF OnlyWaits, SameState, SameOp, SameBearers, SameLists, SameNetwork
  <2> QED BY <2>2, <2>3
<1>11. \A c \in Connects : c # "op" /\ c # None BY ModemStateAssumption
<1>12. \A c \in Connects : c \in y.waiters <=> c \in m.waiters BY <1>10, <1>11
<1>13. ASSUME NEW c \in Connects PROVE ConnectOK(y, c)
  <2>1. CASE c = by BY <1>6, <1>10, <1>11, <1>12, <2>1 DEF ConnectOK
  <2>2. CASE c # by
    <3>1. ConnectOK(m, c) /\ m.op.by # c BY <1>1, <1>11, <2>2
    <3> QED BY <1>6, <1>10, <1>12, <2>2, <3>1 DEF ConnectOK
  <2> QED BY <2>1, <2>2
<1>14. ConnectsOK(y)
  BY <1>2, <1>6, <1>10, <1>13 DEF ConnectsOK
<1>15. BearersOK(y) /\ ReloadOK(y) /\ DialsOK(y, {})
  <2>1. DialsOK(y, {}) BY <1>10, DialsSame
  <2> QED BY <1>10, <2>1 DEF BearersOK, Listed, ReloadOK
<1>16. OpOK(y)
  BY <1>2, <1>3, <1>4, <1>6, <1>10 DEF OpOK, Undertaken, Quiet
<1>17. LinkOK(y) BY <1>2, <1>6, <1>10 DEF LinkOK
<1>18. ListsOK(y, {}) BY <1>10 DEF ListsOK, ListOK
<1>19. AllSleep(y)
  <2>1. ConnectsSleep(y)
    <3> SUFFICES ASSUME NEW c \in Connects \intersect y.waiters PROVE ~Wanted(y, c)
      BY DEF ConnectsSleep
    <3>1. ~Wanted(m, c) BY <1>12 DEF AllSleep, ConnectsSleep
    <3> QED BY <1>10, <3>1 DEF Wanted
  <2>2. OpSleeps(y) BY <1>2, <1>10 DEF OpSleeps, Wanted
  <2> QED BY <2>1, <2>2 DEF AllSleep
<1> QED BY <1>10, <1>14, <1>15, <1>16, <1>17, <1>18, <1>19 DEF Whole, Fine, Sound

----------------------------------------------------------------------------
(* The invariant is inductive.                                              *)
LEMMA WholeBut ==
  ASSUME NEW m, Whole(m), NEW c \in Connects \union {None}, c # None => m.connects[c].step # "connect"
  PROVE  But(m, c) /\ ConnectsBut(m, c)
<1>1. ConnectsBut(m, c) BY DEF Whole, Fine, Sound, ConnectsOK, ConnectsBut
<1>2. \A d \in Connects \ {c} :
        m.connects[d].step = "connect" => m.bearers[m.connects[d].bearer].connect = d
  BY DEF Whole, Fine, Sound, DialsOK
<1>3. \A b \in Bearers :
        m.bearers[b].connect # None =>
          /\ m.bearers[b].connect # c /\ m.connects[m.bearers[b].connect].step = "connect"
          /\ m.connects[m.bearers[b].connect].bearer = b
  BY DEF Whole, Fine, Sound, DialsOK
<1> QED BY <1>1, <1>2, <1>3 DEF But, Whole, Fine, Sound

(* An attempt that moved leaves all well.                                    *)
LEMMA ProceededWhole ==
  ASSUME NEW m, NEW c \in Connects, But(m, c), ConnectsBut(m, c), m.connects[c].step # "connect",
         NEW step, NEW y, Proceeded(m, y, c, step)
  PROVE  Whole(y)
<1>1. m \in ModemType BY DEF But
<1>2. DialsOK(m, {}) BY DEF But, DialsOK
<1>3. /\ ConnectsOK(y)
      /\ DialsOK(m, {}) => DialsOK(y, {} \ {c})
      /\ ConnectsSleep(m) => ConnectsSleep(y)
  BY <1>1, ProceededOK
<1>4. DialsOK(y, {})
  <2>1. {} \ {c} = {} OBVIOUS
  <2> QED BY <1>2, <1>3, <2>1
<1>5. c # "op" BY ModemStateAssumption
<1>6. OnlyWaits(m, y) /\ y \in ModemType /\ ("op" \in y.waiters <=> "op" \in m.waiters)
  BY <1>5 DEF Proceeded, Moved
<1>7. /\ OpOK(m) => OpOK(y)
      /\ BearersOK(m) => BearersOK(y)
      /\ ReloadOK(m) => ReloadOK(y)
      /\ OpSleeps(m) => OpSleeps(y)
      /\ LinkOK(m) => LinkOK(y)
      /\ \A S : ListsOK(m, S) => ListsOK(y, S)
  BY <1>1, <1>6, WaitsFrame
<1> QED BY <1>3, <1>4, <1>6, <1>7 DEF Whole, Fine, Sound, But, AllSleep

(* Giving up does, unless a bearer or a sequence is to answer.              *)
LEMMA EndConnectWhole ==
  ASSUME NEW m, Whole(m), NEW c \in Connects, m.connects[c].step \notin {"connect", "enabling"},
         NEW y, y = EndConnect(m, c)
  PROVE  Whole(y)
<1>1. c # None BY ModemStateAssumption
<1>2. But(m, c) /\ ConnectsBut(m, c) BY WholeBut
<1>3. m \in ModemType /\ m.op.by # c BY DEF Whole, Fine, Sound, ConnectsOK, ConnectOK
<1>4. Proceeded(m, y, c, "idle") BY <1>2, <1>3, EndConnectProceeds
<1> QED BY <1>2, <1>4, ProceededWhole

(* An attempt between two waits is free to move.                            *)
LEMMA WholeFree ==
  ASSUME NEW m, Whole(m), NEW c \in Connects,
         m.connects[c].step \in {"unlock", "enable", "pausing", "registering", "bearer"}
  PROVE  Free(m, c) /\ But(m, c) /\ ConnectsBut(m, c) /\ m \in ModemType
<1>1. ConnectOK(m, c) /\ m \in ModemType BY DEF Whole, Fine, Sound, ConnectsOK
<1>2. Free(m, c) BY <1>1 DEF ConnectOK, Free
<1> QED BY <1>1, <1>2, WholeBut

(* connection_step, for every step but the last.                            *)
LEMMA ConnectionStepWhole ==
  ASSUME NEW m, NEW c \in Connects, But(m, c), ConnectsBut(m, c), Free(m, c),
         m.connects[c].step # "connect",
         NEW step \in {"unlock", "initialized", "enable", "enabled", "pausing", "registering", "bearer"},
         NEW y, y = ConnectionStep(m, c, step)
  PROVE  Whole(y)
<1>1. m \in ModemType BY DEF But
<1>2. Proceeded(m, y, c, step) BY <1>1, ConnectionStepProceeds
<1> QED BY <1>2, ProceededWhole

(* A sequence may end from any step but the disconnection of bearers.       *)
LEMMA OpEnds ==
  ASSUME NEW m, Whole(m), m.op.step \notin {"none", "bearers"},
         NEW y, y = OpSucceeded(m) \/ y = OpFailed(m)
  PROVE  Whole(y)
<1>1. m \in ModemType /\ OpOK(m) /\ ConnectsOK(m) /\ LinkOK(m) /\ DialsOK(m, {})
      /\ BearersOK(m) /\ ReloadOK(m) /\ ListsOK(m, {}) /\ ConnectsSleep(m)
  BY DEF Whole, Fine, Sound, AllSleep
<1>2. m.op.kind \in {"none", "enable", "disable"} BY <1>1 DEF ModemType, OpType
<1>3. /\ m.op.previous \notin Quiet
      /\ m.op.previous # (IF m.op.kind = "disable" THEN "disabled" ELSE "enabled")
  <2>1. CASE m.op.step = "waiting" BY <1>1, <2>1 DEF OpOK, Quiet
  <2>2. CASE m.op.step # "waiting"
    <3>1. CASE m.op.kind = "none" BY <1>1, <3>1 DEF OpOK, NoOp
    <3>2. CASE m.op.kind = "enable" BY <1>1, <2>2, <3>2 DEF OpOK, Undertaken, Quiet
    <3>3. CASE m.op.kind = "disable" BY <1>1, <2>2, <3>3 DEF OpOK, Undertaken, Quiet, Final
    <3> QED BY <1>2, <3>1, <3>2, <3>3
  <2> QED BY <2>1, <2>2
<1>4. OpOver(m, y) /\ y.state \notin Quiet
  <2>1. CASE y = OpSucceeded(m) BY <1>1, <2>1, OpSucceededOK
  <2>2. CASE y = OpFailed(m) BY <1>1, <1>3, <2>2, OpFailedOK
  <2> QED BY <2>1, <2>2
<1>5. ~m.lists["op"].busy BY <1>1 DEF LinkOK
<1>6. Fine(y, {}, {}) /\ OpSleeps(y) BY <1>1, <1>4, <1>5, OpOverFine
<1> QED BY <1>1, <1>4, <1>6 DEF Whole, AllSleep, OpOver

(* The enabling sequence goes on.                                           *)
LEMMA OpStepWhole ==
  ASSUME NEW m, Whole(m), m.op.kind = "enable", m.op.step \notin {"waiting", "none"},
         NEW s \in {"modem", "threegpp", "undoing"}, NEW y, y = OpStep(m, s)
  PROVE  Whole(y)
<1>1. m \in ModemType /\ OpOK(m) /\ LinkOK(m) /\ Sound(m, {}) /\ ListsOK(m, {}) /\ AllSleep(m)
  BY DEF Whole, Fine, Sound
<1>2. PICK o \in OpType :
        /\ y = WithOp(m, o) /\ y \in ModemType /\ y.op = o /\ OnlyOp(m, y)
        /\ o.step = s /\ o.kind = m.op.kind /\ o.by = m.op.by
        /\ o.seen = m.op.seen /\ o.previous = m.op.previous
  BY <1>1, OpStepPuts
<1>3. /\ \A X : Sound(m, X) => Sound(y, X)
      /\ \A S : ListsOK(m, S) => ListsOK(y, S)
      /\ Asleep(m, y)
  BY <1>1, <1>2, OpFrame
<1>4. y.state = m.state /\ y.waiters = m.waiters /\ y.lists = m.lists
  BY <1>2 DEF OnlyOp, SameState, SameWaits, SameLists
<1>5. OpOK(y) BY <1>1, <1>2, <1>4 DEF OpOK, Undertaken
<1>6. LinkOK(y) BY <1>1, <1>2, <1>4 DEF LinkOK, OpOK, Undertaken
<1> QED BY <1>1, <1>3, <1>5, <1>6 DEF Whole, Fine, Asleep, AllSleep

(* The lock is free: a sequence begins for a client.                         *)
LEMMA ClientStartsOp ==
  ASSUME NEW m, Whole(m), m.op.kind = "none", NEW kind \in {"enable", "disable"},
         NEW y, y = StartOp(m, kind, None)
  PROVE  Whole(y)
<1>1. /\ m \in ModemType /\ m.op = NoOp /\ BearersOK(m) /\ OpOK(m) /\ ReloadOK(m)
      /\ ListsOK(m, {}) /\ LinkOK(m) /\ AllSleep(m) /\ DialsOK(m, {})
  BY DEF Whole, Fine, Sound, OpOK
<1>2. /\ \A d \in Connects \ {None} : ConnectOK(m, d)
      /\ m.ahead \subseteq m.waiters /\ (m.ahead # {} => "op" \in m.waiters)
      /\ m.ongoing # None => m.connects[m.ongoing].cancellable /\ ~m.connects[m.ongoing].cancelled
  BY DEF Whole, Fine, Sound, ConnectsOK
<1> QED BY <1>1, <1>2, StartOpOK

(* Each action keeps the invariant.  handle_enable:                         *)
LEMMA EnableKeeps ==
  ASSUME Whole(modem), Enable
  PROVE  Whole(modem')
BY ClientStartsOp DEF Enable, Starts, Takes

(* handle_enable (FALSE), which aborts the ongoing attempt:                 *)
LEMMA DisableKeeps ==
  ASSUME Whole(modem), Disable
  PROVE  Whole(modem')
<1>1. PICK m : m = AbortOngoing(modem) OBVIOUS
<1>2. Whole(m) /\ m.op = modem.op BY <1>1, AbortOngoingOK
<1>3. modem' = StartOp(m, "disable", None) /\ m.op.kind = "none" BY <1>1, <1>2 DEF Disable, Takes
<1> QED BY <1>2, <1>3, ClientStartsOp

(* the wait for a final state that was over at once:                        *)
LEMMA OpSeenKeeps ==
  ASSUME Whole(modem), OpSeen
  PROVE  Whole(modem')
<1>1. modem \in ModemType /\ Fine(modem, {}, {}) /\ OpOK(modem) /\ AllSleep(modem) BY DEF Whole, Fine, Sound
<1>2. modem.op.step = "waiting" /\ modem.op.seen \in ToSet(States) \ Intermediate
  BY <1>1 DEF OpSeen, OpOK, ModemType, OpType
<1>3. modem' = OpTold(modem, modem.op.seen) BY DEF OpSeen, Goes
<1>4. Fine(modem', {}, {}) /\ OpSleeps(modem') /\ (ConnectsSleep(modem) => ConnectsSleep(modem'))
  BY <1>1, <1>2, <1>3, OpToldOK
<1> QED BY <1>1, <1>4 DEF Whole, AllSleep

(* state_changed_wait_expired:                                              *)
LEMMA WaitExpiredKeeps ==
  ASSUME Whole(modem), NEW w \in Waiters, WaitExpired(w)
  PROVE  Whole(modem')
<1>1. CASE w = "op"
  <2>1. modem.op.step = "waiting" BY <1>1 DEF WaitExpired, Whole, Fine, OpOK
  <2>2. modem' = OpFailed(modem) BY <1>1 DEF WaitExpired, Goes
  <2> QED BY <2>1, <2>2, OpEnds
<1>2. CASE w # "op"
  <2>1. w \in Connects /\ w \in modem.waiters /\ modem' = EndConnect(modem, w)
    BY <1>2 DEF WaitExpired, Goes, Waiters
  <2>2. modem.connects[w].step \in {"initialized", "enabled"}
    BY <2>1 DEF Whole, Fine, Sound, ConnectsOK, ConnectOK
  <2> QED BY <2>1, <2>2, EndConnectWhole
<1> QED BY <1>1, <1>2

(* Which sequence has which steps.                                          *)
LEMMA EnableStep ==
  ASSUME Whole(modem), modem.op.step \in {"starting", "modem", "undoing"}
  PROVE  modem.op.kind = "enable"
<1>1. OpOK(modem) /\ modem.op.kind \in {"none", "enable", "disable"}
  BY DEF Whole, Fine, Sound, ModemType, OpType
<1> QED BY <1>1 DEF OpOK, Undertaken, NoOp

(* enabling_started_ready:                                                  *)
LEMMA EnablingStartedKeeps ==
  ASSUME Whole(modem), NEW ok \in BOOLEAN, EnablingStarted(ok)
  PROVE  Whole(modem')
<1>1. modem.op.kind = "enable" /\ modem.op.step = "starting" BY EnableStep DEF EnablingStarted
<1>2. CASE ok
  <2>1. modem' = OpStep(modem, "modem") BY <1>2 DEF EnablingStarted, Goes
  <2> QED BY <1>1, <2>1, OpStepWhole
<1>3. CASE ~ok
  <2>1. modem' = OpFailed(modem) BY <1>3 DEF EnablingStarted, Goes
  <2> QED BY <1>1, <2>1, OpEnds
<1> QED BY <1>2, <1>3

(* iface_modem_enable_ready:                                                *)
LEMMA ModemEnabledKeeps ==
  ASSUME Whole(modem), NEW ok \in BOOLEAN, ModemEnabled(ok)
  PROVE  Whole(modem')
<1>1. modem.op.kind = "enable" /\ modem.op.step = "modem" BY EnableStep DEF ModemEnabled
<1>2. CASE ok
  <2>1. PICK n : n = OpStep(modem, "threegpp") OBVIOUS
  <2>2. Whole(n) BY <1>1, <2>1, OpStepWhole
  <2>3. modem' = [n EXCEPT !.enabled = TRUE] BY <1>2, <2>1 DEF ModemEnabled, Goes
  <2>4. n \in ModemType /\ Fine(n, {}, {}) /\ AllSleep(n) BY <2>2 DEF Whole, Fine, Sound
  <2>5. modem' \in ModemType /\ OnlyNetwork(n, modem') BY <2>3, <2>4
     DEF ModemType, OnlyNetwork, SameState, SameWaits, SameOp, SameBearers, SameLists
  <2>6. ReloadOK(modem') BY <2>3, <2>4 DEF ModemType, ReloadOK, Fine, Sound
  <2>7. Fine(modem', {}, {}) /\ Asleep(n, modem') BY <2>4, <2>5, <2>6, NetworkFrame
  <2> QED BY <2>4, <2>7 DEF Whole, AllSleep, Asleep
<1>3. CASE ~ok
  <2>1. modem' = OpStep(modem, "undoing") BY <1>3 DEF ModemEnabled, Goes
  <2> QED BY <1>1, <2>1, OpStepWhole
<1> QED BY <1>2, <1>3

(* the interfaces, enabled or disabled:                                     *)
LEMMA InterfacesDoneKeeps ==
  ASSUME Whole(modem), InterfacesDone
  PROVE  Whole(modem')
<1>1. CASE modem' = OpSucceeded(modem)  /\ modem.op.step = "threegpp"
  BY <1>1, OpEnds
<1>2. CASE /\ modem.op.step \in {"threegpp", "undoing"}
           /\ modem' = OpSucceeded(Disable3gpp(modem)) \/ modem' = OpFailed(Disable3gpp(modem))
  <2>1. PICK m : m = Disable3gpp(modem) OBVIOUS
  <2>2. modem \in ModemType /\ Fine(modem, {}, {}) /\ AllSleep(modem) BY DEF Whole, Fine, Sound
  <2>3. modem.state \in Quiet
    <3>1. OpOK(modem) /\ modem.op.kind \in {"none", "enable", "disable"}
      BY <2>2 DEF Fine, ModemType, OpType
    <3> QED BY <1>2, <3>1 DEF OpOK, Undertaken, Quiet, NoOp
  <2>4. Fine(m, {}, {}) /\ AllSleep(m) /\ m.op = modem.op BY <2>1, <2>2, <2>3, Disable3gppOK
  <2>5. Whole(m) /\ m.op.step \notin {"none", "bearers"} BY <1>2, <2>4 DEF Whole
  <2> QED BY <1>2, <2>1, <2>5, OpEnds
<1> QED BY <1>1, <1>2 DEF InterfacesDone, Goes

(* bearer_disconnect_ready in a later turn:                                 *)
LEMMA ListAnsweredKeeps ==
  ASSUME Whole(modem), NEW who \in {"op", "user"}, ListAnswered(who)
  PROVE  Whole(modem')
<1>1. modem \in ModemType /\ Fine(modem, {}, {}) /\ AllSleep(modem) BY DEF Whole, Fine, Sound
<1>2. ListOK(modem, who) BY <1>1 DEF Fine, ListsOK
<1>3. modem.lists[who].answer # "none" BY DEF ListAnswered
<1>4. Owed(modem, who) BY <1>2, <1>3 DEF ListOK, Owed, NoList
<1>5. ListsOK(modem, {who})
  BY <1>1, <1>4 DEF Fine, ListsOK
<1>6. Fine(modem, {}, {who}) BY <1>1, <1>5 DEF Fine
<1>7. PICK ok \in BOOLEAN : ok = (modem.lists[who].answer = "ok") OBVIOUS
<1>8. modem' = BearerDisconnectReady(modem, who, ok) BY <1>7 DEF ListAnswered, Goes
<1>9. Fine(modem', {}, {who} \ {who}) /\ Asleep(modem, modem')
  BY <1>1, <1>6, <1>8, BearerDisconnectReadyOK
<1>10. {who} \ {who} = {} OBVIOUS
<1> QED BY <1>1, <1>9, <1>10 DEF Whole, AllSleep, Asleep

(* The bearer is exported.                                                  *)
LEMMA AddBearerOK ==
  ASSUME NEW m \in ModemType, NEW b \in Bearers, NEW y, y = AddBearer(m, b)
  PROVE  /\ y \in ModemType /\ OnlyBearers(m, y) /\ y.bearers = m.bearers
         /\ Listed(y) = Listed(m) \union {b}
<1>1. m.list \in Seq(Bearers) BY DEF ModemType
<1>2. PICK l : l = <<b>> \o m.list OBVIOUS
<1>3. l \in Seq(Bearers) /\ Len(l) = Len(m.list) + 1 /\ l[1] = b
      /\ \A i \in 1 .. Len(m.list) : l[i + 1] = m.list[i]
  BY <1>1, <1>2
<1>4. y = WithBearers(m, l, m.bearers) BY <1>2 DEF AddBearer, WithBearers, ModemType
<1>5. m.bearers \in [Bearers -> BearerType] BY DEF ModemType
<1>6. y \in ModemType /\ y.list = l /\ y.bearers = m.bearers /\ OnlyBearers(m, y)
  BY ONLY <1>3, <1>4, <1>5, PutBearers, m \in ModemType
<1>7. ToSet(l) = ToSet(m.list) \union {b}
  <2>1. ToSet(m.list) \subseteq ToSet(l)
    <3> SUFFICES ASSUME NEW i \in 1 .. Len(m.list) PROVE m.list[i] \in ToSet(l)
      BY <1>1 DEF ToSet
    <3>1. i + 1 \in 1 .. Len(l) /\ l[i + 1] = m.list[i] BY <1>1, <1>3
    <3> QED BY <1>3, <3>1 DEF ToSet
  <2>2. b \in ToSet(l)
    <3>1. 1 \in 1 .. Len(l) BY <1>1, <1>3
    <3> QED BY <1>3, <3>1 DEF ToSet
  <2>3. ToSet(l) \subseteq ToSet(m.list) \union {b}
    <3> SUFFICES ASSUME NEW i \in 1 .. Len(l) PROVE l[i] \in ToSet(m.list) \union {b}
      BY <1>3 DEF ToSet
    <3>1. CASE i = 1 BY <1>3, <3>1
    <3>2. CASE i # 1
      <4>1. i - 1 \in 1 .. Len(m.list) /\ (i - 1) + 1 = i BY <1>1, <1>3, <3>2
      <4>2. l[i] = m.list[i - 1] BY <1>3, <4>1
      <4> QED BY <1>1, <4>1, <4>2 DEF ToSet
    <3> QED BY <3>1, <3>2
  <2> QED BY <2>1, <2>2, <2>3
<1> QED BY <1>6, <1>7 DEF Listed

(* Nothing else is disturbed.                                               *)
LEMMA AddBearerFrame ==
  ASSUME NEW m, m \in ModemType, NEW b \in Bearers, NEW y, y = AddBearer(m, b)
  PROVE  /\ b \in Listed(y) /\ y.connects = m.connects
         /\ Whole(m) => Whole(y)
         /\ \A c \in Connects : /\ But(m, c) => But(y, c)
                                /\ ConnectsBut(m, c) => ConnectsBut(y, c)
                                /\ Free(m, c) => Free(y, c)
<1>1. /\ y \in ModemType /\ OnlyBearers(m, y) /\ y.bearers = m.bearers
      /\ Listed(y) = Listed(m) \union {b}
  BY AddBearerOK
<1>2. /\ y.op = m.op /\ y.state = m.state /\ y.waiters = m.waiters /\ y.ahead = m.ahead
      /\ y.ongoing = m.ongoing /\ y.connects = m.connects /\ y.lists = m.lists
      /\ y.reloads = m.reloads /\ y.reloading = m.reloading
  BY <1>1 DEF OnlyBearers, SameState, SameWaits, SameOp, SameLists, SameNetwork
<1>3. BearersOK(m) => BearersOK(y) BY <1>1 DEF BearersOK
<1>4. /\ OpOK(m) => OpOK(y)
      /\ ReloadOK(m) => ReloadOK(y)
      /\ LinkOK(m) => LinkOK(y)
      /\ ConnectsOK(m) => ConnectsOK(y)
  BY <1>1, <1>2 DEF OpOK, Undertaken, ReloadOK, LinkOK, ConnectsOK, ConnectOK
<1>5. ListsOK(m, {}) => ListsOK(y, {}) BY <1>1, <1>2 DEF ListsOK, ListOK
<1>6. DialsOK(m, {}) => DialsOK(y, {}) BY <1>1, <1>2, DialsSame
<1>7. AllSleep(m) => AllSleep(y) BY <1>2 DEF AllSleep, ConnectsSleep, OpSleeps, Wanted
<1>8. Whole(m) => Whole(y) BY <1>1, <1>3, <1>4, <1>5, <1>6, <1>7 DEF Whole, Fine, Sound
<1>9. ASSUME NEW c \in Connects
      PROVE  /\ But(m, c) => But(y, c)
             /\ ConnectsBut(m, c) => ConnectsBut(y, c)
             /\ Free(m, c) => Free(y, c)
  <2>1. ASSUME But(m, c) PROVE But(y, c)
    <3>1. /\ y \in ModemType /\ BearersOK(y) /\ OpOK(y) /\ ReloadOK(y) /\ ListsOK(y, {}) /\ LinkOK(y)
          /\ AllSleep(y)
      BY <1>1, <1>3, <1>4, <1>5, <1>7, <2>1 DEF But
    <3>2. y.connects = m.connects /\ y.bearers = m.bearers BY <1>1, <1>2
    <3>3. \A d \in Connects \ {c} :
            y.connects[d].step = "connect" => y.bearers[y.connects[d].bearer].connect = d
      BY <2>1, <3>2, Zenon DEF But
    <3>4. \A a \in Bearers :
            y.bearers[a].connect # None =>
              /\ y.bearers[a].connect # c /\ y.connects[y.bearers[a].connect].step = "connect"
              /\ y.connects[y.bearers[a].connect].bearer = a
      BY <2>1, <3>2, Zenon DEF But
    <3> QED BY <3>1, <3>3, <3>4, Zenon DEF But
  <2>2. ConnectsBut(m, c) => ConnectsBut(y, c) BY <1>2 DEF ConnectsBut, ConnectOK
  <2>3. Free(m, c) => Free(y, c) BY <1>2 DEF Free
  <2> QED BY <2>1, <2>2, <2>3
<1> QED BY <1>1, <1>2, <1>8, <1>9

(* handle_create_bearer:                                                    *)
LEMMA CreateBearerKeeps ==
  ASSUME Whole(modem), NEW b \in Bearers, CreateBearer(b)
  PROVE  Whole(modem')
<1>1. modem \in ModemType BY DEF Whole, Fine, Sound
<1> QED BY <1>1, AddBearerFrame DEF CreateBearer, Starts, Takes

(* handle_connect of a bearer:                                              *)
LEMMA ConnectBearerKeeps ==
  ASSUME Whole(modem), NEW b \in Bearers, ConnectBearer(b)
  PROVE  Whole(modem')
<1>1. But(modem, None) BY WholeBut
<1>2. ConnectsOK(modem) BY DEF Whole, Fine, Sound
<1> QED BY <1>1, <1>2, DialOK DEF ConnectBearer, Takes

(* A bearer is on its way down.                                             *)
LEMMA HangOK ==
  ASSUME NEW m, NEW b \in Bearers, NEW X, Settling(m, b, X), NEW how \in {"force", "cancel"},
         NEW y, y = QuietStatus(Hang(m, b, how), b, "disconnecting")
  PROVE  Fine(y, X, {}) /\ AllSleep(y)
<1>1. m \in ModemType /\ m.bearers[b] \in BearerType BY DEF Settling, ModemType
<1>2. PICK r : r = [m.bearers[b] EXCEPT !.hanging = how] OBVIOUS
<1>3. /\ r \in BearerType /\ r.hanging = how /\ r.dialing = m.bearers[b].dialing
      /\ r.by = m.bearers[b].by /\ r.connect = m.bearers[b].connect
  BY <1>1, <1>2 DEF BearerType
<1>4. PICK n : n = Hang(m, b, how) OBVIOUS
<1>5. n = WithBearers(m, m.list, PutBearer(m, b, r))
  BY <1>1, <1>2, <1>4 DEF Hang, WithBearers, PutBearer, ModemType
<1>6. BearerPut(m, n, b, r) BY <1>1, <1>3, <1>5, BearerPutEffect
<1>7. /\ n \in ModemType /\ n.list = m.list /\ n.bearers[b] = r
      /\ \A d \in Bearers \ {b} : n.bearers[d] = m.bearers[d]
      /\ n.op = m.op /\ n.state = m.state /\ n.waiters = m.waiters /\ n.ahead = m.ahead
      /\ n.ongoing = m.ongoing /\ n.connects = m.connects /\ n.lists = m.lists
      /\ n.reloads = m.reloads /\ n.reloading = m.reloading
  BY <1>6 DEF BearerPut, OnlyBearers, SameState, SameWaits, SameOp, SameLists, SameNetwork
<1>8. Turned(n, y, b, "disconnecting") BY <1>4, <1>7, QuietStatusTurns
<1>9. ConnectsOK(n) BY <1>7 DEF Settling, ConnectsOK, ConnectOK
<1>10. DialsOK(n, X)
  <2>1. \A d \in Bearers : n.bearers[d].connect = m.bearers[d].connect BY <1>3, <1>7
  <2> QED BY <1>1, <1>7, <2>1, DialsFrame DEF Settling
<1>11. OpOK(n) /\ LinkOK(n) /\ ReloadOK(n)
  BY <1>7 DEF Settling, OpOK, Undertaken, LinkOK, ReloadOK
<1>12. AllSleep(n) BY <1>7 DEF Settling, AllSleep, ConnectsSleep, OpSleeps, Wanted
<1>13. /\ OpOK(n) => OpOK(y)
       /\ ConnectsOK(n) => ConnectsOK(y)
       /\ \A Z : ConnectsOK(n) /\ DialsOK(n, Z) => DialsOK(y, Z)
       /\ ReloadOK(n) => ReloadOK(y)
       /\ LinkOK(n) => LinkOK(y)
       /\ Asleep(n, y)
  BY <1>7, <1>8, TurnedFrame
<1>14. /\ y \in ModemType /\ y.list = m.list /\ y.lists = m.lists
       /\ \A d \in Bearers \ {b} : y.bearers[d] = m.bearers[d]
       /\ y.bearers[b].status = "disconnecting" /\ ~y.bearers[b].dialing
       /\ y.bearers[b].hanging = how /\ y.bearers[b].by = m.bearers[b].by
       /\ y.bearers[b].connect = None
  BY <1>3, <1>7, <1>8 DEF Turned, SameLists, Settling
<1>15. BearersOK(y)
  <2>1. BearerOK(y.bearers[b]) BY <1>14 DEF BearerOK
  <2>2. Listed(y) = Listed(m) BY <1>14 DEF Listed
  <2> QED BY <1>14, <2>1, <2>2 DEF BearersOK, Settling
<1>16. ListsOK(y, {})
  <2>1. \A d \in Bearers : y.bearers[d].by = m.bearers[d].by BY <1>14
  <2> QED BY <1>14, <2>1 DEF ListsOK, ListOK, Settling
<1> QED BY <1>9, <1>10, <1>11, <1>12, <1>13, <1>14, <1>15, <1>16
        DEF Fine, Sound, AllSleep, Asleep

(* A bearer that does not dial may settle at any time.                      *)
LEMMA WholeSettling ==
  ASSUME NEW m, Whole(m), NEW b \in Bearers, m.bearers[b].status # "disconnected",
         ~m.bearers[b].dialing
  PROVE  Settling(m, b, {})
<1>1. BearersOK(m) /\ m \in ModemType BY DEF Whole, Fine, Sound
<1>2. BearerOK(m.bearers[b]) /\ b \in Listed(m) BY <1>1 DEF BearersOK
<1>3. m.bearers[b].connect = None BY <1>2 DEF BearerOK
<1> QED BY <1>1, <1>2, <1>3 DEF Settling, Whole, Fine, Sound, BearersOK

(* handle_disconnect of a bearer:                                           *)
LEMMA DisconnectBearerKeeps ==
  ASSUME Whole(modem), NEW b \in Bearers, DisconnectBearer(b)
  PROVE  Whole(modem')
<1>1. /\ modem \in ModemType /\ BearersOK(modem) /\ ConnectsOK(modem) /\ OpOK(modem)
      /\ LinkOK(modem) /\ ReloadOK(modem) /\ Fine(modem, {}, {}) /\ AllSleep(modem)
  BY DEF Whole, Fine, Sound
<1>2. modem.bearers[b].status \in {"connecting", "connected"} /\ modem' = Disconnect(modem, b, "client")
  BY DEF DisconnectBearer, Starts, Takes
<1>3. Asked(modem, modem', b, "client")
  <2>1. CASE modem.bearers[b].status = "connecting"
    <3>1. modem' = QuietStatus(AskedBy(modem, b, "client", "no"), b, "disconnecting")
      BY <1>2, <2>1 DEF Disconnect
    <3> QED BY <1>1, <2>1, <3>1, AskedByOK
  <2>2. CASE modem.bearers[b].status = "connected"
    <3>1. modem' = QuietStatus(AskedBy(modem, b, "client", "user"), b, "disconnecting")
      BY <1>2, <2>2 DEF Disconnect
    <3> QED BY <1>1, <2>2, <3>1, AskedByOK
  <2> QED BY <1>2, <2>1, <2>2
<1>4. Fine(modem', {}, {} \ {"client"}) /\ Asleep(modem, modem') BY <1>1, <1>3, AskedFine
<1>5. {} \ {"client"} = {} OBVIOUS
<1> QED BY <1>1, <1>4, <1>5 DEF Whole, AllSleep, Asleep

(* disconnect_ready and its kin:                                            *)
LEMMA HungUpKeeps ==
  ASSUME Whole(modem), NEW b \in Bearers, NEW ok \in BOOLEAN, HungUp(b, ok)
  PROVE  Whole(modem')
<1>1. BearerOK(modem.bearers[b]) BY DEF Whole, Fine, Sound, BearersOK
<1>2. modem.bearers[b].status = "disconnecting" /\ ~modem.bearers[b].dialing
  BY <1>1 DEF BearerOK, HungUp
<1>3. Settling(modem, b, {}) BY <1>2, WholeSettling
<1>4. PICK s \in {"connected", "disconnected"} : s = IF ok THEN "disconnected" ELSE "connected" OBVIOUS
<1>5. modem' = Settle(modem, b, s) BY <1>4 DEF HungUp, Goes
<1> QED BY <1>3, <1>5, SettleOK DEF Whole

(* mm_base_bearer_report_connection_status:                                 *)
LEMMA DroppedKeeps ==
  ASSUME Whole(modem), NEW b \in Bearers, Dropped(b)
  PROVE  Whole(modem')
<1>1. BearerOK(modem.bearers[b]) BY DEF Whole, Fine, Sound, BearersOK
<1>2. modem.bearers[b].status = "connected" /\ ~modem.bearers[b].dialing
  BY <1>1 DEF BearerOK, Dropped
<1>3. Settling(modem, b, {}) BY <1>2, WholeSettling
<1>4. modem' = Settle(modem, b, "disconnected") BY DEF Dropped, Starts, Takes
<1> QED BY <1>3, <1>4, SettleOK DEF Whole

(* mm_base_bearer_disconnect_force:                                         *)
LEMMA ForcedKeeps ==
  ASSUME Whole(modem), NEW b \in Bearers, Forced(b)
  PROVE  Whole(modem')
<1>1. BearerOK(modem.bearers[b]) BY DEF Whole, Fine, Sound, BearersOK
<1>2. modem.bearers[b].status = "connected" /\ ~modem.bearers[b].dialing
  BY <1>1 DEF BearerOK, Forced
<1>3. Settling(modem, b, {}) BY <1>2, WholeSettling
<1>4. modem' = QuietStatus(Hang(modem, b, "force"), b, "disconnecting") BY DEF Forced, Starts, Takes
<1> QED BY <1>3, <1>4, HangOK DEF Whole

(* A Simple.Connect is told that its bearer is connected, or not.            *)
LEMMA BearerAnswered ==
  ASSUME NEW m, NEW c \in Connects, Fine(m, {c}, {}), AllSleep(m), NEW y, y = EndConnect(m, c)
  PROVE  Whole(y)
<1>1. m \in ModemType /\ ConnectsOK(m) /\ DialsOK(m, {c}) BY DEF Fine, Sound
<1>2. m.connects[c].step = "connect" BY <1>1 DEF DialsOK
<1>3. ConnectsBut(m, c) /\ m.op.by # c BY <1>1, <1>2 DEF ConnectsOK, ConnectOK, ConnectsBut
<1>4. Proceeded(m, y, c, "connect") BY <1>1, <1>3, EndConnectProceeds
<1>5. /\ ConnectsOK(y)
      /\ DialsOK(m, {c}) => DialsOK(y, {c} \ {c})
      /\ ConnectsSleep(m) => ConnectsSleep(y)
  BY <1>1, <1>3, <1>4, ProceededOK
<1>6. {c} \ {c} = {} OBVIOUS
<1>7. c # "op" BY ModemStateAssumption
<1>8. OnlyWaits(m, y) /\ y \in ModemType /\ ("op" \in y.waiters <=> "op" \in m.waiters)
  BY <1>4, <1>7 DEF Proceeded, Moved
<1>9. /\ OpOK(m) => OpOK(y)
      /\ BearersOK(m) => BearersOK(y)
      /\ ReloadOK(m) => ReloadOK(y)
      /\ OpSleeps(m) => OpSleeps(y)
      /\ LinkOK(m) => LinkOK(y)
      /\ \A S : ListsOK(m, S) => ListsOK(y, S)
  BY <1>1, <1>8, WaitsFrame
<1> QED BY <1>1, <1>5, <1>6, <1>8, <1>9 DEF Whole, Fine, Sound, AllSleep

(* Of bearer b only the attempt changes.                                     *)
Answered(m, y, b) ==
  \E r \in BearerType : /\ BearerPut(m, y, b, r)
                        /\ r.by = m.bearers[b].by /\ r.status = m.bearers[b].status

(* connect_ready: the bearer dials no more and may settle,                   *)
LEMMA ConnectAnswered ==
  ASSUME Whole(modem), NEW b \in Bearers, modem.bearers[b].dialing,
         NEW c \in Connects \union {None}, c = modem.bearers[b].connect,
         NEW m, m = [modem EXCEPT !.bearers[b] = [@ EXCEPT !.dialing = FALSE, !.connect = None]]
  PROVE  Settling(m, b, IF c = None THEN {} ELSE {c}) /\ Answered(modem, m, b)
<1>1. modem \in ModemType /\ BearersOK(modem) /\ DialsOK(modem, {})
  BY DEF Whole, Fine, Sound
<1>2. modem.bearers[b] \in BearerType /\ BearerOK(modem.bearers[b]) BY <1>1 DEF BearersOK, ModemType
<1>4. PICK r : r = [modem.bearers[b] EXCEPT !.dialing = FALSE, !.connect = None] OBVIOUS
<1>5. /\ r \in BearerType /\ r.dialing = FALSE /\ r.connect = None /\ r.by = modem.bearers[b].by
      /\ r.status = modem.bearers[b].status /\ r.hanging = modem.bearers[b].hanging
  BY <1>2, <1>4 DEF BearerType
<1>6. m = [modem EXCEPT !.bearers[b] = r] BY <1>4
<1>7. m = WithBearers(modem, modem.list, PutBearer(modem, b, r))
  BY <1>1, <1>6 DEF WithBearers, PutBearer, ModemType
<1>8. BearerPut(modem, m, b, r) BY <1>1, <1>5, <1>7, BearerPutEffect
<1>9. /\ m \in ModemType /\ m.list = modem.list /\ m.bearers[b] = r
      /\ \A d \in Bearers \ {b} : m.bearers[d] = modem.bearers[d]
      /\ m.op = modem.op /\ m.state = modem.state /\ m.waiters = modem.waiters /\ m.ahead = modem.ahead
      /\ m.ongoing = modem.ongoing /\ m.connects = modem.connects /\ m.lists = modem.lists
      /\ m.reloads = modem.reloads /\ m.reloading = modem.reloading
  BY <1>8 DEF BearerPut, OnlyBearers, SameState, SameWaits, SameOp, SameLists, SameNetwork
<1>10. PICK X : X = IF c = None THEN {} ELSE {c} OBVIOUS
<1>11. DialsOK(m, X)
  <2>1. ASSUME NEW d \in Connects, d \in X PROVE m.connects[d].step = "connect"
    BY <1>1, <1>9, <1>10, <2>1 DEF DialsOK
  <2>2. ASSUME NEW d \in Connects, d \notin X, m.connects[d].step = "connect"
        PROVE  m.bearers[m.connects[d].bearer].connect = d
    <3>1. modem.bearers[modem.connects[d].bearer].connect = d BY <1>1, <1>9, <2>2 DEF DialsOK
    <3>2. modem.connects[d].bearer \in Bearers
      BY <1>9, <2>2 DEF Whole, Fine, Sound, ConnectsOK, ConnectOK, ModemType, ConnectType
    <3>3. modem.connects[d].bearer # b BY <1>10, <2>2, <3>1, ModemStateAssumption
    <3> QED BY <1>9, <3>1, <3>2, <3>3
  <2>3. ASSUME NEW d \in Bearers, m.bearers[d].connect # None
        PROVE  /\ m.bearers[d].connect \notin X /\ m.connects[m.bearers[d].connect].step = "connect"
               /\ m.connects[m.bearers[d].connect].bearer = d
    <3>1. d # b /\ m.bearers[d] = modem.bearers[d] BY <1>5, <1>9, <2>3
    <3>2. /\ modem.connects[modem.bearers[d].connect].step = "connect"
          /\ modem.connects[modem.bearers[d].connect].bearer = d
      BY <1>1, <2>3, <3>1 DEF DialsOK
    <3>3. c # None => modem.connects[c].bearer = b BY <1>1 DEF DialsOK
    <3>4. m.bearers[d].connect \notin X BY <1>10, <3>1, <3>2, <3>3
    <3> QED BY <1>9, <3>1, <3>2, <3>4
  <2> QED BY <2>1, <2>2, <2>3 DEF DialsOK
<1>12. Settling(m, b, X)
  <2>1. /\ b \in Listed(m)
        /\ \A d \in Bearers \ {b} : /\ BearerOK(m.bearers[d])
                                    /\ m.bearers[d].status # "disconnected" => d \in Listed(m)
    BY <1>1, <1>2, <1>9 DEF BearersOK, BearerOK, Listed
  <2>2. ConnectsOK(m) BY <1>9 DEF ConnectsOK, ConnectOK, Whole, Fine, Sound
  <2>3. ReloadOK(m) /\ OpOK(m) /\ LinkOK(m)
    BY <1>9 DEF ReloadOK, OpOK, Undertaken, LinkOK, Whole, Fine, Sound
  <2>4. ListsOK(m, {})
    <3>1. \A d \in Bearers : m.bearers[d].by = modem.bearers[d].by BY <1>5, <1>9
    <3> QED BY <1>9, <3>1 DEF ListsOK, ListOK, Whole, Fine
  <2>5. AllSleep(m) BY <1>9 DEF AllSleep, ConnectsSleep, OpSleeps, Wanted, Whole
  <2> QED BY <1>5, <1>9, <1>11, <2>1, <2>2, <2>3, <2>4, <2>5 DEF Settling
<1>13. Answered(modem, m, b) BY <1>5, <1>8 DEF Answered
<1> QED BY <1>10, <1>12, <1>13

(* its status is told, and a Simple.Connect that waited for it.              *)
LEMMA ConnectReadyKeeps ==
  ASSUME Whole(modem), NEW b \in Bearers, NEW ok \in BOOLEAN, ConnectReady(b, ok)
  PROVE  Whole(modem')
<1>1. modem \in ModemType /\ modem.bearers[b].dialing BY DEF Whole, Fine, Sound, ConnectReady
<1>2. modem.bearers[b] \in BearerType BY <1>1 DEF ModemType
<1>3. PICK c \in Connects \union {None} : c = modem.bearers[b].connect BY <1>2 DEF BearerType
<1>4. PICK m : m = [modem EXCEPT !.bearers[b] = [@ EXCEPT !.dialing = FALSE, !.connect = None]] OBVIOUS
<1>5. PICK X : X = IF c = None THEN {} ELSE {c} OBVIOUS
<1>6. Settling(m, b, X) BY <1>1, <1>3, <1>4, <1>5, ConnectAnswered
<1>7. PICK n : n = IF ok /\ ~modem.bearers[b].cancelled THEN Settle(m, b, "connected")
                    ELSE IF modem.bearers[b].cancelled
                      THEN QuietStatus(Hang(m, b, "cancel"), b, "disconnecting")
                    ELSE Settle(m, b, "disconnected")
  OBVIOUS
<1>8. Fine(n, X, {}) /\ AllSleep(n)
  <2>1. CASE ok /\ ~modem.bearers[b].cancelled BY <1>6, <1>7, <2>1, SettleOK
  <2>2. CASE modem.bearers[b].cancelled
    <3>1. n = QuietStatus(Hang(m, b, "cancel"), b, "disconnecting") BY <1>7, <2>2
    <3> QED BY <1>6, <3>1, HangOK
  <2>3. CASE ~ok /\ ~modem.bearers[b].cancelled
    <3>1. n = Settle(m, b, "disconnected") BY <1>7, <2>3
    <3> QED BY <1>6, <3>1, SettleOK
  <2> QED BY <2>1, <2>2, <2>3
<1>9. modem' = IF c = None THEN n ELSE EndConnect(n, c)
  BY <1>3, <1>4, <1>7, Zenon DEF ConnectReady, Goes
<1>10. CASE c = None BY <1>5, <1>8, <1>9, <1>10 DEF Whole
<1>11. CASE c # None
  <2>1. c \in Connects /\ X = {c} /\ modem' = EndConnect(n, c) BY <1>5, <1>9, <1>11
  <2> QED BY <1>8, <2>1, BearerAnswered
<1> QED BY <1>10, <1>11

----------------------------------------------------------------------------
(* Only the registration counts its reloads.                                *)
Counts(m)  == "reloads" \in DOMAIN m
Kept(m, y) == DOMAIN y = DOMAIN m /\ y.reloads = m.reloads

(* The small operators keep the count,                                      *)
LEMMA SmallKept ==
  ASSUME NEW m, Counts(m)
  PROVE  /\ \A s : Kept(m, SetState(m, s))
         /\ \A w : Kept(m, StopWaiting(m, w))
         /\ \A b, s : Kept(m, SetStatus(m, b, s))
         /\ \A w, a : Kept(m, SetAnswer(m, w, a))
         /\ \A b, w, h : Kept(m, AskedBy(m, b, w, h))
         /\ \A s : Kept(m, OpStep(m, s))
         /\ \A c, s : Kept(m, SetStep(m, c, s))
         /\ \A C : Kept(m, TellConnects(m, C))
         /\ \A s : Kept(m, [m EXCEPT !.subsystem = s])
<1>1. \A s : Kept(m, SetState(m, s)) BY DEF Kept, Counts, SetState
<1>2. \A w : Kept(m, StopWaiting(m, w)) BY DEF Kept, Counts, StopWaiting
<1>3. \A b, s : Kept(m, SetStatus(m, b, s)) BY DEF Kept, Counts, SetStatus
<1>4. \A w, a : Kept(m, SetAnswer(m, w, a)) BY DEF Kept, Counts, SetAnswer
<1>5. \A b, w, h : Kept(m, AskedBy(m, b, w, h)) BY DEF Kept, Counts, AskedBy
<1>6. \A s : Kept(m, OpStep(m, s)) BY DEF Kept, Counts, OpStep
<1>7. \A c, s : Kept(m, SetStep(m, c, s)) BY DEF Kept, Counts, SetStep
<1>8. \A C : Kept(m, TellConnects(m, C)) BY DEF Kept, Counts, TellConnects
<1>9. \A s : Kept(m, [m EXCEPT !.subsystem = s]) BY DEF Kept, Counts
<1> QED BY <1>1, <1>2, <1>3, <1>4, <1>5, <1>6, <1>7, <1>8, <1>9

(* as do two in a row,                                                      *)
LEMMA KeptOn ==
  ASSUME NEW m, Counts(m), NEW n, Kept(m, n), NEW y, Kept(n, y)
  PROVE  Kept(m, y) /\ Counts(n)
BY DEF Kept, Counts

(* the steps of an attempt,                                                 *)
LEMMA ConnectKept ==
  ASSUME NEW m, Counts(m), NEW c
  PROVE  Kept(m, EndConnect(m, c)) /\ \A step : Kept(m, ConnectionStep(m, c, step))
<1>1. Kept(m, EndConnect(m, c))
  <2>1. PICK n : n = StopWaiting(m, c) OBVIOUS
  <2>2. Kept(m, n) BY <2>1, SmallKept
  <2>3. PICK o : o = IF m.connects[c].cancellable THEN None ELSE n.ongoing OBVIOUS
  <2>4. EndConnect(m, c) = [n EXCEPT !.ongoing = o, !.connects[c] = NoAttempt]
    BY <2>1, <2>3, Zenon DEF EndConnect
  <2> QED BY <2>2, <2>4 DEF Kept, Counts
<1>2. ASSUME NEW step, NEW s PROVE Kept(m, WaitFor(m, c, step, s))
  <2>1. PICK n : n = SetStep(m, c, step) OBVIOUS
  <2>2. Kept(m, n) BY <2>1, SmallKept
  <2>3. CASE m.state \notin Intermediate /\ s \in {None, m.state}
    <3>1. WaitFor(m, c, step, s) = [m EXCEPT !.connects[c] = [@ EXCEPT !.step = step, !.seen = m.state]]
      BY <2>3, Zenon DEF WaitFor
    <3> QED BY <3>1 DEF Kept, Counts
  <2>4. CASE ~(m.state \notin Intermediate /\ s \in {None, m.state})
    <3>1. WaitFor(m, c, step, s) = [n EXCEPT !.waiters = @ \union {c}]
      BY <2>1, <2>4, Zenon DEF WaitFor
    <3> QED BY <2>2, <3>1 DEF Kept, Counts
  <2> QED BY <2>3, <2>4
<1>3. ASSUME NEW step PROVE Kept(m, ConnectionStep(m, c, step))
  <2>1. \/ ConnectionStep(m, c, step) = EndConnect(m, c)
        \/ ConnectionStep(m, c, step) = WaitFor(m, c, step, "disabled")
        \/ ConnectionStep(m, c, step) = WaitFor(m, c, step, None)
        \/ ConnectionStep(m, c, step) = SetStep(m, c, step)
    BY Zenon DEF ConnectionStep
  <2> QED BY <1>1, <1>2, <2>1, SmallKept
<1> QED BY <1>1, <1>3

(* the end of a sequence,                                                   *)
LEMMA OpDoneKept ==
  ASSUME NEW m, Counts(m), NEW ok
  PROVE  Kept(m, OpDone(m, ok))
<1>1. PICK p : p = StopWaiting(m, "op") OBVIOUS
<1>2. PICK n : n = [p EXCEPT !.op = NoOp] OBVIOUS
<1>3. Kept(m, p) BY <1>1, SmallKept
<1>4. Kept(m, n) /\ Counts(n) BY <1>2, <1>3 DEF Kept, Counts
<1>5. \/ OpDone(m, ok) = n
      \/ OpDone(m, ok) = ConnectionStep(n, m.op.by, "enabled")
      \/ OpDone(m, ok) = EndConnect(n, m.op.by)
  BY <1>1, <1>2, Zenon DEF OpDone
<1>6. OpDone(m, ok) = n \/ Kept(n, OpDone(m, ok)) BY <1>4, <1>5, ConnectKept
<1> QED BY <1>4, <1>6, KeptOn

(* whatever its result,                                                     *)
LEMMA OpEndKept ==
  ASSUME NEW m, Counts(m)
  PROVE  Kept(m, OpFailed(m)) /\ Kept(m, OpSucceeded(m))
<1>1. ASSUME NEW s PROVE Kept(m, TellOthers(m.state, SetState(m, s)))
  <2>1. PICK n : n = SetState(m, s) OBVIOUS
  <2>2. Kept(m, n) /\ Counts(n) BY <2>1, SmallKept DEF Kept, Counts
  <2>3. TellOthers(m.state, n) = n \/ TellOthers(m.state, n) = TellConnects(n, Connects)
    BY Zenon DEF TellOthers
  <2> QED BY <2>1, <2>2, <2>3, SmallKept, KeptOn
<1>2. Kept(m, OpSucceeded(m))
  <2>1. PICK end : end = IF m.op.kind = "disable" THEN "disabled" ELSE "enabled" OBVIOUS
  <2>2. PICK n : n = TellOthers(m.state, SetState(m, end)) OBVIOUS
  <2>3. Kept(m, n) /\ Counts(n) BY <1>1, <2>2 DEF Kept, Counts
  <2>4. OpSucceeded(m) = OpDone(n, TRUE) BY <2>1, <2>2, Zenon DEF OpSucceeded
  <2> QED BY <2>3, <2>4, OpDoneKept, KeptOn
<1>3. Kept(m, OpFailed(m))
  <2>1. PICK end : end = IF m.op.kind = "disable" THEN "disabled" ELSE "enabled" OBVIOUS
  <2>2. PICK p : p = TellOthers(m.state, SetState(m, m.op.previous)) OBVIOUS
  <2>3. Kept(m, p) BY <1>1, <2>2
  <2>4. PICK n : n = IF m.op.previous = end THEN m ELSE [p EXCEPT !.restored = TRUE] OBVIOUS
  <2>5. Kept(m, n) /\ Counts(n) BY <2>3, <2>4 DEF Kept, Counts
  <2>6. OpFailed(m) = OpDone(n, FALSE) BY <2>1, <2>2, <2>4, Zenon DEF OpFailed
  <2> QED BY <2>5, <2>6, OpDoneKept, KeptOn
<1> QED BY <1>2, <1>3

(* the disconnection of a bearer                                            *)
LEMMA DisconnectKept ==
  ASSUME NEW m, Counts(m), NEW b, NEW who
  PROVE  Kept(m, Disconnect(m, b, who))
<1>1. ASSUME NEW n, Counts(n), NEW s PROVE Kept(n, QuietStatus(n, b, s))
  <2>1. PICK p : p = SetStatus(n, b, s) OBVIOUS
  <2>2. Kept(n, p) /\ Counts(p) BY <1>1, <2>1, SmallKept DEF Kept, Counts
  <2>3. QuietStatus(n, b, s) = p \/ QuietStatus(n, b, s) = SetState(p, s)
    BY <2>1, Zenon DEF QuietStatus
  <2> QED BY <1>1, <2>2, <2>3, SmallKept, KeptOn
<1>2. ASSUME NEW h PROVE Kept(m, QuietStatus(AskedBy(m, b, who, h), b, "disconnecting"))
  <2>1. PICK n : n = AskedBy(m, b, who, h) OBVIOUS
  <2>2. Kept(m, n) /\ Counts(n) BY <2>1, SmallKept DEF Kept, Counts
  <2> QED BY <1>1, <2>1, <2>2, KeptOn
<1>3. Kept(m, m) BY DEF Kept
<1>4. PICK s : s = m.bearers[b].status OBVIOUS
<1>5. CASE s = "disconnected" BY <1>3, <1>4, <1>5, SmallKept DEF Disconnect
<1>6. CASE s = "disconnecting" BY <1>3, <1>4, <1>6, SmallKept DEF Disconnect
<1>7. CASE s = "connecting" BY <1>2, <1>4, <1>7 DEF Disconnect
<1>8. CASE s \notin {"disconnected", "disconnecting", "connecting"} BY <1>2, <1>4, <1>8 DEF Disconnect
<1> QED BY <1>5, <1>6, <1>7, <1>8

(* and of them all,                                                         *)
LEMMA DisconnectBearersKept ==
  ASSUME NEW m, Counts(m), NEW who
  PROVE  Kept(m, DisconnectBearers(m, who))
<1>1. ASSUME NEW n, Counts(n) PROVE Kept(n, DisconnectNext(n, who))
  <2>1. PICK left : left = n.lists[who].pending OBVIOUS
  <2>2. CASE left = <<>>
    <3>1. PICK p : p = [n EXCEPT !.lists[who] = NoList] OBVIOUS
    <3>2. Kept(n, p) /\ Counts(p) BY <1>1, <3>1 DEF Kept, Counts
    <3>3. DisconnectNext(n, who) = ListDone(n, who, TRUE) BY <2>1, <2>2, Zenon DEF DisconnectNext
    <3>4. ListDone(n, who, TRUE) = p \/ ListDone(n, who, TRUE) = OpStep(p, "threegpp")
      BY <3>1, Zenon DEF ListDone
    <3> QED BY <1>1, <3>2, <3>3, <3>4, SmallKept, KeptOn
  <2>3. CASE left # <<>>
    <3>1. PICK p : p = Begun(n, who, Tail(left)) OBVIOUS
    <3>2. Kept(n, p) /\ Counts(p) BY <1>1, <3>1 DEF Kept, Counts, Begun
    <3>3. DisconnectNext(n, who) = Disconnect(p, Head(left), who)
      BY <2>1, <2>3, <3>1, Zenon DEF DisconnectNext, Begun
    <3> QED BY <1>1, <3>2, <3>3, DisconnectKept, KeptOn
  <2> QED BY <2>2, <2>3
<1>2. PICK n : n = Begun(m, who, Reverse(m.list)) OBVIOUS
<1>3. Kept(m, n) /\ Counts(n) BY <1>2 DEF Kept, Counts, Begun
<1>4. DisconnectBearers(m, who) = SetAnswer(n, who, "ok") \/ DisconnectBearers(m, who) = DisconnectNext(n, who)
  BY <1>2, Zenon DEF DisconnectBearers, Begun
<1>5. Kept(n, DisconnectBearers(m, who)) BY <1>1, <1>3, <1>4, SmallKept
<1> QED BY <1>3, <1>5, KeptOn

(* what the sequence does when told,                                        *)
LEMMA OpToldKept ==
  ASSUME NEW m, Counts(m), NEW s
  PROVE  Kept(m, OpTold(m, s))
<1>1. PICK n : n = WaitOver(m, s) OBVIOUS
<1>2. Kept(m, n) /\ Counts(n)
  <2>1. PICK p : p = StopWaiting(m, "op") OBVIOUS
  <2>2. Kept(m, p) /\ Counts(p) BY <2>1, SmallKept DEF Kept, Counts
  <2>3. PICK o : o = [p.op EXCEPT !.seen = None, !.previous = s] OBVIOUS
  <2>4. n = [p EXCEPT !.op = o] BY <1>1, <2>1, <2>3 DEF WaitOver
  <2> QED BY <2>2, <2>4 DEF Kept, Counts
<1>3. ASSUME NEW t, NEW step PROVE Kept(n, OpStep(SetState(n, t), step))
  <2>1. PICK p : p = SetState(n, t) OBVIOUS
  <2>2. Kept(n, p) /\ Counts(p) BY <1>2, <2>1, SmallKept DEF Kept, Counts
  <2> QED BY <1>2, <2>1, <2>2, SmallKept, KeptOn
<1>4. PICK p : p = OpStep(SetState(n, "disabling"), "bearers") OBVIOUS
<1>5. Kept(n, p) /\ Counts(p) BY <1>2, <1>3, <1>4 DEF Kept, Counts
<1>6. Kept(n, DisconnectBearers(p, "op")) BY <1>2, <1>5, DisconnectBearersKept, KeptOn
<1>7. \/ OpTold(m, s) = OpFailed(n) \/ OpTold(m, s) = OpSucceeded(n)
      \/ OpTold(m, s) = OpStep(SetState(n, "enabling"), "starting")
      \/ OpTold(m, s) = DisconnectBearers(p, "op")
  BY <1>1, <1>4, Zenon DEF OpTold, WaitOver
<1>8. Kept(n, OpTold(m, s)) BY <1>2, <1>3, <1>6, <1>7, OpEndKept
<1> QED BY <1>2, <1>8, KeptOn

(* and so the update of the subsystem state.                                *)
LEMMA UpdateSubsystemStateKept ==
  ASSUME NEW m, Counts(m), NEW s
  PROVE  Kept(m, UpdateSubsystemState(m, s))
<1>1. PICK n : n = [m EXCEPT !.subsystem = s] OBVIOUS
<1>2. Kept(m, n) /\ Counts(n) BY <1>1, SmallKept DEF Kept, Counts
<1>3. PICK p : p = SetState(n, s) OBVIOUS
<1>4. Kept(n, p) /\ Counts(p) BY <1>2, <1>3, SmallKept DEF Kept, Counts
<1>5. Kept(p, Tell(n.state, p))
  <2>1. PICK first : first = TellConnects(p, p.ahead) OBVIOUS
  <2>2. Kept(p, first) /\ Counts(first) BY <1>4, <2>1, SmallKept DEF Kept, Counts
  <2>3. PICK q : q = IF "op" \in p.waiters /\ Wanted(p, "op") THEN OpTold(first, p.state) ELSE first
    OBVIOUS
  <2>4. Kept(p, q) /\ Counts(q)
    <3>1. q = first \/ Kept(first, q) BY <2>2, <2>3, OpToldKept
    <3> QED BY <1>4, <2>2, <3>1, KeptOn DEF Kept, Counts
  <2>5. Tell(n.state, p) = p \/ Tell(n.state, p) = TellConnects(q, Connects)
    BY <2>1, <2>3, Zenon DEF Tell
  <2>6. Kept(p, p) BY DEF Kept
  <2> QED BY <1>4, <2>4, <2>5, <2>6, SmallKept, KeptOn
<1>6. UpdateSubsystemState(m, s) = n \/ UpdateSubsystemState(m, s) = Tell(n.state, p)
  BY <1>1, <1>3, Zenon DEF UpdateSubsystemState, UpdateState
<1>7. Kept(n, UpdateSubsystemState(m, s)) \/ UpdateSubsystemState(m, s) = n
  BY <1>2, <1>4, <1>5, <1>6, KeptOn
<1> QED BY <1>2, <1>7, KeptOn

(* update_registration_state:                                               *)
LEMMA ReportKeeps ==
  ASSUME Whole(modem), NEW r \in {"unknown", "searching", "home"}, Report(r)
  PROVE  Whole(modem')
<1>1. modem \in ModemType /\ Fine(modem, {}, {}) /\ AllSleep(modem) /\ ReloadOK(modem)
  BY DEF Whole, Fine, Sound
<1>2. CASE r # "home"
  <2>1. modem' = UpdateNonRegistered(modem, r) BY <1>2 DEF Report, Starts, Takes
  <2> QED BY <1>1, <1>2, <2>1, UpdateNonRegisteredOK DEF Whole
<1>3. CASE r = "home"
  <2>1. modem' = UpdateRegistered(modem) BY <1>3 DEF Report, Starts, Takes
  <2>2. CASE modem' = modem BY <2>2
  <2>3. CASE ~modem.reloading /\ modem' = [modem EXCEPT !.reloading = TRUE, !.reloads = @ + 1]
    <3>1. modem.reloads = 0 BY <1>1, <2>3 DEF ReloadOK
    <3>2. modem' = [modem EXCEPT !.reloading = TRUE, !.reloads = 1] BY <2>3, <3>1
    <3>3. modem' \in ModemType /\ modem'.reloads = 1 /\ modem'.reloading /\ OnlyNetwork(modem, modem')
      BY <1>1, <3>2
         DEF ModemType, OnlyNetwork, SameState, SameWaits, SameOp, SameBearers, SameLists
    <3>4. ReloadOK(modem') BY <3>3 DEF ReloadOK
    <3> QED BY <1>1, <3>3, <3>4, NetworkFrame DEF Whole, AllSleep, Asleep
  <2> QED BY <2>1, <2>2, <2>3 DEF UpdateRegistered
<1> QED BY <1>2, <1>3

(* update_registration_reload_current_registration_info_ready:              *)
LEMMA RegistrationReloadedKeeps ==
  ASSUME Whole(modem), RegistrationReloaded
  PROVE  Whole(modem')
<1>1. modem \in ModemType /\ Fine(modem, {}, {}) /\ AllSleep(modem) /\ ReloadOK(modem)
  BY DEF Whole, Fine, Sound
<1>2. modem.reloads = 1 BY <1>1 DEF RegistrationReloaded, ReloadOK
<1>3. PICK m : m = [modem EXCEPT !.reloads = @ - 1] OBVIOUS
<1>4. /\ m \in ModemType /\ m.reloads = 0 /\ m.enabled = modem.enabled /\ OnlyNetwork(modem, m)
  BY <1>1, <1>2, <1>3
     DEF ModemType, OnlyNetwork, SameState, SameWaits, SameOp, SameBearers, SameLists
<1>5. ReloadOK(m) BY <1>4 DEF ReloadOK
<1>6. Whole(m) BY <1>1, <1>4, <1>5, NetworkFrame DEF Whole, AllSleep, Asleep
<1>7. CASE ~m.enabled
  <2>1. modem' = m BY <1>3, <1>7 DEF RegistrationReloaded, Goes
  <2> QED BY <1>6, <2>1
<1>8. CASE m.enabled
  <2>1. PICK n : n = [m EXCEPT !.registration = "home"] OBVIOUS
  <2>2. n \in ModemType /\ n.reloads = 0 /\ OnlyNetwork(m, n) /\ Counts(n)
    BY <1>4, <2>1
       DEF ModemType, OnlyNetwork, SameState, SameWaits, SameOp, SameBearers, SameLists, Counts
  <2>3. ReloadOK(n) BY <2>2 DEF ReloadOK
  <2>4. Whole(n) BY <1>4, <1>6, <2>2, <2>3, NetworkFrame DEF Whole, AllSleep, Asleep
  <2>5. PICK p : p = UpdateSubsystemState(n, "registered") OBVIOUS
  <2>6. Fine(p, {}, {}) /\ AllSleep(p) BY <2>2, <2>4, <2>5, UpdateSubsystemStateOK DEF Whole, Plain
  <2>7. p.reloads = 0 BY <2>2, <2>5, UpdateSubsystemStateKept DEF Kept
  <2>8. modem' = [p EXCEPT !.reloading = FALSE]
    BY <1>3, <1>8, <2>1, <2>5 DEF RegistrationReloaded, Goes
  <2>9. p \in ModemType BY <2>6 DEF Fine, Sound
  <2>10. modem' \in ModemType /\ modem'.reloads = 0 /\ OnlyNetwork(p, modem')
    BY <2>7, <2>8, <2>9
       DEF ModemType, OnlyNetwork, SameState, SameWaits, SameOp, SameBearers, SameLists
  <2>11. ReloadOK(modem') BY <2>10 DEF ReloadOK
  <2> QED BY <2>6, <2>9, <2>10, <2>11, NetworkFrame DEF Whole, AllSleep, Asleep
<1> QED BY <1>7, <1>8

----------------------------------------------------------------------------
(* connect_auth_ready:                                                      *)
LEMMA SimpleConnectKeeps ==
  ASSUME Whole(modem), NEW c \in Connects, SimpleConnect(c)
  PROVE  Whole(modem')
<1>1. /\ modem \in ModemType /\ modem.connects[c].step = "idle" /\ modem.ongoing = None
      /\ modem.connects[c] \in ConnectType /\ ConnectsOK(modem) /\ ConnectOK(modem, c)
  BY DEF Whole, Fine, Sound, ConnectsOK, SimpleConnect, ModemType
<1>2. PICK r : r = [modem.connects[c] EXCEPT !.cancellable = TRUE] OBVIOUS
<1>3. /\ r \in ConnectType /\ r.cancellable = TRUE /\ r.step = "idle" /\ r.seen = modem.connects[c].seen
      /\ r.cancelled = modem.connects[c].cancelled /\ r.bearer = modem.connects[c].bearer
  BY <1>1, <1>2 DEF ConnectType
<1>4. PICK m : m = [modem EXCEPT !.ongoing = c, !.connects[c] = r] OBVIOUS
<1>5. /\ m \in ModemType /\ m.ongoing = c /\ m.connects[c] = r
      /\ \A d \in Connects \ {c} : m.connects[d] = modem.connects[d]
      /\ m.op = modem.op /\ m.state = modem.state /\ m.waiters = modem.waiters /\ m.ahead = modem.ahead
      /\ m.list = modem.list /\ m.bearers = modem.bearers /\ m.lists = modem.lists
      /\ m.reloads = modem.reloads /\ m.reloading = modem.reloading
  BY <1>1, <1>3, <1>4 DEF ModemType
<1>6. ~r.cancelled /\ r.seen = None /\ r.bearer = None /\ c \notin modem.waiters /\ modem.op.by # c
  BY <1>1, <1>3 DEF ConnectOK
<1>7. Free(m, c) BY <1>3, <1>5, <1>6 DEF Free
<1>8. ConnectsBut(m, c)
  <2>1. \A d \in Connects \ {c} : ConnectOK(m, d) BY <1>1, <1>5 DEF ConnectsOK, ConnectOK
  <2> QED BY <1>1, <1>3, <1>5, <1>6, <2>1 DEF ConnectsBut, ConnectsOK
<1>9. But(m, c)
  <2>1. BearersOK(m) /\ OpOK(m) /\ ReloadOK(m) /\ LinkOK(m)
    BY <1>5 DEF BearersOK, Listed, OpOK, Undertaken, ReloadOK, LinkOK, Whole, Fine, Sound
  <2>2. ListsOK(m, {}) BY <1>5 DEF ListsOK, ListOK, Whole, Fine
  <2>3. AllSleep(m)
    BY <1>5, <1>6 DEF AllSleep, ConnectsSleep, OpSleeps, Wanted, Whole
  <2>4. But(modem, c) BY <1>1, WholeBut
  <2>5. \A d \in Connects \ {c} :
          m.connects[d].step = "connect" => m.bearers[m.connects[d].bearer].connect = d
    BY <1>5, <2>4 DEF But
  <2>6. ASSUME NEW b \in Bearers, m.bearers[b].connect # None
        PROVE  /\ m.bearers[b].connect # c /\ m.connects[m.bearers[b].connect].step = "connect"
               /\ m.connects[m.bearers[b].connect].bearer = b
    <3>1. modem.bearers[b].connect \in Connects \union {None} BY <1>1 DEF ModemType, BearerType
    <3> QED BY <1>5, <2>4, <2>6, <3>1 DEF But
  <2> QED BY <1>5, <2>1, <2>2, <2>3, <2>5, <2>6 DEF But
<1>10. PICK step \in {"unlock", "initialized", "enable", "enabled", "pausing", "registering", "bearer"} :
         step = FirstStep(modem.state)
  BY DEF FirstStep
<1>11. modem' = ConnectionStep(m, c, step)
  BY <1>2, <1>4, <1>10, Zenon DEF SimpleConnect, Takes
<1>12. m.connects[c].step # "connect" BY <1>3, <1>5
<1> QED BY <1>7, <1>8, <1>9, <1>11, <1>12, ConnectionStepWhole

(* wait_for_initialized_ready and wait_for_enabled_ready:                   *)
LEMMA ConnectSeenKeeps ==
  ASSUME Whole(modem), NEW c \in Connects, ConnectSeen(c)
  PROVE  Whole(modem')
<1>1. modem \in ModemType /\ ConnectsOK(modem) /\ modem.connects[c].seen # None
  BY DEF Whole, Fine, Sound, ConnectSeen
<1>2. modem.connects[c].step \in {"initialized", "enabled"} BY <1>1 DEF ConnectsOK, ConnectOK
<1>3. modem.connects[c].seen \in ToSet(States) BY <1>1 DEF ModemType, ConnectType
<1>4. PICK step \in {"enable", "pausing"} : Proceeded(modem, modem', c, step)
  BY <1>1, <1>2, <1>3, ConnectToldProceeds DEF ConnectSeen, Goes
<1>5. But(modem, c) /\ ConnectsBut(modem, c) BY <1>2, WholeBut
<1> QED BY <1>2, <1>4, <1>5, ProceededWhole

(* update_lock_info_ready:                                                  *)
LEMMA UnlockedKeeps ==
  ASSUME Whole(modem), NEW c \in Connects, NEW ok \in BOOLEAN, Unlocked(c, ok)
  PROVE  Whole(modem')
<1>1. modem.connects[c].step = "unlock" BY DEF Unlocked
<1>2. Free(modem, c) /\ But(modem, c) /\ ConnectsBut(modem, c) BY <1>1, WholeFree
<1>3. CASE ok
  BY <1>1, <1>2, <1>3, ConnectionStepWhole DEF Unlocked, Goes
<1>4. CASE ~ok
  BY <1>1, <1>4, EndConnectWhole DEF Unlocked, Goes
<1> QED BY <1>3, <1>4

(* wait_after_enabled_ready:                                                *)
LEMMA PausedKeeps ==
  ASSUME Whole(modem), NEW c \in Connects, Paused(c)
  PROVE  Whole(modem')
<1>1. modem.connects[c].step = "pausing" BY DEF Paused
<1>2. Free(modem, c) /\ But(modem, c) /\ ConnectsBut(modem, c) BY <1>1, WholeFree
<1> QED BY <1>1, <1>2, ConnectionStepWhole DEF Paused, Goes

(* An attempt that is free takes any step.                                  *)
LEMMA SetStepFrame ==
  ASSUME NEW m, NEW c \in Connects, But(m, c), ConnectsBut(m, c), Free(m, c),
         NEW step \in Steps, NEW y, y = SetStep(m, c, step)
  PROVE  /\ y \in ModemType /\ But(y, c) /\ ConnectsBut(y, c) /\ Free(y, c)
         /\ y.connects[c].step = step /\ y.op = m.op /\ y.list = m.list
<1>1. m \in ModemType /\ m.connects[c].seen = None BY DEF But, Free
<1>2. PICK r : r = AtStep(m, c, step, None) OBVIOUS
<1>3. /\ r \in ConnectType /\ r.step = step /\ r.seen = None
      /\ r.cancellable = m.connects[c].cancellable /\ r.cancelled = m.connects[c].cancelled
      /\ r.bearer = m.connects[c].bearer
  BY <1>1, <1>2, AtStepType
<1>4. PICK f : f = PutConnect(m, c, r) OBVIOUS
<1>5. f \in [Connects -> ConnectType] /\ f[c] = r /\ \A d \in Connects \ {c} : f[d] = m.connects[d]
  BY <1>1, <1>3, <1>4 DEF PutConnect, ModemType
<1>6. y = WithWaits(m, m.waiters, m.ahead, m.ongoing, f) BY <1>1, <1>2, <1>4, SetStepIs
<1>7. m.waiters \in SUBSET Waiters /\ m.ahead \in SUBSET Connects /\ m.ongoing \in Connects \union {None}
  BY <1>1 DEF ModemType
<1>8. y \in ModemType /\ y.waiters = m.waiters /\ y.ahead = m.ahead
  BY ONLY <1>1, <1>5, <1>6, <1>7, PutWaits
<1>9. y.ongoing = m.ongoing /\ y.connects = f /\ OnlyWaits(m, y)
  BY ONLY <1>1, <1>5, <1>6, <1>7, PutWaits
<1>10. /\ y.op = m.op /\ y.state = m.state /\ y.list = m.list /\ y.bearers = m.bearers
       /\ y.lists = m.lists /\ y.reloads = m.reloads /\ y.reloading = m.reloading
  BY <1>9 DEF OnlyWaits, SameState, SameOp, SameBearers, SameLists, SameNetwork
<1>11. Free(y, c)
  <2>1. y.connects[c] = r BY <1>5, <1>9
  <2>2. r.cancellable
    <3>1. m.connects[c].cancellable BY DEF Free
    <3> QED BY <1>3, <3>1
  <2>3. r.seen = None /\ r.bearer = None BY <1>3 DEF Free
  <2> QED BY <1>8, <1>10, <2>1, <2>2, <2>3 DEF Free
<1>12. ConnectsBut(y, c)
  <2>1. \A d \in Connects \ {c} : ConnectOK(y, d) BY <1>5, <1>8, <1>9, <1>10 DEF ConnectsBut, ConnectOK
  <2>2. y.ongoing # None => y.connects[y.ongoing].cancellable /\ ~y.connects[y.ongoing].cancelled
    <3>1. CASE y.ongoing = c BY <1>3, <1>5, <1>9, <3>1 DEF ConnectsBut
    <3>2. CASE y.ongoing # c BY <1>5, <1>7, <1>9, <3>2 DEF ConnectsBut
    <3> QED BY <3>1, <3>2
  <2> QED BY <1>8, <1>10, <2>1, <2>2 DEF ConnectsBut
<1>13. But(y, c)
  <2>1. BearersOK(y) /\ OpOK(y) /\ ReloadOK(y) /\ LinkOK(y)
    BY <1>8, <1>10 DEF BearersOK, Listed, OpOK, Undertaken, ReloadOK, LinkOK, But
  <2>2. ListsOK(y, {}) BY <1>10 DEF ListsOK, ListOK, But
  <2>3. AllSleep(y)
    BY <1>5, <1>8, <1>9, <1>10 DEF AllSleep, ConnectsSleep, OpSleeps, Wanted, But, Free
  <2>4. \A d \in Connects \ {c} :
          y.connects[d].step = "connect" => y.bearers[y.connects[d].bearer].connect = d
    BY <1>5, <1>9, <1>10 DEF But
  <2>5. ASSUME NEW b \in Bearers, y.bearers[b].connect # None
        PROVE  /\ y.bearers[b].connect # c /\ y.connects[y.bearers[b].connect].step = "connect"
               /\ y.connects[y.bearers[b].connect].bearer = b
    <3>1. m.bearers[b].connect \in Connects \union {None} BY <1>1 DEF ModemType, BearerType
    <3> QED BY <1>5, <1>9, <1>10, <2>5, <3>1 DEF But
  <2> QED BY <1>8, <2>1, <2>2, <2>3, <2>4, <2>5 DEF But
<1> QED BY <1>3, <1>5, <1>8, <1>9, <1>10, <1>11, <1>12, <1>13

(* CONNECTION_STEP_ENABLE, with the lock:                                   *)
LEMMA ConnectEnablesKeeps ==
  ASSUME Whole(modem), NEW c \in Connects, ConnectEnables(c)
  PROVE  Whole(modem')
<1>1. modem.connects[c].step = "enable" /\ modem.op.kind = "none" BY DEF ConnectEnables
<1>2. Free(modem, c) /\ But(modem, c) /\ ConnectsBut(modem, c) BY <1>1, WholeFree
<1>3. PICK m : m = SetStep(modem, c, "enabling") OBVIOUS
<1>4. /\ m \in ModemType /\ But(m, c) /\ ConnectsBut(m, c) /\ Free(m, c)
      /\ m.connects[c].step = "enabling" /\ m.op = modem.op
  BY <1>2, <1>3, SetStepFrame DEF Steps
<1>5. m.op = NoOp BY <1>1, <1>4 DEF But, OpOK
<1>6. DialsOK(m, {}) BY <1>4 DEF But, DialsOK
<1>7. c # None BY ModemStateAssumption
<1>8. /\ m.connects[c].step = "enabling" /\ c \notin m.waiters /\ m.connects[c].seen = None
      /\ m.connects[c].cancellable /\ m.connects[c].bearer = None
  BY <1>4 DEF Free
<1>9. /\ BearersOK(m) /\ OpOK(m) /\ ReloadOK(m) /\ ListsOK(m, {}) /\ LinkOK(m) /\ AllSleep(m)
      /\ \A d \in Connects \ {c} : ConnectOK(m, d)
      /\ m.ahead \subseteq m.waiters /\ (m.ahead # {} => "op" \in m.waiters)
      /\ m.ongoing # None => m.connects[m.ongoing].cancellable /\ ~m.connects[m.ongoing].cancelled
  BY <1>4 DEF But, ConnectsBut
<1>10. modem' = StartOp(m, "enable", c) BY <1>3 DEF ConnectEnables, Goes
<1> QED BY <1>4, <1>5, <1>6, <1>8, <1>9, <1>10, StartOpOK

(* CONNECTION_STEP_CONNECT, unless the attempt is over.                      *)
LEMMA MayConnectWith ==
  ASSUME NEW m, NEW c \in Connects, NEW b \in Bearers, b \in Listed(m),
         \/ Whole(m) /\ m.connects[c].step = "idle"
         \/ But(m, c) /\ ConnectsBut(m, c) /\ Free(m, c) /\ m.connects[c].step # "idle",
         NEW y, y = ConnectWith(m, c, b)
  PROVE  Whole(y)
<1>1. CASE m.connects[c].step = "idle" BY <1>1 DEF ConnectWith
<1>2. CASE m.connects[c].step # "idle" BY <1>2, ConnectWithOK
<1> QED BY <1>1, <1>2

(* register_in_3gpp_or_cdma_network_ready:                                  *)
LEMMA RegisteredKeeps ==
  ASSUME Whole(modem), NEW c \in Connects, NEW ok \in BOOLEAN, Registered(c, ok)
  PROVE  Whole(modem')
<1>1. modem.connects[c].step = "registering" BY DEF Registered
<1>2. Free(modem, c) /\ But(modem, c) /\ ConnectsBut(modem, c) /\ modem \in ModemType
  BY <1>1, WholeFree
<1>3. PICK m : m = ConnectionStep(modem, c, "bearer") OBVIOUS
<1>4. Whole(m) BY <1>1, <1>2, <1>3, ConnectionStepWhole
<1>5. Proceeded(modem, m, c, "bearer") BY <1>2, <1>3, ConnectionStepProceeds
<1>6. m.connects[c].step \in {"bearer", "idle"} /\ m.list = modem.list
  BY <1>5 DEF Proceeded, Moved, OnlyWaits, SameBearers
<1>7. CASE ~ok
  BY <1>1, <1>7, EndConnectWhole DEF Registered, Goes
<1>8. CASE ok /\ modem' = m
  BY <1>4, <1>8
<1>9. ASSUME NEW b \in Listed(modem), modem' = ConnectWith(m, c, b) PROVE Whole(modem')
  <2>1. b \in Bearers BY <1>2 DEF Listed, ToSet, ModemType
  <2>2. b \in Listed(m) BY <1>6 DEF Listed
  <2>3. m.connects[c].step = "bearer" => But(m, c) /\ ConnectsBut(m, c) /\ Free(m, c)
    BY <1>4, WholeFree
  <2> QED BY <1>4, <1>6, <1>9, <2>1, <2>2, <2>3, MayConnectWith
<1> QED BY <1>3, <1>7, <1>8, <1>9 DEF Registered, Goes

(* create_bearer_ready:                                                     *)
LEMMA BearerCreatedKeeps ==
  ASSUME Whole(modem), NEW c \in Connects, BearerCreated(c)
  PROVE  Whole(modem')
<1>1. modem.connects[c].step = "bearer" BY DEF BearerCreated
<1>2. Free(modem, c) /\ But(modem, c) /\ ConnectsBut(modem, c) /\ modem \in ModemType
  BY <1>1, WholeFree
<1>3. CASE modem' = EndConnect(modem, c) BY <1>1, <1>3, EndConnectWhole
<1>4. ASSUME NEW b \in Bearers,
             modem' = ConnectWith(ConnectionStep(AddBearer(modem, b), c, "connect"), c, b)
      PROVE  Whole(modem')
  <2>1. PICK n : n = AddBearer(modem, b) OBVIOUS
  <2>2. /\ b \in Listed(n) /\ Whole(n) /\ But(n, c) /\ ConnectsBut(n, c) /\ Free(n, c)
        /\ n.connects[c].step = "bearer"
    BY <1>1, <1>2, <2>1, AddBearerFrame
  <2>3. PICK m : m = ConnectionStep(n, c, "connect") OBVIOUS
  <2>4. modem' = ConnectWith(m, c, b) BY <1>4, <2>1, <2>3
  <2>5. m = EndConnect(n, c) \/ m = SetStep(n, c, "connect") BY <2>3 DEF ConnectionStep
  <2>6. CASE m = EndConnect(n, c)
    <3>1. Whole(m) BY <2>2, <2>6, EndConnectWhole
    <3>2. n \in ModemType BY <2>2 DEF But
    <3>3. m.connects[c] = NoAttempt /\ Moved(n, m, c) BY <2>6, <3>2, EndConnectEffect
    <3>4. m.connects[c].step = "idle" BY <3>3 DEF NoAttempt
    <3>5. b \in Listed(m) BY <2>2, <3>3 DEF Moved, OnlyWaits, SameBearers, Listed
    <3> QED BY <2>4, <3>1, <3>4, <3>5, MayConnectWith
  <2>7. CASE m = SetStep(n, c, "connect")
    <3>1. /\ But(m, c) /\ ConnectsBut(m, c) /\ Free(m, c)
          /\ m.connects[c].step = "connect" /\ m.list = n.list
      BY <2>2, <2>7, SetStepFrame DEF Steps
    <3>2. b \in Listed(m) BY <2>2, <3>1 DEF Listed
    <3> QED BY <2>4, <3>1, <3>2, MayConnectWith
  <2> QED BY <2>5, <2>6, <2>7
<1> QED BY <1>3, <1>4 DEF BearerCreated, Goes

(* disconnect_auth_ready:                                                   *)
LEMMA SimpleDisconnectKeeps ==
  ASSUME Whole(modem), SimpleDisconnect
  PROVE  Whole(modem')
<1>1. PICK m : m = AbortOngoing(modem) OBVIOUS
<1>2. Whole(m) /\ m.lists = modem.lists BY <1>1, AbortOngoingOK
<1>3. m \in ModemType /\ Sound(m, {}) /\ OpOK(m) /\ ListsOK(m, {}) /\ LinkOK(m) /\ AllSleep(m)
  BY <1>2 DEF Whole, Fine, Sound
<1>4. modem' = DisconnectBearers(m, "user") /\ ~m.lists["user"].busy
  BY <1>1, <1>2 DEF SimpleDisconnect, Starts, Takes
<1>5. Fine(modem', {}, {}) /\ Asleep(m, modem') BY <1>3, <1>4, DisconnectBearersOK
<1> QED BY <1>3, <1>5 DEF Whole, AllSleep, Asleep

----------------------------------------------------------------------------
(* All is well with a modem just initialized,                               *)
LEMMA InitWhole ==
  ASSUME Init
  PROVE  Whole(modem)
<1>1. "disabled" \in ToSet(States) BY StateSet
<1>2. NoBearer \in BearerType BY DEF NoBearer, BearerType, Statuses
<1>3. /\ modem.state = "disabled" /\ modem.waiters = {} /\ modem.ahead = {} /\ modem.op = NoOp
      /\ modem.list = <<>> /\ modem.lists = [w \in {"op", "user"} |-> NoList]
      /\ modem.bearers = [b \in Bearers |-> NoBearer] /\ modem.reloads = 0
      /\ modem.ongoing = None /\ modem.connects = [c \in Connects |-> NoAttempt]
  BY DEF Init
<1>4. modem \in ModemType
  <2>1. modem.lists \in [{"op", "user"} -> ListType] BY <1>3, Nothing
  <2>2. modem.bearers \in [Bearers -> BearerType] BY <1>2, <1>3
  <2>3. modem.connects \in [Connects -> ConnectType] BY <1>3, Nothing
  <2>4. <<>> \in Seq(Bearers) OBVIOUS
  <2> QED BY <1>1, <1>3, <2>1, <2>2, <2>3, <2>4, Nothing DEF Init, ModemType
<1>5. /\ \A b \in Bearers : modem.bearers[b] = NoBearer
      /\ \A c \in Connects : modem.connects[c] = NoAttempt
      /\ \A w \in {"op", "user"} : modem.lists[w] = NoList
  BY <1>3
<1>6. BearersOK(modem) BY <1>5 DEF BearersOK, BearerOK, NoBearer
<1>7. ConnectsOK(modem)
  <2>1. \A c \in Connects : ConnectOK(modem, c)
    BY <1>3, <1>5, ModemStateAssumption DEF ConnectOK, NoAttempt, NoOp
  <2> QED BY <1>3, <2>1 DEF ConnectsOK, NoOp
<1>8. DialsOK(modem, {}) BY <1>5 DEF DialsOK, NoAttempt, NoBearer
<1>9. OpOK(modem) /\ LinkOK(modem) /\ ReloadOK(modem)
  BY <1>3, <1>5 DEF OpOK, Undertaken, NoOp, LinkOK, NoList, ReloadOK
<1>10. ListsOK(modem, {})
  <2>1. NoBearer.by = None /\ NoList.busy = FALSE /\ NoList.answer = "none" BY DEF NoBearer, NoList
  <2>2. None # "op" /\ None # "user" BY ModemStateAssumption
  <2> QED BY <1>5, <2>1, <2>2 DEF ListsOK, ListOK
<1>11. AllSleep(modem) BY <1>3 DEF AllSleep, ConnectsSleep, OpSleeps
<1> QED BY <1>4, <1>6, <1>7, <1>8, <1>9, <1>10, <1>11 DEF Whole, Fine, Sound

(* and stays well in every step,                                            *)
LEMMA NextWhole ==
  ASSUME Whole(modem), Next
  PROVE  Whole(modem')
<1>1. CASE Operate
  BY <1>1, EnableKeeps, DisableKeeps, OpSeenKeeps, InterfacesDoneKeeps, WaitExpiredKeeps,
     EnablingStartedKeeps, ModemEnabledKeeps, ListAnsweredKeeps DEF Operate
<1>2. CASE HandleBearer
  BY <1>2, CreateBearerKeeps, ConnectBearerKeeps, DisconnectBearerKeeps, DroppedKeeps, ForcedKeeps,
     ConnectReadyKeeps, HungUpKeeps DEF HandleBearer
<1>3. CASE Register
  BY <1>3, ReportKeeps, RegistrationReloadedKeeps DEF Register
<1>4. CASE Connect
  BY <1>4, SimpleConnectKeeps, ConnectSeenKeeps, ConnectEnablesKeeps, PausedKeeps, BearerCreatedKeeps,
     UnlockedKeeps, RegisteredKeeps, SimpleDisconnectKeeps DEF Connect
<1> QED BY <1>1, <1>2, <1>3, <1>4 DEF Next

(* within the bound on inputs.                                              *)
LEMMA NextInputs ==
  ASSUME inputs \in 0 .. MaxInputs, Next
  PROVE  inputs' \in 0 .. MaxInputs /\ strayed' \in BOOLEAN
<1>1. MaxInputs \in Nat BY ModemStateAssumption
<1>2. /\ inputs' = inputs \/ (inputs < MaxInputs /\ inputs' = inputs + 1)
      /\ strayed' \in BOOLEAN
  BY DEF Next, Operate, HandleBearer, Register, Connect, Enable, Disable, OpSeen, InterfacesDone,
         WaitExpired, EnablingStarted, ModemEnabled, ListAnswered, CreateBearer, ConnectBearer,
         DisconnectBearer, Dropped, Forced, ConnectReady, HungUp, Report, RegistrationReloaded,
         SimpleConnect, ConnectSeen, ConnectEnables, Paused, BearerCreated, Unlocked, Registered,
         SimpleDisconnect, Starts, Takes, Goes
<1> QED BY <1>1, <1>2

(* The inductive invariant holds for any set of bearers and of Simple.Connect*)
(* calls and any number of inputs.                                          *)
THEOREM Invariance == Spec => []IInv
<1>1. Init => IInv
  <2>1. Init => Fine(modem, {}, {}) /\ AllSleep(modem) BY InitWhole DEF Whole
  <2>2. Init => inputs = 0 /\ strayed = FALSE BY DEF Init
  <2>3. 0 \in 0 .. MaxInputs BY ModemStateAssumption
  <2> QED BY <2>1, <2>2, <2>3 DEF IInv
<1>2. IInv /\ [Next]_vars => IInv'
  <2> SUFFICES ASSUME IInv, [Next]_vars PROVE IInv'
    OBVIOUS
  <2>1. Whole(modem) /\ inputs \in 0 .. MaxInputs /\ strayed \in BOOLEAN BY DEF IInv, Whole
  <2>2. CASE Next
    <3>1. Whole(modem') /\ inputs' \in 0 .. MaxInputs /\ strayed' \in BOOLEAN
      BY <2>1, <2>2, NextWhole, NextInputs
    <3> QED BY <3>1 DEF IInv, Whole, Fine, Sound, BearersOK, ConnectsOK, DialsOK, ReloadOK, OpOK,
                        ListsOK, LinkOK, AllSleep, ConnectsSleep, OpSleeps, Undertaken, ConnectOK
  <2>3. CASE UNCHANGED vars
    BY <2>1, <2>3 DEF vars, IInv, Whole
  <2> QED BY <2>2, <2>3
<1> QED BY <1>1, <1>2, PTL DEF Spec

(* The records keep their types, and the registration is reloaded once at a *)
(* time (update_registration_state, reloading_registration_info).           *)
THEOREM SpecTypeOK == Spec => []TypeOK
<1>1. IInv => TypeOK BY DEF IInv, Fine, Sound, ReloadOK, TypeOK
<1> QED BY <1>1, Invariance, PTL

(* Nobody sleeps through the state it waits for                             *)
(* (wait_for_final_state, state_changed), however many wait.                *)
THEOREM SpecNoLostWakeup == Spec => []NoLostWakeup
<1>1. IInv => NoLostWakeup
  <2> SUFFICES ASSUME IInv, NEW w \in modem.waiters
               PROVE  IF w \in Connects /\ modem.connects[w].step = "initialized" THEN modem.state # "disabled"
                      ELSE modem.state \in Intermediate \union {"unknown"}
    BY DEF NoLostWakeup
  <2>1. modem \in ModemType BY DEF IInv, Fine, Sound
  <2>2. ~Wanted(modem, w)
    <3>1. w = "op" \/ w \in Connects BY <2>1 DEF ModemType, Waiters
    <3> QED BY <3>1 DEF IInv, AllSleep, ConnectsSleep, OpSleeps
  <2> QED BY <2>2 DEF Wanted, Intermediate
<1> QED BY <1>1, Invariance, PTL

(* Whoever waits has somebody who will answer (disconnect_bearers_next,     *)
(* mm_base_bearer_disconnect, state_operation_ready).                       *)
THEOREM SpecNobodyIsOrphaned == Spec => []NobodyIsOrphaned
<1>1. ASSUME IInv PROVE NobodyIsOrphaned
  <2>1. /\ modem \in ModemType /\ BearersOK(modem) /\ ConnectsOK(modem) /\ DialsOK(modem, {})
        /\ OpOK(modem) /\ ListsOK(modem, {}) /\ LinkOK(modem)
    BY <1>1 DEF IInv, Fine, Sound
  <2>2. modem.op.step = "waiting" => modem.op.seen # None \/ "op" \in modem.waiters BY <2>1 DEF OpOK
  <2>3. modem.op.step = "bearers" => modem.lists["op"].busy BY <2>1 DEF LinkOK
  <2>4. ASSUME NEW b \in Bearers, modem.bearers[b].status \in {"connecting", "disconnecting"}
        PROVE  modem.bearers[b].dialing \/ modem.bearers[b].hanging # "no"
    BY <2>1, <2>4 DEF BearersOK, BearerOK
  <2>5. ASSUME NEW w \in {"op", "user"}, modem.lists[w].busy
        PROVE  \/ modem.lists[w].answer # "none"
               \/ \E b \in Bearers : /\ modem.bearers[b].by = w
                                     /\ modem.bearers[b].dialing \/ modem.bearers[b].hanging # "no"
    <3>1. CASE modem.lists[w].answer # "none" BY <3>1
    <3>2. CASE \E b \in Bearers : modem.bearers[b].by = w
      <4>1. PICK b \in Bearers : modem.bearers[b].by = w BY <3>2
      <4>2. w # None BY ModemStateAssumption
      <4>3. modem.bearers[b].status = "disconnecting" BY <2>1, <4>1, <4>2 DEF BearersOK, BearerOK
      <4> QED BY <2>4, <4>1, <4>3
    <3> QED BY <2>1, <2>5, <3>1, <3>2 DEF ListsOK, ListOK
  <2>6. ASSUME NEW c \in Connects
        PROVE  /\ modem.connects[c].step \in {"initialized", "enabled"} =>
                    modem.connects[c].seen # None \/ c \in modem.waiters
               /\ modem.connects[c].step = "enabling" => modem.op.by = c
               /\ modem.connects[c].step = "connect" => modem.bearers[modem.connects[c].bearer].connect = c
    BY <2>1 DEF ConnectsOK, ConnectOK, DialsOK
  <2> QED BY <2>2, <2>3, <2>4, <2>5, <2>6 DEF NobodyIsOrphaned
<1> QED BY <1>1, Invariance, PTL

----------------------------------------------------------------------------
(* A modem that is disabled is disconnected, until a request strays.          *)

(* AbortReaches, of any record.                                             *)
Reached(m) == \A c \in Connects : m.connects[c].cancellable /\ ~m.connects[c].cancelled => m.ongoing = c

(* Connect c may come to connect a bearer without waiting for the state.      *)
Dialing(r) ==
  /\ ~r.cancelled
  /\ \/ r.step \in {"pausing", "registering", "bearer"}
     \/ r.step = "enabled" /\ r.seen \in Up

MayDial(m, c) == Dialing(m.connects[c])

Idle(m)     == \A b \in Bearers : m.bearers[b].status = "disconnected"
Stopping(m) == m.op.kind = "disable" /\ m.op.step = "waiting"

(* The state against the bearers, the attempts and the registration:          *)
Rest(m) ==
  /\ \A c \in Connects : MayDial(m, c) => m.state \in Up \union {"unknown"}
  /\ m.state \in {"disabled", "enabling"} => Idle(m)
  /\ m.enabled => m.state # "disabled"

(* a connected bearer shows,                                                *)
Shown(m) == m.restored \/ Connected(m) = {} \/ m.state \in {"connected", "disabling"}

(* a bearer that is not down will be disconnected by the sequence, those in B *)
(* apart,                                                                   *)
Leaving(m, B) ==
  m.op.step = "bearers" /\ m.lists["op"].answer # "error" =>
    \A b \in Bearers \ B : \/ m.bearers[b].status = "disconnected"
                           \/ b \in ToSet(m.lists["op"].pending)
                           \/ m.bearers[b].by = "op"

(* and what the sequence was told or has aborted still is.                  *)
Halting(m) ==
  Stopping(m) =>
    \A c \in Connects :
      /\ ~MayDial(m, c)
      /\ m.connects[c].cancellable /\ (m.op.seen # None \/ c \in m.ahead) => m.connects[c].cancelled

Emptied(m)  == m.op.kind = "disable" /\ m.op.step = "threegpp" => Idle(m)
Seeing(m)   == m.op.seen # None => (m.op.seen = "disabled" <=> m.state = "disabled")
Starting(m) == m.enabled => m.op.step \notin {"starting", "modem"}

Course(m, B) == Halting(m) /\ Emptied(m) /\ Seeing(m) /\ Starting(m) /\ Leaving(m, B)

Down(m) == Rest(m) /\ Shown(m) /\ Course(m, {})

(* No attempt but those in U may connect a bearer that might not before.      *)
Follows(m, y, U) ==
  /\ y.ahead \subseteq m.ahead
  /\ \A c \in Connects :
       /\ y.connects[c].cancellable =>
            m.connects[c].cancellable /\ y.connects[c].cancelled = m.connects[c].cancelled
       /\ MayDial(y, c) => MayDial(m, c) \/ c \in U

(* Two in a row.                                                            *)
LEMMA FollowsOn ==
  ASSUME NEW m, NEW n, NEW y, NEW U, NEW V, Follows(m, n, U), Follows(n, y, V)
  PROVE  Follows(m, y, U \union V)
BY DEF Follows

(* Nothing happens to the attempts.                                         *)
LEMMA FollowsSame ==
  ASSUME NEW m, NEW y, y.connects = m.connects, y.ahead \subseteq m.ahead
  PROVE  Follows(m, y, {})
BY DEF Follows, MayDial

(* An idle attempt connects nothing.                                        *)
LEMMA IdleAttempt == ~NoAttempt.cancellable /\ ~Dialing(NoAttempt) /\ NoAttempt.seen = None
BY DEF NoAttempt, Dialing

(* connection_context_free starts nothing;                                  *)
LEMMA EndConnectFollows ==
  ASSUME NEW m \in ModemType, NEW c \in Connects, NEW y, y = EndConnect(m, c)
  PROVE  Follows(m, y, {})
<1>1. Moved(m, y, c) /\ y.connects[c] = NoAttempt BY EndConnectEffect
<1>2. \A d \in Connects \ {c} : y.connects[d] = m.connects[d] BY <1>1 DEF Moved
<1>3. y.ahead \subseteq m.ahead BY <1>1 DEF Moved
<1> QED BY <1>1, <1>2, <1>3, IdleAttempt DEF Follows, MayDial

(* The attempt c takes this step to its end only if it was not cancelled.    *)
Dialers(m, c, step) ==
  IF /\ ~m.connects[c].cancelled
     /\ step \in {"pausing", "registering", "bearer"} \/ (step = "enabled" /\ m.state \in Up \ Intermediate)
    THEN {c} ELSE {}

(* nor does connection_step, beyond its step.                               *)
LEMMA ConnectionStepFollows ==
  ASSUME NEW m \in ModemType, NEW c \in Connects, m.connects[c].seen = None,
         NEW step \in {"unlock", "initialized", "enable", "enabled", "pausing", "registering", "bearer"},
         NEW y, y = ConnectionStep(m, c, step)
  PROVE  Follows(m, y, Dialers(m, c, step))
<1>1. CASE m.connects[c].cancellable /\ m.connects[c].cancelled
  <2>1. y = EndConnect(m, c) BY <1>1 DEF ConnectionStep
  <2>2. Follows(m, y, {}) BY <2>1, EndConnectFollows
  <2> QED BY <2>2 DEF Follows
<1>2. CASE ~(m.connects[c].cancellable /\ m.connects[c].cancelled)
  <2>1. m.state \in ToSet(States) /\ m.state # None /\ None \notin Up /\ step \in Steps \ {"connect", "enabling"}
    BY StateSet, ModemStateAssumption DEF ModemType, Up, Steps
  <2>2. \E seen \in {None, m.state} : /\ seen # None => m.state \notin Intermediate
                                     /\ \E k : Stepped(m, y, c, step, seen, k)
    <3>1. CASE y = SetStep(m, c, step)
      <4>1. y = WithWaits(m, m.waiters, m.ahead, m.ongoing, PutConnect(m, c, AtStep(m, c, step, None)))
        BY <2>1, <3>1, SetStepIs
      <4> QED BY <2>1, <4>1, StepEffect
    <3>2. ASSUME NEW s, y = WaitFor(m, c, step, s)
          PROVE  \E seen \in {None, m.state} : /\ seen # None => m.state \notin Intermediate
                                              /\ \E k : Stepped(m, y, c, step, seen, k)
      <4>1. CASE m.state \notin Intermediate /\ s \in {None, m.state}
        <5>1. y = WithWaits(m, m.waiters, m.ahead, m.ongoing, PutConnect(m, c, AtStep(m, c, step, m.state)))
          BY <3>2, <4>1 DEF WaitFor, WithWaits, PutConnect, AtStep, ModemType
        <5>2. Stepped(m, y, c, step, m.state, m.waiters) BY <2>1, <5>1, StepEffect
        <5> QED BY <4>1, <5>2
      <4>2. CASE ~(m.state \notin Intermediate /\ s \in {None, m.state})
        <5>1. PICK n : n = SetStep(m, c, step) OBVIOUS
        <5>2. PICK f : f = PutConnect(m, c, AtStep(m, c, step, None)) OBVIOUS
        <5>3. n = WithWaits(m, m.waiters, m.ahead, m.ongoing, f) BY <2>1, <5>1, <5>2, SetStepIs
        <5>4. y = [n EXCEPT !.waiters = n.waiters \union {c}] BY <3>2, <4>2, <5>1 DEF WaitFor
        <5>5. y = WithWaits(m, m.waiters \union {c}, m.ahead, m.ongoing, f)
          BY <5>3, <5>4 DEF WithWaits, ModemType
        <5> QED BY <2>1, <5>2, <5>5, StepEffect
      <4> QED BY <4>1, <4>2
    <3> QED BY <1>2, <3>1, <3>2 DEF ConnectionStep
  <2>3. PICK seen \in {None, m.state} : /\ seen # None => m.state \notin Intermediate
                                       /\ \E k : Stepped(m, y, c, step, seen, k)
    BY <2>2
  <2>4. /\ y.ahead = m.ahead /\ y.ongoing = m.ongoing
        /\ \A d \in Connects \ {c} : y.connects[d] = m.connects[d]
        /\ y.connects[c].step = step /\ y.connects[c].seen = seen
        /\ y.connects[c].cancellable = m.connects[c].cancellable
        /\ y.connects[c].cancelled = m.connects[c].cancelled
        /\ seen # None => m.state \notin Intermediate
    BY <2>3 DEF Stepped, Moved
  <2>5. MayDial(y, c) => c \in Dialers(m, c, step)
    BY <2>1, <2>4 DEF MayDial, Dialing, Dialers
  <2>6. \A d \in Connects :
          /\ y.connects[d].cancellable => m.connects[d].cancellable /\ y.connects[d].cancelled = m.connects[d].cancelled
          /\ MayDial(y, d) => MayDial(m, d) \/ d \in Dialers(m, c, step)
    BY <2>4, <2>5 DEF MayDial
  <2> QED BY <2>4, <2>6 DEF Follows
<1> QED BY <1>1, <1>2

(* The wait of connect c is over: it may go on if it waited for an enabled    *)
(* modem and that is what it is told.                                       *)
Risers(m, c, s) ==
  IF m.connects[c].step = "enabled" /\ s \in Up /\ ~m.connects[c].cancelled THEN {c} ELSE {}

(* It then follows from what it was.                                         *)
LEMMA ConnectToldFollows ==
  ASSUME NEW m \in ModemType, NEW c \in Connects, ConnectOK(m, c),
         m.connects[c].step \in {"initialized", "enabled"},
         NEW s \in ToSet(States), NEW y, y = ConnectTold(m, c, s)
  PROVE  Follows(m, y, Risers(m, c, s))
<1>1. PICK n : n = [StopWaiting(m, c) EXCEPT !.connects[c] = [@ EXCEPT !.seen = None]]
  OBVIOUS
<1>2. c # "op" /\ None \notin Up BY StateSet, ModemStateAssumption DEF Up
<1>3. PICK r : r = AtStep(m, c, m.connects[c].step, None) OBVIOUS
<1>4. r = [m.connects[c] EXCEPT !.seen = None] BY <1>3 DEF AtStep, ModemType, ConnectType
<1>5. PICK f : f = PutConnect(m, c, r) OBVIOUS
<1>6. n = WithWaits(m, m.waiters \ {c}, m.ahead \ {c}, m.ongoing, f)
  BY <1>1, <1>2, <1>4, <1>5 DEF StopWaiting, WithWaits, PutConnect, ModemType
<1>7. /\ r \in ConnectType /\ r.step = m.connects[c].step /\ r.seen = None
      /\ r.cancellable = m.connects[c].cancellable /\ r.cancelled = m.connects[c].cancelled
  BY <1>3, AtStepType DEF Steps
<1>8. f \in [Connects -> ConnectType] /\ f[c] = r /\ \A d \in Connects \ {c} : f[d] = m.connects[d]
  BY <1>5, <1>7 DEF PutConnect, ModemType
<1>9. /\ m.waiters \ {c} \in SUBSET Waiters /\ m.ahead \ {c} \in SUBSET Connects
      /\ m.ongoing \in Connects \union {None}
  BY DEF ModemType
<1>10. n \in ModemType BY ONLY <1>6, <1>8, <1>9, PutWaits, m \in ModemType
<1>11. n.ahead = m.ahead \ {c} /\ n.ongoing = m.ongoing /\ n.connects = f
  BY ONLY <1>6, <1>8, <1>9, PutWaits, m \in ModemType
<1>12. ~MayDial(n, c) BY <1>2, <1>7, <1>8, <1>11 DEF MayDial, Dialing
<1>13. \A d \in Connects :
         /\ n.connects[d].cancellable => m.connects[d].cancellable /\ n.connects[d].cancelled = m.connects[d].cancelled
         /\ MayDial(n, d) => MayDial(m, d)
  BY <1>7, <1>8, <1>11, <1>12 DEF MayDial
<1>15. Follows(m, n, {}) BY <1>11, <1>13 DEF Follows
<1>16. n.connects[c].seen = None BY <1>7, <1>8, <1>11
<1>17. CASE y = EndConnect(n, c)
  <2>1. Follows(n, y, {}) BY <1>10, <1>17, EndConnectFollows
  <2>2. Follows(m, y, {} \union {}) BY <1>15, <2>1, FollowsOn
  <2> QED BY <2>2 DEF Follows
<1>18. CASE y = ConnectionStep(n, c, "enable")
  <2>1. Follows(n, y, Dialers(n, c, "enable")) BY <1>10, <1>16, <1>18, ConnectionStepFollows
  <2>2. Dialers(n, c, "enable") = {} BY DEF Dialers
  <2>3. Follows(m, y, {} \union {}) BY <1>15, <2>1, <2>2, FollowsOn
  <2> QED BY <2>3 DEF Follows
<1>19. CASE y = ConnectionStep(n, c, "pausing") /\ m.connects[c].step = "enabled" /\ ~(Level(s) < Level("enabled"))
  <2>1. Follows(n, y, Dialers(n, c, "pausing")) BY <1>10, <1>16, <1>19, ConnectionStepFollows
  <2>2. s \in Up BY <1>19, LevelsUp
  <2>3. Dialers(n, c, "pausing") \subseteq Risers(m, c, s)
    BY <1>7, <1>8, <1>11, <1>19, <2>2 DEF Dialers, Risers
  <2>4. Follows(m, y, {} \union Dialers(n, c, "pausing")) BY <1>15, <2>1, FollowsOn
  <2> QED BY <2>3, <2>4 DEF Follows
<1> QED BY <1>1, <1>17, <1>18, <1>19 DEF ConnectTold

(* Of those that are told only these may go on to connect a bearer.           *)
Rising(m, C) ==
  {c \in C \intersect m.waiters :
     Wanted(m, c) /\ m.connects[c].step = "enabled" /\ m.state \in Up /\ ~m.connects[c].cancelled}

(* TellConnects lets go on nobody but them.                                  *)
LEMMA TellConnectsFollows ==
  ASSUME NEW m \in ModemType, ConnectsOK(m), NEW C \in SUBSET Connects, NEW y, y = TellConnects(m, C)
  PROVE  Follows(m, y, Rising(m, C))
<1>1. PICK told : told = {c \in C \intersect m.waiters : Wanted(m, c)} OBVIOUS
<1>2. PICK After : After = [c \in Connects |-> ConnectTold(m, c, m.state)] OBVIOUS
<1>3. \A c \in told : c \in Connects /\ c \in m.waiters BY <1>1
<1>4. ASSUME NEW c \in told PROVE Follows(m, After[c], Risers(m, c, m.state))
  <2>1. c \in Connects /\ ConnectOK(m, c) BY <1>3 DEF ConnectsOK
  <2>2. m.connects[c].step \in {"initialized", "enabled"} BY <1>3, <2>1 DEF ConnectOK
  <2>3. m.state \in ToSet(States) BY DEF ModemType
  <2>4. After[c] = ConnectTold(m, c, m.state) BY <1>2, <2>1
  <2> QED BY <2>1, <2>2, <2>3, <2>4, ConnectToldFollows
<1>5. PICK f : f = [c \in Connects |-> IF c \in told THEN After[c].connects[c] ELSE m.connects[c]] OBVIOUS
<1>6. PICK o : o = IF \E c \in told : After[c].ongoing = None THEN None ELSE m.ongoing OBVIOUS
<1>7. y.ahead = m.ahead \ told /\ y.ongoing = o /\ y.connects = f
  <2>1. \A c \in told : After[c] = ConnectTold(m, c, m.state) BY <1>2, <1>3
  <2>2. PICK g : g = [c \in Connects |-> IF c \in told THEN ConnectTold(m, c, m.state).connects[c] ELSE m.connects[c]]
    OBVIOUS
  <2>3. f = g BY <1>5, <2>1, <2>2
  <2>4. o = IF \E c \in told : ConnectTold(m, c, m.state).ongoing = None THEN None ELSE m.ongoing
    BY <1>6, <2>1
  <2>5. y = [m EXCEPT !.connects = g, !.ongoing = o, !.waiters = @ \ told, !.ahead = @ \ told]
    BY <1>1, <2>2, <2>4, Zenon DEF TellConnects
  <2> QED BY <2>3, <2>5 DEF ModemType
<1>8. \A c \in told : y.connects[c] = After[c].connects[c] BY <1>3, <1>5, <1>7
<1>9. \A c \in Connects \ told : y.connects[c] = m.connects[c] BY <1>5, <1>7
<1>10. \A c \in told : Risers(m, c, m.state) \subseteq Rising(m, C) BY <1>1 DEF Risers, Rising
<1>11. ASSUME NEW c \in Connects
       PROVE  /\ y.connects[c].cancellable =>
                   m.connects[c].cancellable /\ y.connects[c].cancelled = m.connects[c].cancelled
              /\ MayDial(y, c) => MayDial(m, c) \/ c \in Rising(m, C)
  <2>1. CASE c \in told
    <3>1. Follows(m, After[c], Risers(m, c, m.state)) BY <1>4, <2>1
    <3> QED BY <1>8, <1>10, <2>1, <3>1 DEF Follows, MayDial
  <2>2. CASE c \notin told BY <1>9, <2>2 DEF MayDial
  <2> QED BY <2>1, <2>2
<1> QED BY <1>7, <1>11 DEF Follows

(* None of them before the abort of the sequence that waits.                 *)
LEMMA NobodyRises ==
  ASSUME NEW m \in ModemType, ConnectsOK(m), Stopping(m), Halting(m),
         NEW C \in SUBSET Connects, m.op.seen # None \/ C \subseteq m.ahead
  PROVE  Rising(m, C) = {}
BY ModemStateAssumption DEF Rising, Halting, ConnectsOK, ConnectOK

(* Nobody is told of a state that is not final.                             *)
LEMMA RisingUp ==
  ASSUME NEW m, NEW C, Rising(m, C) # {}
  PROVE  m.state \in Up /\ m.state \notin Intermediate
BY DEF Rising, Wanted

(* The attempts alone do not disturb the rest,                               *)
LEMMA FollowsRest ==
  ASSUME NEW m, NEW y, NEW U, Follows(m, y, U), U # {} => m.state \in Up,
         y.state = m.state, y.bearers = m.bearers, y.enabled = m.enabled, Rest(m)
  PROVE  Rest(y)
BY DEF Rest, Follows, Idle

(* nor the sequence,                                                        *)
LEMMA FollowsCourse ==
  ASSUME NEW m, NEW y, NEW U, Follows(m, y, U), Stopping(m) => U = {},
         y.state = m.state, y.bearers = m.bearers, y.enabled = m.enabled, y.op = m.op, y.lists = m.lists,
         NEW B, Course(m, B)
  PROVE  Course(y, B)
<1>1. Halting(y) BY DEF Course, Halting, Stopping, Follows
<1>2. Emptied(y) /\ Seeing(y) /\ Starting(y) /\ Leaving(y, B)
  BY DEF Course, Emptied, Seeing, Starting, Leaving, Idle
<1> QED BY <1>1, <1>2 DEF Course

(* nor what shows.                                                          *)
LEMMA ShownSame ==
  ASSUME NEW m, NEW y, y.state = m.state, y.restored = m.restored, y.bearers = m.bearers, y.list = m.list
  PROVE  Shown(m) <=> Shown(y)
BY DEF Shown, Connected, Listed

(* Some of the connects that waited go on, as long as no sequence waits.     *)
LEMMA TellConnectsDown ==
  ASSUME NEW m \in ModemType, ConnectsOK(m), NEW C \in SUBSET Connects, NEW y, y = TellConnects(m, C)
  PROVE  /\ Rest(m) => Rest(y)
         /\ Shown(m) <=> Shown(y)
         /\ \A B : /\ Course(m, B)
                   /\ Stopping(m) => Rising(m, C) = {}
                   => Course(y, B)
<1>1. Woken(m, y) BY TellConnectsWakes
<1>2. /\ y.state = m.state /\ y.restored = m.restored /\ y.bearers = m.bearers /\ y.list = m.list
      /\ y.enabled = m.enabled /\ y.op = m.op /\ y.lists = m.lists
  BY <1>1 DEF Woken, OnlyWaits, SameState, SameBearers, SameNetwork, SameOp, SameLists
<1>3. Follows(m, y, Rising(m, C)) BY TellConnectsFollows
<1>4. Rest(m) => Rest(y) BY <1>2, <1>3, RisingUp, FollowsRest
<1>5. ASSUME NEW B, Course(m, B), Stopping(m) => Rising(m, C) = {} PROVE Course(y, B)
  BY <1>2, <1>3, <1>5, FollowsCourse
<1>6. Shown(m) <=> Shown(y) BY <1>2, ShownSame
<1> QED BY <1>4, <1>5, <1>6

(* So with all of them, after a change of the state.                        *)
LEMMA TellOthersDown ==
  ASSUME NEW m \in ModemType, ConnectsOK(m), Rest(m), NEW s, NEW y, y = TellOthers(s, m)
  PROVE  Rest(y) /\ (Shown(m) <=> Shown(y))
<1>1. CASE y = m BY <1>1
<1>2. CASE y = TellConnects(m, Connects) BY <1>2, TellConnectsDown
<1> QED BY <1>1, <1>2 DEF TellOthers

NobodyDials(m) == \A c \in Connects : ~MayDial(m, c)

(* update_state_internal, for a state that fits;                            *)
LEMMA SetStateRest ==
  ASSUME NEW m \in ModemType, NEW s \in ToSet(States), Rest(m),
         s \in {"disabled", "enabling"} => Idle(m), s = "disabled" => ~m.enabled,
         s \in {"disabled", "enabling", "disabling"} => NobodyDials(m),
         NEW y, y = SetState(m, s)
  PROVE  Rest(y)
<1>1. /\ OnlyState(m, y) /\ (s \notin Plain => y.state = s)
      /\ s \in Plain =>
              \/ y.state \in Plain
              \/ /\ y.state = m.state /\ m.state \in {"disconnecting", "connecting", "connected"}
                 /\ Connected(m) # {}
  BY SetStateEffect
<1>2. s \in Plain => y.state \in Up BY <1>1 DEF Plain, Up
<1>3. /\ y.connects = m.connects /\ y.ongoing = m.ongoing /\ y.bearers = m.bearers /\ y.enabled = m.enabled
  BY <1>1 DEF OnlyState, SameWaits, SameBearers, SameNetwork
<1>4. s \in Up \union {"unknown", "disabled", "enabling", "disabling"} BY StateSet DEF Up
<1>5. ASSUME NEW c \in Connects, MayDial(y, c) PROVE y.state \in Up \union {"unknown"}
  BY <1>1, <1>2, <1>3, <1>4, <1>5 DEF MayDial, NobodyDials
<1>6. y.state \in {"disabled", "enabling"} => Idle(y) BY <1>1, <1>2, <1>3 DEF Idle, Up
<1>7. y.enabled => y.state # "disabled" BY <1>1, <1>2, <1>3 DEF Up
<1> QED BY <1>5, <1>6, <1>7 DEF Rest

(* what shows then.                                                         *)
LEMMA SetStateShown ==
  ASSUME NEW m \in ModemType, NEW s \in ToSet(States),
         \/ s \in {"connected", "disabling"}
         \/ Connected(m) = {}
         \/ s \in Plain /\ Shown(m) /\ m.state # "disabling",
         NEW y, y = SetState(m, s)
  PROVE  Shown(y)
<1>1. /\ OnlyState(m, y) /\ (s \notin Plain => y.state = s)
      /\ y.restored = (m.restored /\ s # "disabled")
      /\ s \in Plain /\ m.state = "connected" /\ Connected(m) # {} => y.state = "connected"
  BY SetStateEffect
<1>2. Connected(y) = Connected(m) BY <1>1 DEF OnlyState, SameBearers, Connected, Listed
<1> QED BY <1>1, <1>2 DEF Shown, Plain

(* Nothing shows of an idle modem.                                          *)
LEMMA IdleShows ==
  ASSUME NEW m \in ModemType, Idle(m)
  PROVE  Connected(m) = {}
<1>1. Listed(m) \subseteq Bearers BY DEF Listed, ToSet, ModemType
<1> QED BY <1>1 DEF Idle, Connected

(* state_operation_ready: the sequence is over.                             *)
LEMMA OpDoneDown ==
  ASSUME NEW m \in ModemType, ConnectsOK(m), Rest(m), NEW ok, NEW y, y = OpDone(m, ok)
  PROVE  Rest(y) /\ (Shown(m) <=> Shown(y)) /\ \A B : Course(y, B)
<1>1. OpOver(m, y) /\ SameState(m, y) BY OpDoneOK
<1>2. PICK n : n = [StopWaiting(m, "op") EXCEPT !.op = NoOp] OBVIOUS
<1>3. PICK p : p = WithWaits(m, m.waiters \ {"op"}, {}, m.ongoing, m.connects) OBVIOUS
<1>4. StopWaiting(m, "op") = p BY <1>3 DEF StopWaiting, WithWaits, ModemType
<1>5. n = WithOp(p, NoOp) BY <1>2, <1>4 DEF WithOp
<1>6. /\ m.waiters \ {"op"} \in SUBSET Waiters /\ {} \in SUBSET Connects
      /\ m.ongoing \in Connects \union {None} /\ m.connects \in [Connects -> ConnectType]
  BY DEF ModemType
<1>7. p \in ModemType BY ONLY <1>3, <1>6, PutWaits, m \in ModemType
<1>8. p.ahead = {} /\ p.ongoing = m.ongoing /\ p.connects = m.connects
  BY ONLY <1>3, <1>6, PutWaits, m \in ModemType
<1>9. OnlyWaits(m, p) BY ONLY <1>3, <1>6, PutWaits, m \in ModemType
<1>10. n \in ModemType /\ OnlyOp(p, n) BY <1>5, <1>7, Nothing, PutOp
<1>11. /\ n.ahead = {} /\ n.ongoing = m.ongoing /\ n.connects = m.connects /\ n.state = m.state
  BY <1>8, <1>9, <1>10 DEF OnlyOp, OnlyWaits, SameWaits, SameState
<1>12. Follows(m, n, {}) BY <1>11, FollowsSame
<1>13. \E U : Follows(n, y, U) /\ (U # {} => m.state \in Up)
  <2>1. CASE m.op.by = None
    <3>1. y = n BY <1>2, <2>1 DEF OpDone
    <3>2. Follows(n, y, {}) BY <3>1, FollowsSame
    <3> QED BY <3>2
  <2>2. CASE m.op.by # None
    <3>1. PICK c \in Connects : c = m.op.by BY <2>2 DEF ModemType, OpType
    <3>2. n.connects[c].seen = None
      BY <1>11, <3>1, ModemStateAssumption DEF ConnectsOK, ConnectOK
    <3>3. CASE y = ConnectionStep(n, c, "enabled")
      <4>1. Follows(n, y, Dialers(n, c, "enabled")) BY <1>10, <3>2, <3>3, ConnectionStepFollows
      <4>2. Dialers(n, c, "enabled") # {} => m.state \in Up BY <1>11 DEF Dialers
      <4> QED BY <4>1, <4>2
    <3>4. CASE y = EndConnect(n, c)
      <4>1. Follows(n, y, {}) BY <1>10, <3>4, EndConnectFollows
      <4> QED BY <4>1
    <3> QED BY <1>2, <2>2, <3>1, <3>3, <3>4 DEF OpDone
  <2> QED BY <2>1, <2>2
<1>14. PICK U : Follows(n, y, U) /\ (U # {} => m.state \in Up) BY <1>13
<1>15. Follows(m, y, {} \union U) /\ {} \union U = U BY <1>12, <1>14, FollowsOn
<1>16. /\ y.state = m.state /\ y.restored = m.restored /\ y.bearers = m.bearers /\ y.list = m.list
       /\ y.enabled = m.enabled /\ y.op = NoOp
  BY <1>1 DEF OpOver, SameState, SameBearers, SameNetwork
<1>17. Rest(y) BY <1>14, <1>15, <1>16, FollowsRest
<1>18. Shown(m) <=> Shown(y) BY <1>16, ShownSame
<1>19. NoOp.kind = "none" /\ NoOp.step = "none" /\ NoOp.seen = None BY DEF NoOp
<1>20. \A B : Course(y, B)
  BY <1>16, <1>19 DEF Course, Halting, Stopping, Emptied, Seeing, Starting, Leaving
<1> QED BY <1>17, <1>18, <1>20

(* It failed: its state is put back.                                        *)
LEMMA OpFailedDown ==
  ASSUME NEW m \in ModemType, ConnectsOK(m), m.op.previous \notin Quiet,
         m.op.previous # (IF m.op.kind = "disable" THEN "disabled" ELSE "enabled"),
         Rest(m), m.op.previous = "disabled" => Idle(m) /\ ~m.enabled /\ NobodyDials(m),
         NEW y, y = OpFailed(m)
  PROVE  Rest(y) /\ Shown(y) /\ \A B : Course(y, B)
<1>1. m.op.previous \in ToSet(States) \ Quiet BY DEF ModemType, OpType
<1>2. PICK q : q = SetState(m, m.op.previous) OBVIOUS
<1>3. Rest(q) BY <1>1, <1>2, SetStateRest DEF Quiet
<1>4. q \in ModemType /\ OnlyState(m, q) BY <1>1, <1>2, SetStateEffect
<1>5. ConnectsOK(q) BY <1>4 DEF OnlyState, SameWaits, SameOp, ConnectsOK, ConnectOK
<1>6. PICK p : p = TellOthers(m.state, q) OBVIOUS
<1>7. Rest(p) BY <1>3, <1>4, <1>5, <1>6, TellOthersDown
<1>8. p \in ModemType /\ ConnectsOK(p) BY <1>4, <1>5, <1>6, TellOthersWakes DEF Woken
<1>9. PICK n : n = [p EXCEPT !.restored = TRUE] OBVIOUS
<1>10. n = WithState(p, p.state, TRUE) BY <1>8, <1>9 DEF WithState, ModemType
<1>11. n \in ModemType /\ n.state = p.state /\ n.restored = TRUE /\ OnlyState(p, n)
  <2>1. PICK s \in ToSet(States), r \in BOOLEAN : s = p.state /\ r = TRUE BY <1>8 DEF ModemType
  <2>2. n = WithState(p, s, r) BY <1>10, <2>1
  <2>3. /\ n \in ModemType /\ n.state = s /\ n.restored = r
        /\ OnlyState(p, n)
    BY <1>8, <2>2, PutState
  <2> QED BY <2>1, <2>3
<1>12. /\ n.connects = p.connects /\ n.ongoing = p.ongoing /\ n.ahead = p.ahead /\ n.waiters = p.waiters
       /\ n.op = p.op /\ n.bearers = p.bearers /\ n.enabled = p.enabled
  BY <1>11 DEF OnlyState, SameWaits, SameOp, SameBearers, SameNetwork
<1>13. ConnectsOK(n) BY <1>8, <1>12 DEF ConnectsOK, ConnectOK
<1>14. Follows(p, n, {}) BY <1>12, FollowsSame
<1>15. Rest(n) BY <1>7, <1>11, <1>12, <1>14, FollowsRest
<1>16. Shown(n) BY <1>11 DEF Shown
<1>17. y = OpDone(n, FALSE) BY <1>2, <1>6, <1>9 DEF OpFailed
<1> QED BY <1>11, <1>13, <1>15, <1>16, <1>17, OpDoneDown

(* It succeeded: the modem is enabled, or disabled.                         *)
LEMMA OpSucceededDown ==
  ASSUME NEW m \in ModemType, ConnectsOK(m), Rest(m),
         m.op.kind = "disable" => Idle(m) /\ ~m.enabled /\ NobodyDials(m),
         Connected(m) = {} \/ (Shown(m) /\ m.state # "disabling"),
         NEW y, y = OpSucceeded(m)
  PROVE  Rest(y) /\ Shown(y) /\ \A B : Course(y, B)
<1>1. PICK end : end = IF m.op.kind = "disable" THEN "disabled" ELSE "enabled" OBVIOUS
<1>2. end \in ToSet(States) BY <1>1, StateSet
<1>3. PICK q : q = SetState(m, end) OBVIOUS
<1>4. Rest(q) BY <1>1, <1>2, <1>3, SetStateRest
<1>5. end = "disabled" => Connected(m) = {} BY <1>1, IdleShows
<1>6. end \in Plain \union {"disabled"} BY <1>1 DEF Plain
<1>7. Shown(q) BY <1>2, <1>3, <1>5, <1>6, SetStateShown
<1>8. q \in ModemType /\ OnlyState(m, q) BY <1>2, <1>3, SetStateEffect
<1>9. ConnectsOK(q) BY <1>8 DEF OnlyState, SameWaits, SameOp, ConnectsOK, ConnectOK
<1>10. PICK n : n = TellOthers(m.state, q) OBVIOUS
<1>11. Rest(n) /\ Shown(n) BY <1>4, <1>7, <1>8, <1>9, <1>10, TellOthersDown
<1>12. n \in ModemType /\ ConnectsOK(n) BY <1>8, <1>9, <1>10, TellOthersWakes DEF Woken
<1>13. y = OpDone(n, TRUE) BY <1>1, <1>3, <1>10 DEF OpSucceeded
<1> QED BY <1>11, <1>12, <1>13, OpDoneDown

(* The status of b may change: not in a modem at rest, and once the sequence  *)
(* counts the bearers only if b is up.                                       *)
MayTurn(m, b) ==
  /\ m.state \notin {"disabled", "enabling"}
  /\ ~(m.op.kind = "disable" /\ m.op.step = "threegpp")
  /\ m.bearers[b].status # "disconnected" \/ m.op.step # "bearers"

(* That of a bearer that is up always may.                                   *)
LEMMA UpMayTurn ==
  ASSUME NEW m, NEW b \in Bearers, Rest(m), Emptied(m), m.bearers[b].status # "disconnected"
  PROVE  MayTurn(m, b)
BY DEF MayTurn, Rest, Emptied, Idle

(* bearer_status_changed on the way up or down.                              *)
LEMMA QuietStatusDown ==
  ASSUME NEW m \in ModemType, NEW b \in Bearers, NEW s \in {"connecting", "disconnecting"},
         Rest(m), Shown(m), NEW B, Course(m, B), MayTurn(m, b),
         NEW y, y = QuietStatus(m, b, s)
  PROVE  Rest(y) /\ Shown(y) /\ Course(y, B)
<1>1. Turned(m, y, b, s) BY QuietStatusTurns
<1>2. /\ y.connects = m.connects /\ y.ahead = m.ahead /\ y.ongoing = m.ongoing /\ y.enabled = m.enabled
      /\ y.op = m.op /\ y.lists = m.lists /\ y.list = m.list /\ y.restored = m.restored
  BY <1>1 DEF Turned, SameWaits, SameNetwork, SameOp, SameLists
<1>3. /\ y.bearers[b].status = s /\ y.bearers[b].by = m.bearers[b].by
      /\ \A d \in Bearers \ {b} : y.bearers[d] = m.bearers[d]
      /\ y.state = m.state \/ (y.state = s /\ m.state \notin Quiet)
  BY <1>1 DEF Turned
<1>4. Rest(y)
  BY <1>2, <1>3 DEF Rest, MayDial, MayTurn, Up
<1>5. Shown(y)
  <2>1. PICK n : n = SetStatus(m, b, s) OBVIOUS
  <2>2. Turned(m, n, b, s) /\ n.state = m.state BY <2>1, SetStatusTurns DEF Statuses
  <2>3. Listed(m) \subseteq Bearers /\ Listed(n) = Listed(m) /\ Listed(y) = Listed(m)
    BY <1>2, <2>2 DEF Listed, ToSet, ModemType, Turned
  <2>4. Connected(n) = Connected(m) \ {b} /\ Connected(y) = Connected(m) \ {b}
    BY <1>3, <2>2, <2>3 DEF Connected, Turned
  <2>5. CASE m.state = "disabling" BY <1>3, <2>5 DEF Quiet, Shown
  <2>6. CASE m.state # "disabling" /\ Connected(n) \ {b} # {}
    <3>1. y = n BY <2>1, <2>6 DEF QuietStatus
    <3>2. Connected(m) # {} BY <2>4, <2>6
    <3> QED BY <1>2, <2>2, <2>6, <3>1, <3>2 DEF Shown
  <2>7. CASE Connected(n) \ {b} = {} BY <2>4, <2>7 DEF Shown
  <2> QED BY <2>5, <2>6, <2>7
<1>6. Halting(y) /\ Starting(y) BY <1>2 DEF Course, Halting, Starting, Stopping, MayDial
<1>7. Emptied(y) BY <1>2 DEF Emptied, MayTurn
<1>8. Seeing(y) BY <1>2, <1>3 DEF Course, Seeing, MayTurn
<1>9. Leaving(y, B) BY <1>2, <1>3 DEF Course, Leaving, MayTurn
<1> QED BY <1>4, <1>5, <1>6, <1>7, <1>8, <1>9 DEF Course

(* Bearers change but not their status, except for who asked for the end of b. *)
LEMMA SameStatusDown ==
  ASSUME NEW m, NEW y, y.state = m.state, y.restored = m.restored, y.enabled = m.enabled,
         y.op = m.op, y.lists = m.lists, y.list = m.list,
         y.connects = m.connects, y.ahead = m.ahead, y.ongoing = m.ongoing,
         Listed(m) \subseteq Bearers,
         \A d \in Bearers : y.bearers[d].status = m.bearers[d].status
  PROVE  /\ Rest(m) => Rest(y)
         /\ Shown(m) <=> Shown(y)
         /\ \A B, C : /\ Course(m, B)
                      /\ \A d \in Bearers \ C : /\ d \notin B \/ y.bearers[d].by = "op"
                                                /\ m.bearers[d].by = "op" => y.bearers[d].by = "op"
                      => Course(y, C)
<1>1. Rest(m) => Rest(y) BY DEF Rest, Idle, MayDial
<1>2. Connected(y) = Connected(m) BY DEF Connected, Listed
<1>3. Shown(m) <=> Shown(y) BY <1>2 DEF Shown
<1>4. ASSUME NEW B, NEW C, Course(m, B),
             \A d \in Bearers \ C : /\ d \notin B \/ y.bearers[d].by = "op"
                                    /\ m.bearers[d].by = "op" => y.bearers[d].by = "op"
      PROVE  Course(y, C)
  <2>1. Halting(y) /\ Starting(y) /\ Seeing(y) /\ Emptied(y)
    BY <1>4 DEF Course, Halting, Starting, Stopping, MayDial, Seeing, Emptied, Idle
  <2>2. Leaving(y, C) BY <1>4 DEF Course, Leaving
  <2> QED BY <2>1, <2>2 DEF Course
<1> QED BY <1>1, <1>3, <1>4

(* The record of b when who asks for its end.                                *)
LEMMA AskedByPuts ==
  ASSUME NEW m \in ModemType, NEW b \in Bearers, NEW who \in {"op", "user", "client"},
         NEW hanging \in {"no", "user"}, NEW n, n = AskedBy(m, b, who, hanging)
  PROVE  \E r \in BearerType : BearerPut(m, n, b, r) /\ r.status = m.bearers[b].status /\ r.by = who
<1>2. m.bearers[b] \in BearerType BY DEF ModemType
<1>3. PICK k \in BOOLEAN : k = (m.bearers[b].cancelled \/ m.bearers[b].status = "connecting")
  OBVIOUS
<1>4. PICK r : r = [m.bearers[b] EXCEPT !.by = who, !.hanging = hanging, !.cancelled = k] OBVIOUS
<1>5. r \in BearerType /\ r.status = m.bearers[b].status /\ r.by = who
  BY <1>2, <1>3, <1>4 DEF BearerType
<1>6. n = WithBearers(m, m.list, PutBearer(m, b, r))
  <2>1. PICK z : z = (m.bearers[b].cancelled \/ m.bearers[b].status = "connecting") OBVIOUS
  <2>2. z = k BY <1>3, <2>1
  <2>3. PICK q : q = [m.bearers[b] EXCEPT !.by = who, !.hanging = hanging, !.cancelled = z] OBVIOUS
  <2>4. q = r BY <1>4, <2>2, <2>3
  <2>5. n = [m EXCEPT !.bearers[b] = q] BY <2>1, <2>3, Zenon DEF AskedBy
  <2> QED BY <2>4, <2>5 DEF WithBearers, PutBearer, ModemType
<1> QED BY <1>5, <1>6, BearerPutEffect

(* Of the bearers only b changes, and not in its status.                     *)
StatusKept(m, y, b, r) ==
  /\ y \in ModemType /\ y.op = m.op /\ y.lists = m.lists /\ y.state = m.state
  /\ y.bearers[b] = r
  /\ Rest(m) => Rest(y)
  /\ Shown(m) <=> Shown(y)
  /\ \A B : Course(m, B) => Course(y, IF r.by = "op" THEN B \ {b} ELSE B \union {b})
  /\ \A B : Course(m, B) /\ (m.bearers[b].by # "op" \/ r.by = "op") => Course(y, B)

(* What else is known of a bearer does not matter, but who asked for its end. *)
LEMMA BearerPutDown ==
  ASSUME NEW m \in ModemType, NEW y, NEW b \in Bearers, NEW r, BearerPut(m, y, b, r),
         r.status = m.bearers[b].status
  PROVE  StatusKept(m, y, b, r)
<1>1. /\ y.state = m.state /\ y.restored = m.restored /\ y.enabled = m.enabled
      /\ y.op = m.op /\ y.lists = m.lists /\ y.list = m.list
      /\ y.connects = m.connects /\ y.ahead = m.ahead /\ y.ongoing = m.ongoing
      /\ y.bearers[b] = r /\ \A d \in Bearers \ {b} : y.bearers[d] = m.bearers[d]
      /\ y \in ModemType
  BY DEF BearerPut, OnlyBearers, SameState, SameWaits, SameOp, SameLists, SameNetwork
<1>2. Listed(m) \subseteq Bearers BY DEF Listed, ToSet, ModemType
<1>3. \A d \in Bearers : y.bearers[d].status = m.bearers[d].status BY <1>1
<1>4. /\ Rest(m) => Rest(y)
      /\ Shown(m) <=> Shown(y)
      /\ \A B, C : /\ Course(m, B)
                   /\ \A d \in Bearers \ C : /\ d \notin B \/ y.bearers[d].by = "op"
                                             /\ m.bearers[d].by = "op" => y.bearers[d].by = "op"
                   => Course(y, C)
  BY <1>1, <1>2, <1>3, SameStatusDown
<1>5. ASSUME NEW B, Course(m, B) PROVE Course(y, IF r.by = "op" THEN B \ {b} ELSE B \union {b})
  <2>1. PICK C : C = IF r.by = "op" THEN B \ {b} ELSE B \union {b} OBVIOUS
  <2>2. \A d \in Bearers \ C : /\ d \notin B \/ y.bearers[d].by = "op"
                               /\ m.bearers[d].by = "op" => y.bearers[d].by = "op"
    BY <1>1, <2>1
  <2> QED BY <1>4, <1>5, <2>1, <2>2
<1>6. ASSUME NEW B, Course(m, B), m.bearers[b].by # "op" \/ r.by = "op" PROVE Course(y, B)
  <2>1. \A d \in Bearers \ B : /\ d \notin B \/ y.bearers[d].by = "op"
                               /\ m.bearers[d].by = "op" => y.bearers[d].by = "op"
    BY <1>1, <1>6
  <2> QED BY <1>4, <1>6, <2>1
<1> QED BY <1>1, <1>4, <1>5, <1>6 DEF StatusKept

(* mm_base_bearer_disconnect of a bearer that is dialing or connected.        *)
LEMMA AskedByDown ==
  ASSUME NEW m \in ModemType, BearersOK(m), NEW b \in Bearers,
         NEW who \in {"op", "user", "client"}, NEW hanging \in {"no", "user"},
         m.bearers[b].status \in {"connecting", "connected"},
         Rest(m), Shown(m), Course(m, IF who = "op" THEN {b} ELSE {}),
         NEW y, y = QuietStatus(AskedBy(m, b, who, hanging), b, "disconnecting")
  PROVE  Down(y)
<1>1. PICK n : n = AskedBy(m, b, who, hanging) OBVIOUS
<1>2. PICK r \in BearerType : BearerPut(m, n, b, r) /\ r.status = m.bearers[b].status /\ r.by = who
  BY <1>1, AskedByPuts
<1>3. m.bearers[b].by # "op" BY ModemStateAssumption DEF BearersOK, BearerOK
<1>4. /\ n \in ModemType /\ n.bearers[b] = r /\ n.op = m.op
      /\ Rest(n) /\ Shown(n)
      /\ \A B : Course(m, B) => Course(n, IF r.by = "op" THEN B \ {b} ELSE B \union {b})
      /\ \A B : Course(m, B) /\ (m.bearers[b].by # "op" \/ r.by = "op") => Course(n, B)
  <2>1. StatusKept(m, n, b, r) BY <1>2, BearerPutDown
  <2> QED BY <2>1 DEF StatusKept
<1>5. Course(n, {})
  <2>1. CASE who = "op"
    <3>1. {b} \ {b} = {} OBVIOUS
    <3>2. Course(m, {b}) BY <2>1
    <3>3. Course(n, {b} \ {b}) BY <1>2, <1>4, <2>1, <3>2
    <3> QED BY <3>1, <3>3
  <2>2. CASE who # "op" BY <1>3, <1>4, <2>2
  <2> QED BY <2>1, <2>2
<1>6. MayTurn(n, b) BY <1>2, <1>4, <1>5, UpMayTurn DEF Course
<1> QED BY <1>1, <1>4, <1>5, <1>6, QuietStatusDown DEF Down

(* A disconnection of the list moves on.                                     *)
ListKept(m, y, w) ==
  /\ Rest(m) => Rest(y)
  /\ Shown(m) <=> Shown(y)
  /\ \A B : w = "user" /\ Course(m, B) => Course(y, B)
  /\ \A B, C : Course(m, B) /\ Leaving(y, C) => Course(y, C)

(* The attempts and bearers are as they were.                                *)
LEMMA ListPutDown ==
  ASSUME NEW m \in ModemType, NEW w \in {"op", "user"}, NEW r, NEW y, ListPut(m, y, w, r)
  PROVE  ListKept(m, y, w)
<1>1. /\ y.state = m.state /\ y.restored = m.restored /\ y.enabled = m.enabled
      /\ y.op = m.op /\ y.list = m.list /\ y.bearers = m.bearers
      /\ y.connects = m.connects /\ y.ahead = m.ahead /\ y.ongoing = m.ongoing
      /\ w = "user" => y.lists["op"] = m.lists["op"]
  BY DEF ListPut, OnlyLists, SameState, SameWaits, SameOp, SameBearers, SameNetwork
<1>2. Follows(m, y, {}) BY <1>1, FollowsSame
<1>3. Rest(m) => Rest(y) BY <1>1, <1>2, FollowsRest
<1>4. Shown(m) <=> Shown(y) BY <1>1, ShownSame
<1>5. ASSUME NEW B, Course(m, B) PROVE Halting(y) /\ Starting(y) /\ Seeing(y) /\ Emptied(y)
  BY <1>1, <1>5 DEF Course, Halting, Starting, Stopping, MayDial, Seeing, Emptied, Idle
<1>6. ASSUME NEW B, w = "user", Leaving(m, B) PROVE Leaving(y, B)
  BY <1>1, <1>6 DEF Leaving
<1> QED BY <1>3, <1>4, <1>5, <1>6 DEF Course, ListKept

(* mm_base_bearer_disconnect, which the sequence does of a bearer it has      *)
(* taken from those left.                                                   *)
LEMMA DisconnectDown ==
  ASSUME NEW m \in ModemType, BearersOK(m), NEW b \in Bearers, NEW who \in {"op", "user", "client"},
         who = "op" => m.lists["op"].answer = "none",
         Rest(m), Shown(m), Course(m, IF who = "op" THEN {b} ELSE {}),
         NEW y, y = Disconnect(m, b, who)
  PROVE  Down(y)
<1>1. m.bearers[b].status \in Statuses BY DEF ModemType, BearerType
<1>2. ASSUME NEW a \in {"ok", "error"}, y = IF who = "client" THEN m ELSE SetAnswer(m, who, a),
             a = "ok" => m.bearers[b].status = "disconnected"
      PROVE  Down(y)
  <2>1. CASE who = "client" BY <1>2, <2>1 DEF Down
  <2>2. CASE who # "client"
    <3>1. PICK r \in ListType : /\ ListPut(m, y, who, r)
                                /\ r.busy = m.lists[who].busy /\ r.pending = m.lists[who].pending /\ r.answer = a
      BY <1>2, <2>2, SetAnswerPuts
    <3>2. ListKept(m, y, who) BY <2>2, <3>1, ListPutDown
    <3>3. CASE who = "user" BY <3>2, <3>3 DEF ListKept, Down
    <3>4. CASE who = "op"
      <4>1. y.lists["op"] = r /\ y.bearers = m.bearers /\ y.op = m.op
        BY <3>1, <3>4 DEF ListPut, OnlyLists, SameBearers, SameOp
      <4>2. Leaving(m, {b}) BY <3>4 DEF Course
      <4>3. Leaving(y, {}) BY <1>2, <3>1, <3>4, <4>1, <4>2 DEF Leaving
      <4>4. Course(m, {b}) BY <3>4
      <4> QED BY <3>2, <4>3, <4>4 DEF ListKept, Down
    <3> QED BY <2>2, <3>3, <3>4
  <2> QED BY <2>1, <2>2
<1>3. CASE m.bearers[b].status = "disconnected" BY <1>2, <1>3 DEF Disconnect
<1>4. CASE m.bearers[b].status = "disconnecting" BY <1>2, <1>4 DEF Disconnect
<1>5. CASE m.bearers[b].status = "connecting"
  <2>1. y = QuietStatus(AskedBy(m, b, who, "no"), b, "disconnecting") BY <1>5 DEF Disconnect
  <2> QED BY <1>5, <2>1, AskedByDown
<1>6. CASE m.bearers[b].status = "connected"
  <2>1. y = QuietStatus(AskedBy(m, b, who, "user"), b, "disconnecting") BY <1>6 DEF Disconnect
  <2> QED BY <1>6, <2>1, AskedByDown
<1> QED BY <1>1, <1>3, <1>4, <1>5, <1>6 DEF Statuses

(* While a sequence disconnects the bearers only those left matter.          *)
LEMMA BearersCourse ==
  ASSUME NEW m, OpOK(m), m.op.step = "bearers", NEW B, Leaving(m, B)
  PROVE  Course(m, B)
BY DEF OpOK, Course, Halting, Stopping, Emptied, Seeing, Starting

(* The end of a list's disconnection.                                       *)
LEMMA ListDoneDown ==
  ASSUME NEW m \in ModemType, NEW X, NEW S, Fine(m, X, S), NEW who \in {"op", "user"}, who \in S,
         Rest(m), Shown(m), who = "user" => Course(m, {}),
         NEW ok \in BOOLEAN, who = "op" /\ ok => Idle(m),
         NEW y, y = ListDone(m, who, ok)
  PROVE  Down(y)
<1>1. PICK n : n = [m EXCEPT !.lists[who] = NoList] OBVIOUS
<1>2. n = WithLists(m, PutList(m, who, NoList)) BY <1>1 DEF WithLists, PutList
<1>3. ListPut(m, n, who, NoList) BY <1>2, Nothing, ListPutEffect
<1>4. ListKept(m, n, who) BY <1>3, ListPutDown
<1>5. CASE who = "user"
  <2>1. y = n BY <1>1, <1>5 DEF ListDone
  <2> QED BY <1>4, <1>5, <2>1 DEF ListKept, Down
<1>6. CASE who = "op"
  <2>1. m.op.step = "bearers" BY <1>6 DEF Fine, ListsOK, LinkOK, Owed
  <2>2. /\ m.op.kind = "disable" /\ m.state = "disabling" /\ m.op.previous \in Final \ {"disabled"}
        /\ m.op.seen = None
    BY <2>1, BearersStep DEF Fine
  <2>3. n \in ModemType /\ n.op = m.op /\ n.bearers = m.bearers /\ n.state = m.state /\ n.list = m.list
    BY <1>3 DEF ListPut, OnlyLists, SameOp, SameBearers, SameState
  <2>4. Rest(n) /\ Shown(n) BY <1>4 DEF ListKept
  <2>5. CASE ok
    <3>1. y = OpStep(n, "threegpp") BY <1>1, <1>6, <2>5, ModemStateAssumption DEF ListDone
    <3>2. PICK o \in OpType : /\ y = WithOp(n, o) /\ y \in ModemType /\ y.op = o /\ OnlyOp(n, y)
                              /\ o.step = "threegpp" /\ o.kind = n.op.kind /\ o.by = n.op.by
                              /\ o.seen = n.op.seen /\ o.previous = n.op.previous
      BY <2>3, <3>1, OpStepPuts
    <3>3. /\ y.state = n.state /\ y.restored = n.restored /\ y.bearers = n.bearers /\ y.list = n.list
          /\ y.enabled = n.enabled /\ y.connects = n.connects /\ y.ahead = n.ahead /\ y.ongoing = n.ongoing
      BY <3>2 DEF OnlyOp, SameState, SameBearers, SameWaits, SameNetwork
    <3>4. Follows(n, y, {}) BY <3>3, FollowsSame
    <3>5. Rest(y) BY <2>4, <3>3, <3>4, FollowsRest
    <3>6. Shown(y) BY <2>4, <3>3, ShownSame
    <3>7. Idle(y) BY <1>6, <2>3, <2>5, <3>3 DEF Idle
    <3>8. Course(y, {})
      BY <2>2, <2>3, <3>2, <3>7 DEF Course, Halting, Stopping, Emptied, Seeing, Starting, Leaving
    <3> QED BY <3>5, <3>6, <3>8 DEF Down
  <2>6. CASE ~ok
    <3>1. y = OpFailed(n) BY <1>1, <1>6, <2>6, ModemStateAssumption DEF ListDone
    <3>2. n.op.previous \notin Quiet /\ n.op.previous # "disabled" /\ n.op.kind = "disable"
      BY <2>2, <2>3 DEF Final, Quiet
    <3>3. ConnectsOK(n)
      <4>1. Sound(m, X) /\ ListFrame(m, n, "op") BY <1>3, <1>6, ListPutFrame DEF Fine
      <4> QED BY <4>1 DEF ListFrame, Sound
    <3> QED BY <2>3, <2>4, <3>1, <3>2, <3>3, OpFailedDown DEF Down
  <2> QED BY <2>5, <2>6
<1> QED BY <1>5, <1>6

(* The sequence has the bearers that are not down before it.                 *)
AllLeft(m) == \A b \in Bearers : \/ m.bearers[b].status = "disconnected"
                                 \/ b \in ToSet(m.lists["op"].pending)

(* disconnect_bearers_next                                                  *)
LEMMA DisconnectNextDown ==
  ASSUME NEW m \in ModemType, NEW X, NEW S, Fine(m, X, S), NEW who \in {"op", "user"}, who \in S,
         Rest(m), Shown(m), who = "user" => Course(m, {}), who = "op" => AllLeft(m),
         NEW y, y = DisconnectNext(m, who)
  PROVE  Down(y)
<1>1. PICK left \in Seq(Bearers) : left = m.lists[who].pending BY DEF ModemType, ListType
<1>2. CASE left = <<>>
  <2>1. y = ListDone(m, who, TRUE) BY <1>1, <1>2 DEF DisconnectNext
  <2>2. ToSet(left) = {} BY <1>2 DEF ToSet
  <2>3. who = "op" => Idle(m) BY <1>1, <2>2 DEF AllLeft, Idle
  <2> QED BY <2>1, <2>3, ListDoneDown
<1>3. CASE left # <<>>
  <2>1. PICK p \in Seq(Bearers) : p = Tail(left) BY <1>3, HeadTailProperties
  <2>2. PICK b \in Bearers : b = Head(left) BY <1>3, HeadTailProperties
  <2>3. PICK r : r = [busy |-> TRUE, pending |-> p, answer |-> "none"] OBVIOUS
  <2>4. r \in ListType /\ r.busy /\ r.pending = p /\ r.answer = "none" BY <2>3 DEF ListType
  <2>5. PICK n : n = Begun(m, who, p) OBVIOUS
  <2>6. n = WithLists(m, PutList(m, who, r)) BY <2>3, <2>5 DEF Begun, WithLists, PutList
  <2>7. ListPut(m, n, who, r) BY <2>4, <2>6, ListPutEffect
  <2>8. ListKept(m, n, who) BY <2>7, ListPutDown
  <2>9. /\ n \in ModemType /\ n.lists[who] = r /\ n.op = m.op /\ n.bearers = m.bearers
        /\ BearersOK(n) /\ OpOK(n)
    <3>1. ListFrame(m, n, who) BY <2>7, ListPutFrame
    <3>2. OpOK(n) /\ Sound(n, X) BY <3>1 DEF ListFrame, Fine
    <3> QED BY <2>7, <3>2 DEF ListPut, OnlyLists, SameOp, SameBearers, Sound
  <2>10. y = Disconnect(n, b, who) BY <1>1, <1>3, <2>1, <2>2, <2>5, Zenon DEF DisconnectNext, Begun
  <2>11. Rest(n) /\ Shown(n) BY <2>8 DEF ListKept
  <2>12. CASE who = "user"
    <3>1. Course(n, {}) BY <2>8, <2>12 DEF ListKept
    <3> QED BY <2>9, <2>10, <2>11, <2>12, <3>1, DisconnectDown
  <2>13. CASE who = "op"
    <3>1. m.op.step = "bearers" BY <2>13 DEF Fine, ListsOK, LinkOK, Owed
    <3>2. ToSet(left) = {b} \union ToSet(p)
      <4>1. \A i \in 1 .. Len(left) : i = 1 \/ (i - 1 \in 1 .. Len(p) /\ p[i - 1] = left[i])
        BY <1>3, <2>1
      <4>2. \A i \in 1 .. Len(p) : i + 1 \in 1 .. Len(left) /\ left[i + 1] = p[i] BY <1>3, <2>1
      <4>3. left[1] = b /\ 1 \in 1 .. Len(left) BY <1>3, <2>2
      <4>4. DOMAIN left = 1 .. Len(left) /\ DOMAIN p = 1 .. Len(p) OBVIOUS
      <4>5. ASSUME NEW x \in ToSet(left) PROVE x = b \/ x \in ToSet(p)
        <5>1. PICK i \in 1 .. Len(left) : x = left[i] BY <4>4, <4>5 DEF ToSet
        <5> QED BY <4>1, <4>3, <4>4, <5>1 DEF ToSet
      <4>6. ASSUME NEW x \in ToSet(p) PROVE x \in ToSet(left)
        <5>1. PICK i \in 1 .. Len(p) : x = p[i] BY <4>4, <4>6 DEF ToSet
        <5> QED BY <4>2, <4>4, <5>1 DEF ToSet
      <4>7. b \in ToSet(left) BY <4>3, <4>4 DEF ToSet
      <4> QED BY <4>5, <4>6, <4>7
    <3>3. Leaving(n, {b}) BY <1>1, <2>4, <2>9, <2>13, <3>2 DEF Leaving, AllLeft
    <3>4. Course(n, {b}) BY <2>9, <3>1, <3>3, BearersCourse
    <3> QED BY <2>4, <2>9, <2>10, <2>11, <2>13, <3>4, DisconnectDown
  <2> QED BY <2>12, <2>13
<1> QED BY <1>2, <1>3

(* bearer_disconnect_ready                                                  *)
LEMMA BearerDisconnectReadyDown ==
  ASSUME NEW m \in ModemType, NEW X, NEW S, Fine(m, X, S), NEW who \in {"op", "user"}, who \in S,
         Rest(m), Shown(m), who = "user" => Course(m, {}), NEW ok \in BOOLEAN,
         who = "op" /\ ok => AllLeft(m),
         NEW y, y = BearerDisconnectReady(m, who, ok)
  PROVE  Down(y)
<1>1. CASE ok
  <2>1. y = DisconnectNext(m, who) BY <1>1 DEF BearerDisconnectReady
  <2> QED BY <1>1, <2>1, DisconnectNextDown
<1>2. CASE ~ok
  <2>1. y = ListDone(m, who, FALSE) BY <1>2 DEF BearerDisconnectReady
  <2> QED BY <2>1, ListDoneDown
<1> QED BY <1>1, <1>2

(* mm_bearer_list_disconnect_bearers                                        *)
LEMMA DisconnectBearersDown ==
  ASSUME NEW m \in ModemType, NEW X, NEW S, Sound(m, X), OpOK(m), ListsOK(m, S),
         NEW who \in {"op", "user"} \ S, ~m.lists[who].busy,
         who = "user" => LinkOK(m), who = "op" => m.op.step = "bearers",
         Rest(m), Shown(m), who = "user" => Course(m, {}),
         NEW y, y = DisconnectBearers(m, who)
  PROVE  Down(y)
<1>1. PICK p \in Seq(Bearers) : p = Reverse(m.list) /\ ToSet(p) = ToSet(m.list) BY ReverseListed DEF ModemType
<1>2. PICK r : r = [busy |-> TRUE, pending |-> p, answer |-> "none"] OBVIOUS
<1>3. r \in ListType /\ r.busy /\ r.pending = p /\ r.answer = "none" BY <1>2 DEF ListType
<1>4. PICK n : n = Begun(m, who, p) OBVIOUS
<1>5. n = WithLists(m, PutList(m, who, r)) BY <1>2, <1>4 DEF Begun, WithLists, PutList
<1>6. ListPut(m, n, who, r) BY <1>3, <1>5, ListPutEffect
<1>7. ListKept(m, n, who) BY <1>6, ListPutDown
<1>8. ListOK(m, who) BY DEF ListsOK
<1>9. \A b \in Bearers : m.bearers[b].by # who BY <1>8 DEF ListOK
<1>10. Owing(m, n, who, p, X, S) BY <1>4, <1>9, OwesOK
<1>11. PICK T : T = S \union {who} OBVIOUS
<1>12. Fine(n, X, T) /\ n \in ModemType /\ who \in T /\ n.lists[who].answer = "none"
  BY <1>10, <1>11 DEF Owing
<1>13. n.lists[who] = r /\ n.op = m.op /\ n.bearers = m.bearers
  BY <1>6 DEF ListPut, OnlyLists, SameOp, SameBearers
<1>14. Rest(n) /\ Shown(n) /\ (who = "user" => Course(n, {})) BY <1>7 DEF ListKept
<1>15. \A b \in Bearers : n.bearers[b].status = "disconnected" \/ b \in ToSet(p)
  BY <1>1, <1>13 DEF Sound, BearersOK, Listed
<1>16. CASE m.list = <<>>
  <2>1. y = SetAnswer(n, who, "ok") BY <1>1, <1>4, <1>16, Zenon DEF DisconnectBearers, Begun
  <2>2. PICK q \in ListType : /\ ListPut(n, y, who, q)
                              /\ q.busy = n.lists[who].busy /\ q.pending = n.lists[who].pending /\ q.answer = "ok"
    BY <1>12, <2>1, SetAnswerPuts
  <2>3. ListKept(n, y, who) BY <1>12, <2>2, ListPutDown
  <2>4. CASE who = "user" BY <1>14, <2>3, <2>4 DEF ListKept, Down
  <2>5. CASE who = "op"
    <3>1. y.bearers = n.bearers /\ y.op = n.op BY <2>2 DEF ListPut, OnlyLists, SameBearers, SameOp
    <3>2. ToSet(p) = {} BY <1>1, <1>16 DEF ToSet
    <3>3. Leaving(y, {}) BY <1>15, <3>1, <3>2 DEF Leaving
    <3>4. Leaving(n, Bearers) BY DEF Leaving
    <3>5. Course(n, Bearers) BY <1>12, <1>13, <2>5, <3>4, BearersCourse DEF Fine
    <3> QED BY <1>14, <2>3, <3>3, <3>5 DEF ListKept, Down
  <2> QED BY <2>4, <2>5
<1>17. CASE m.list # <<>>
  <2>1. y = DisconnectNext(n, who) BY <1>1, <1>4, <1>17, Zenon DEF DisconnectBearers, Begun
  <2>2. who = "op" => AllLeft(n) BY <1>3, <1>13, <1>15 DEF AllLeft
  <2> QED BY <1>12, <1>14, <2>1, <2>2, DisconnectNextDown
<1> QED BY <1>16, <1>17

----------------------------------------------------------------------------
(* A step of the sequence alone leaves the rest.                             *)
LEMMA OpStepDown ==
  ASSUME NEW m \in ModemType, NEW s \in {"starting", "modem", "threegpp", "bearers", "undoing"},
         NEW y, y = OpStep(m, s)
  PROVE  /\ y \in ModemType /\ y.op.step = s /\ y.op.kind = m.op.kind /\ y.op.seen = m.op.seen
         /\ y.state = m.state /\ y.bearers = m.bearers /\ y.enabled = m.enabled
         /\ Rest(m) => Rest(y)
         /\ Shown(m) <=> Shown(y)
<1>1. PICK o \in OpType : /\ y = WithOp(m, o) /\ y \in ModemType /\ y.op = o /\ OnlyOp(m, y)
                          /\ o.step = s /\ o.kind = m.op.kind /\ o.by = m.op.by
                          /\ o.seen = m.op.seen /\ o.previous = m.op.previous
  BY OpStepPuts
<1>2. /\ y.state = m.state /\ y.restored = m.restored /\ y.bearers = m.bearers /\ y.list = m.list
      /\ y.enabled = m.enabled /\ y.connects = m.connects /\ y.ahead = m.ahead /\ y.ongoing = m.ongoing
  BY <1>1 DEF OnlyOp, SameState, SameBearers, SameWaits, SameNetwork
<1>3. Follows(m, y, {}) BY <1>2, FollowsSame
<1>4. Rest(m) => Rest(y) BY <1>2, <1>3, FollowsRest
<1> QED BY <1>1, <1>2, <1>4, ShownSame

(* The end of its wait too.                                                  *)
LEMMA WaitOverDown ==
  ASSUME NEW m \in ModemType, NEW s, NEW n, n = WaitOver(m, s)
  PROVE  /\ Rest(m) => Rest(n)
         /\ Shown(m) <=> Shown(n)
         /\ NobodyDials(m) => NobodyDials(n)
         /\ n.enabled = m.enabled
<1>1. PICK p : p = StopWaiting(m, "op") OBVIOUS
<1>2. /\ p.state = m.state /\ p.restored = m.restored /\ p.bearers = m.bearers /\ p.list = m.list
      /\ p.enabled = m.enabled /\ p.connects = m.connects /\ p.ahead = {} /\ p.ongoing = m.ongoing
      /\ DOMAIN p = DOMAIN m
  BY <1>1 DEF StopWaiting, ModemType
<1>3. /\ n.state = p.state /\ n.restored = p.restored /\ n.bearers = p.bearers /\ n.list = p.list
      /\ n.enabled = p.enabled /\ n.connects = p.connects /\ n.ahead = p.ahead /\ n.ongoing = p.ongoing
  <2>1. PICK o : o = [p.op EXCEPT !.seen = None, !.previous = s] OBVIOUS
  <2>2. n = [p EXCEPT !.op = o] BY <1>1, <2>1, Zenon DEF WaitOver
  <2> QED BY <1>2, <2>2 DEF ModemType
<1>4. Follows(m, n, {}) BY <1>2, <1>3, FollowsSame
<1>5. Rest(m) => Rest(n) BY <1>2, <1>3, <1>4, FollowsRest
<1>6. Shown(m) <=> Shown(n) BY <1>2, <1>3, ShownSame
<1>7. NobodyDials(m) => NobodyDials(n) BY <1>2, <1>3 DEF NobodyDials, MayDial
<1> QED BY <1>2, <1>3, <1>5, <1>6, <1>7

(* The rest of a disabled modem.                                            *)
LEMMA DisabledRest ==
  ASSUME NEW m, Rest(m), m.state = "disabled"
  PROVE  Idle(m) /\ ~m.enabled /\ NobodyDials(m)
BY DEF Rest, NobodyDials, Up

(* The sequence is told of the state, which may have changed since but not    *)
(* to or from disabled.                                                     *)
LEMMA OpToldDown ==
  ASSUME NEW m \in ModemType, NEW X, NEW S, Fine(m, X, S), m.op.step = "waiting",
         Rest(m), Shown(m), NEW B, Course(m, B),
         NEW s \in ToSet(States) \ Intermediate, s = "disabled" <=> m.state = "disabled",
         NEW y, y = OpTold(m, s)
  PROVE  Down(y)
<1>1. Sound(m, X) /\ ListsOK(m, S) /\ OpOK(m) /\ LinkOK(m) BY DEF Fine
<1>2. ~m.lists["op"].busy BY <1>1 DEF LinkOK
<1>3. "op" \notin S BY <1>1, <1>2 DEF ListsOK, Owed
<1>4. m.op.kind \in {"enable", "disable"} BY <1>1 DEF OpOK, NoOp, ModemType, OpType
<1>5. PICK n : n = WaitOver(m, s) OBVIOUS
<1>6. /\ n \in ModemType /\ Sound(n, X) /\ ListsOK(n, S) /\ "op" \notin n.waiters
      /\ n.op.seen = None /\ n.op.previous = s /\ n.op.kind = m.op.kind /\ n.lists = m.lists
      /\ n.bearers = m.bearers /\ n.state = m.state
      /\ ConnectsSleep(m) => ConnectsSleep(n)
  BY <1>1, <1>5, StopWaitingOp
<1>7. Rest(n) /\ Shown(n) /\ (NobodyDials(m) => NobodyDials(n)) BY <1>5, WaitOverDown
<1>8. ConnectsOK(n) BY <1>6 DEF Sound
<1>9. ~n.lists["op"].busy BY <1>2, <1>6
<1>10. n.state # "disabling" BY <1>1, <1>6 DEF OpOK, Undertaken
<1>11. n.state = "disabled" => Idle(n) /\ ~n.enabled /\ NobodyDials(n) BY <1>7, DisabledRest
<1>12. CASE s = "unknown"
  <2>1. y = OpFailed(n) BY <1>5, <1>12, Zenon DEF OpTold, WaitOver
  <2>2. n.op.previous \notin Quiet /\ n.op.previous # "disabled" /\ n.op.previous # "enabled"
    BY <1>6, <1>12 DEF Quiet
  <2> QED BY <1>6, <1>7, <1>8, <2>1, <2>2, OpFailedDown DEF Down
<1>13. CASE s # "unknown" /\ m.op.kind = "enable" /\ Level(s) >= Level("enabled")
  <2>1. y = OpSucceeded(n) BY <1>5, <1>13, Zenon DEF OpTold, WaitOver
  <2> QED BY <1>6, <1>7, <1>8, <1>10, <1>13, <2>1, OpSucceededDown DEF Down
<1>14. CASE s # "unknown" /\ m.op.kind = "enable" /\ ~(Level(s) >= Level("enabled"))
  <2>1. y = OpStep(SetState(n, "enabling"), "starting") BY <1>5, <1>14, Zenon DEF OpTold, WaitOver
  <2>2. s = "disabled" BY <1>14, StateSet, LevelsUp DEF Up, Intermediate
  <2>3. n.state = "disabled" BY <1>6, <2>2
  <2>4. PICK p : p = SetState(n, "enabling") OBVIOUS
  <2>5. "enabling" \in ToSet(States) /\ "enabling" \notin Plain BY StateSet DEF Plain
  <2>6. Rest(p) BY <1>6, <1>7, <1>11, <2>3, <2>4, <2>5, SetStateRest
  <2>7. Connected(n) = {} BY <1>6, <1>11, <2>3, IdleShows
  <2>8. Shown(p) BY <1>6, <2>4, <2>5, <2>7, SetStateShown
  <2>9. p \in ModemType /\ OnlyState(n, p) BY <1>6, <2>4, <2>5, SetStateEffect
  <2>10. p.op = n.op /\ p.enabled = n.enabled BY <2>9 DEF OnlyState, SameOp, SameNetwork
  <2>11. /\ y.op.step = "starting" /\ y.op.kind = "enable" /\ y.op.seen = None /\ ~y.enabled
         /\ Rest(y) /\ Shown(y)
    <3>1. y = OpStep(p, "starting") BY <2>1, <2>4
    <3> QED BY <1>6, <1>11, <1>14, <2>3, <2>6, <2>8, <2>9, <2>10, <3>1, OpStepDown
  <2>12. Course(y, {}) BY <2>11 DEF Course, Halting, Stopping, Emptied, Seeing, Starting, Leaving
  <2> QED BY <2>11, <2>12 DEF Down
<1>15. CASE s # "unknown" /\ m.op.kind = "disable" /\ s = "disabled"
  <2>1. y = OpSucceeded(n) BY <1>5, <1>15, Zenon DEF OpTold, WaitOver
  <2>2. n.state = "disabled" BY <1>6, <1>15
  <2> QED BY <1>6, <1>7, <1>8, <1>10, <1>11, <2>1, <2>2, OpSucceededDown DEF Down
<1>16. CASE s # "unknown" /\ m.op.kind = "disable" /\ s # "disabled"
  <2>1. PICK q : q = SetState(n, "disabling") OBVIOUS
  <2>2. PICK p : p = OpStep(q, "bearers") OBVIOUS
  <2>3. s \in Final \ {"disabled"} BY <1>16, StateSet DEF Final, Intermediate
  <2>4. p = OpStep(SetState(n, "disabling"), "bearers") BY <2>1, <2>2
  <2>5. /\ p \in ModemType /\ Sound(p, X) /\ ListsOK(p, S) /\ OpOK(p) /\ AllSleep(p)
        /\ p.op.step = "bearers" /\ p.lists = n.lists
    BY <1>6, <1>16, <2>3, <2>4, BeginOK DEF Quiet
  <2>6. NobodyDials(n) BY <1>7, <1>16 DEF Course, Halting, Stopping, NobodyDials
  <2>7. "disabling" \in ToSet(States) /\ "disabling" \notin Plain BY StateSet DEF Plain
  <2>8. Rest(q) BY <1>6, <1>7, <2>1, <2>6, <2>7, SetStateRest
  <2>9. Shown(q) BY <1>6, <2>1, <2>7, SetStateShown
  <2>10. q \in ModemType BY <1>6, <2>1, <2>7, SetStateEffect
  <2>11. Rest(p) /\ Shown(p) BY <2>2, <2>8, <2>9, <2>10, OpStepDown
  <2>12. y = DisconnectBearers(p, "op") BY <1>5, <1>16, <2>4, Zenon DEF OpTold, WaitOver
  <2> QED BY <1>3, <1>9, <2>5, <2>11, <2>12, DisconnectBearersDown
<1> QED BY <1>4, <1>12, <1>13, <1>14, <1>15, <1>16

(* A sequence that waits has had the attempts aborted that could go on.       *)
LEMMA NobodyRisesNow ==
  ASSUME NEW m \in ModemType, ConnectsOK(m), OpOK(m), OpSleeps(m), Halting(m), Stopping(m)
  PROVE  Rising(m, Connects) = {}
<1>1. m.op.seen # None \/ "op" \in m.waiters BY DEF OpOK, Stopping
<1>2. CASE m.op.seen # None BY <1>2, NobodyRises
<1>3. CASE "op" \in m.waiters
  <2>1. m.state \in Intermediate \union {"unknown"}
    BY <1>3, ModemStateAssumption DEF OpSleeps, Wanted
  <2> QED BY <2>1, RisingUp DEF Up
<1> QED BY <1>1, <1>2, <1>3

(* The notification of a change of the state.                               *)
LEMMA TellDown ==
  ASSUME NEW m \in ModemType, NEW X, NEW S, Fine(m, X, S), Down(m), NEW s, NEW y, y = Tell(s, m)
  PROVE  Down(y)
<1>1. CASE m.state = s
  <2>1. y = m BY <1>1 DEF Tell
  <2> QED BY <2>1
<1>2. CASE m.state # s
  <2>1. PICK first : first = TellConnects(m, m.ahead) OBVIOUS
  <2>2. ConnectsOK(m) /\ OpOK(m) /\ m.ahead \in SUBSET Connects BY DEF Fine, Sound, ModemType
  <2>3. Woken(m, first) BY <2>1, <2>2, TellConnectsWakes
  <2>4. Fine(first, X, S) /\ first \in ModemType BY <2>3, WokenFine DEF Fine, Sound
  <2>5. /\ first.op = m.op /\ first.state = m.state
        /\ "op" \in first.waiters <=> "op" \in m.waiters
    BY <2>3 DEF Woken, OnlyWaits, SameOp, SameState
  <2>6. Stopping(m) => Rising(m, m.ahead) = {} BY <2>2, NobodyRises DEF Down, Course
  <2>7. Rest(first) /\ Shown(first) /\ Course(first, {}) BY <2>1, <2>2, <2>6, TellConnectsDown DEF Down
  <2>8. PICK n : n = IF "op" \in m.waiters /\ Wanted(m, "op") THEN OpTold(first, m.state) ELSE first
    OBVIOUS
  <2>9. y = TellConnects(n, Connects) BY <1>2, <2>1, <2>8 DEF Tell
  <2>10. Fine(n, X, S) /\ OpSleeps(n) /\ Down(n)
    <3>1. CASE "op" \in m.waiters /\ Wanted(m, "op")
      <4>1. first.op.step = "waiting" BY <2>2, <2>5, <3>1 DEF OpOK
      <4>2. m.state \in ToSet(States) \ Intermediate BY <3>1 DEF Wanted, ModemType
      <4>3. n = OpTold(first, m.state) BY <2>8, <3>1
      <4>4. m.state = "disabled" <=> first.state = "disabled" BY <2>5
      <4>5. Down(n) BY <2>4, <2>7, <4>1, <4>2, <4>3, <4>4, OpToldDown
      <4> QED BY <2>4, <4>1, <4>2, <4>3, <4>5, OpToldOK
    <3>2. CASE ~("op" \in m.waiters /\ Wanted(m, "op"))
      <4>1. n = first BY <2>8, <3>2
      <4>2. Wanted(first, "op") => Wanted(m, "op") BY <2>5, ModemStateAssumption DEF Wanted
      <4> QED BY <2>4, <2>5, <2>7, <3>2, <4>1, <4>2 DEF OpSleeps, Down
    <3> QED BY <3>1, <3>2
  <2>11. n \in ModemType /\ ConnectsOK(n) /\ OpOK(n) BY <2>10 DEF Fine, Sound
  <2>12. Stopping(n) => Rising(n, Connects) = {} BY <2>10, <2>11, NobodyRisesNow DEF Down, Course
  <2> QED BY <2>9, <2>10, <2>11, <2>12, TellConnectsDown DEF Down
<1> QED BY <1>1, <1>2

(* A change of the state, but not to or from disabled, is no matter to the    *)
(* sequence.                                                                *)
LEMMA StateCourse ==
  ASSUME NEW m, NEW y, OnlyState(m, y), y.state = "disabled" <=> m.state = "disabled",
         NEW B, Course(m, B)
  PROVE  Course(y, B)
<1>1. /\ y.op = m.op /\ y.connects = m.connects /\ y.ahead = m.ahead /\ y.bearers = m.bearers
      /\ y.lists = m.lists /\ y.enabled = m.enabled
  BY DEF OnlyState, SameWaits, SameOp, SameBearers, SameLists, SameNetwork
<1>2. Halting(y) /\ Starting(y) /\ Seeing(y) /\ Emptied(y)
  BY <1>1 DEF Course, Halting, Starting, Stopping, MayDial, Seeing, Emptied, Idle
<1>3. Leaving(y, B) BY <1>1 DEF Course, Leaving
<1> QED BY <1>2, <1>3 DEF Course

(* mm_iface_modem_update_state, of a modem that is not disabled.              *)
LEMMA UpdateStateDown ==
  ASSUME NEW m \in ModemType, NEW X, NEW S, Fine(m, X, S), AllSleep(m),
         m.state \notin Quiet, m.state # "disabled",
         NEW s \in Plain \union {"connected"}, Rest(m), Course(m, {}),
         s = "connected" \/ Connected(m) = {} \/ Shown(m),
         NEW y, y = UpdateState(m, s)
  PROVE  Down(y)
<1>0. s \in ToSet(States) /\ s \notin {"disabled", "enabling", "disabling"} BY StateSet DEF Plain
<1>1. PICK p : p = SetState(m, s) OBVIOUS
<1>2. /\ p \in ModemType
      /\ OnlyState(m, p)
      /\ s \notin Plain => p.state = s
      /\ s \in Plain =>
           \/ p.state \in Plain
           \/ /\ p.state = m.state /\ m.state \in {"disconnecting", "connecting", "connected"}
              /\ Connected(m) # {}
  BY <1>0, <1>1, SetStateEffect
<1>3. p.state \notin Quiet /\ p.state # "disabled" BY <1>0, <1>2 DEF Plain, Quiet
<1>4. StateFrame(m, p) BY <1>2, OnlyStateFrame
<1>5. OpOK(p) BY <1>3, <1>4 DEF OpOK, Undertaken, StateFrame, Fine, Quiet
<1>6. Fine(p, X, S) BY <1>4, <1>5 DEF Fine, StateFrame
<1>7. Rest(p) BY <1>0, <1>1, SetStateRest
<1>8. Shown(p) BY <1>0, <1>1, SetStateShown DEF Quiet
<1>9. Course(p, {}) BY <1>2, <1>3, StateCourse
<1>10. y = Tell(m.state, p) BY <1>1 DEF UpdateState
<1> QED BY <1>2, <1>6, <1>7, <1>8, <1>9, <1>10, TellDown DEF Down

(* bearer_status_changed, for a final status.                                *)
LEMMA BearerStatusChangedDown ==
  ASSUME NEW m \in ModemType, NEW b \in Bearers, NEW s \in {"connected", "disconnected"},
         NEW n \in ModemType, n = SetStatus(m, b, s), n.state = m.state, n.bearers[b].status = s,
         n.subsystem = m.subsystem, NEW X, NEW S, Fine(n, X, S), AllSleep(n),
         n.state \notin {"disabled", "enabling"}, Rest(n), NEW B, Course(n, B),
         n.state \notin Quiet => B = {}, Connected(n) \ {b} # {} => Shown(n),
         NEW y, y = BearerStatusChanged(m, b, s)
  PROVE  Rest(y) /\ Shown(y) /\ Course(y, B) /\ (n.state \in Quiet => y = n)
<1>1. CASE n.state \in Quiet \/ Connected(n) \ {b} # {}
  <2>1. y = n BY <1>1 DEF BearerStatusChanged, Quiet
  <2>2. n.state \in Quiet => Shown(n) BY DEF Quiet, Shown
  <2> QED BY <1>1, <2>1, <2>2
<1>2. CASE ~(n.state \in Quiet \/ Connected(n) \ {b} # {})
  <2>1. PICK t : t = IF s = "connected" THEN s ELSE m.subsystem OBVIOUS
  <2>2. t \in Plain \union {"connected"} BY <2>1 DEF ModemType, Plain
  <2>3. y = UpdateState(n, t) BY <1>2, <2>1 DEF BearerStatusChanged, Quiet
  <2>4. t = "connected" \/ Connected(n) = {} BY <1>2, <2>1 DEF Connected
  <2>5. Down(y) BY <1>2, <2>2, <2>3, <2>4, UpdateStateDown
  <2> QED BY <1>2, <2>5 DEF Down
<1> QED BY <1>1, <1>2

(* A bearer settles: as in SettleOK.                                        *)
LEMMA SettleDown ==
  ASSUME NEW m, NEW b \in Bearers, NEW X, Settling(m, b, X), m.bearers[b].status # "disconnected",
         Down(m), NEW s \in {"connected", "disconnected"}, NEW y, y = Settle(m, b, s)
  PROVE  Down(y)
<1>1. m \in ModemType BY DEF Settling
<1>2. m.bearers[b] \in BearerType BY <1>1 DEF ModemType
<1>3. PICK who : who = m.bearers[b].by OBVIOUS
<1>4. PICK r : r = [m.bearers[b] EXCEPT !.by = None, !.hanging = "no"] OBVIOUS
<1>5. /\ r \in BearerType /\ r.by = None /\ r.hanging = "no" /\ r.status = m.bearers[b].status
      /\ r.dialing = m.bearers[b].dialing /\ r.connect = m.bearers[b].connect
  BY <1>2, <1>4 DEF BearerType
<1>6. PICK p : p = [m EXCEPT !.bearers[b] = r] OBVIOUS
<1>7. p = WithBearers(m, m.list, PutBearer(m, b, r)) BY <1>1, <1>6 DEF WithBearers, PutBearer, ModemType
<1>8. BearerPut(m, p, b, r) BY <1>1, <1>5, <1>7, BearerPutEffect
<1>9. /\ p \in ModemType /\ p.list = m.list /\ p.bearers[b] = r
      /\ \A d \in Bearers \ {b} : p.bearers[d] = m.bearers[d]
      /\ p.op = m.op /\ p.state = m.state /\ p.waiters = m.waiters /\ p.ahead = m.ahead
      /\ p.ongoing = m.ongoing /\ p.connects = m.connects /\ p.lists = m.lists
      /\ p.reloads = m.reloads /\ p.reloading = m.reloading
  BY <1>8 DEF BearerPut, OnlyBearers, SameState, SameWaits, SameOp, SameLists, SameNetwork
<1>10. PICK n : n = SetStatus(p, b, s) OBVIOUS
<1>11. Turned(p, n, b, s) /\ n.state = p.state BY <1>9, <1>10, SetStatusTurns DEF Statuses
<1>12. /\ n \in ModemType /\ n.list = m.list /\ n.state = m.state
       /\ n.bearers[b].status = s /\ ~n.bearers[b].dialing /\ n.bearers[b].hanging = "no"
       /\ n.bearers[b].by = None /\ n.bearers[b].connect = None
       /\ \A d \in Bearers \ {b} : n.bearers[d] = m.bearers[d]
       /\ n.op = m.op /\ n.waiters = m.waiters /\ n.ahead = m.ahead
       /\ n.ongoing = m.ongoing /\ n.connects = m.connects /\ n.lists = m.lists
       /\ n.reloads = m.reloads /\ n.reloading = m.reloading
  BY <1>5, <1>9, <1>11 DEF Turned, SameWaits, SameOp, SameLists, SameNetwork, Settling
<1>13. BearerOK(n.bearers[b]) BY <1>12 DEF BearerOK
<1>14. BearersOK(n) BY <1>12, <1>13 DEF BearersOK, Settling, Listed
<1>15. ConnectsOK(n) BY <1>12 DEF ConnectsOK, ConnectOK, Settling
<1>16. DialsOK(n, X)
  <2>1. \A d \in Bearers : n.bearers[d].connect = m.bearers[d].connect BY <1>12 DEF Settling
  <2>2. ConnectsOK(m) /\ DialsOK(m, X) BY DEF Settling
  <2> QED BY <1>1, <1>12, <2>1, <2>2, DialsFrame
<1>17. ReloadOK(n) /\ OpOK(n) /\ LinkOK(n)
  BY <1>12 DEF ReloadOK, OpOK, Undertaken, LinkOK, Settling
<1>18. PICK S : S = {who} \intersect {"op", "user"} OBVIOUS
<1>19. ASSUME NEW v \in {"op", "user"}
       PROVE  /\ IF v \in S THEN Owed(n, v) ELSE ListOK(n, v)
              /\ v = who => \A d \in Bearers : n.bearers[d].by # v
  <2>1. ListOK(m, v) BY DEF Settling, ListsOK
  <2>2. v # None BY ModemStateAssumption
  <2>3. CASE v = who
    <3>1. \A d \in Bearers : m.bearers[d].by = v => d = b BY <1>3, <2>1, <2>3 DEF ListOK
    <3>2. \A d \in Bearers : n.bearers[d].by # v BY <1>12, <2>2, <3>1
    <3>3. m.lists[v].busy BY <1>3, <2>1, <2>3 DEF ListOK
    <3> QED BY <1>12, <1>18, <2>3, <3>2, <3>3 DEF Owed
  <2>4. CASE v # who
    <3>1. \A d \in Bearers : n.bearers[d].by = v <=> m.bearers[d].by = v BY <1>3, <1>12, <2>2, <2>4
    <3>2. ListOK(n, v) BY <1>12, <2>1, <3>1 DEF ListOK
    <3> QED BY <1>18, <2>4, <3>2
  <2> QED BY <2>3, <2>4
<1>20. Fine(n, X, S)
  BY <1>12, <1>14, <1>15, <1>16, <1>17, <1>19 DEF Fine, Sound, ListsOK
<1>21. AllSleep(n) BY <1>12 DEF AllSleep, ConnectsSleep, OpSleeps, Wanted, Settling
<1>22. PICK q : q = BearerStatusChanged(p, b, s) OBVIOUS
<1>23. Fine(q, X, S) /\ AllSleep(q)
  BY <1>9, <1>10, <1>12, <1>20, <1>21, <1>22, BearerStatusChangedOK
<1>24. q \in ModemType BY <1>23 DEF Fine, Sound
<1>25. y = IF who \in {None, "client"} THEN q ELSE BearerDisconnectReady(q, who, s = "disconnected")
  BY <1>3, <1>4, <1>6, <1>22, Zenon DEF Settle
<1>26. PICK B : B = IF who = "op" THEN {b} ELSE {} OBVIOUS
<1>27. MayTurn(m, b) /\ Rest(m) /\ Shown(m) /\ Course(m, {}) BY UpMayTurn DEF Down, Course
<1>28. Rest(p) /\ Course(p, B)
  <2>1. StatusKept(m, p, b, r) BY <1>1, <1>5, <1>8, BearerPutDown
  <2>2. r.by # "op" BY <1>5, ModemStateAssumption
  <2>3. {} \union {b} = {b} OBVIOUS
  <2>4. Course(p, {} \union {b}) BY <1>27, <2>1, <2>2 DEF StatusKept
  <2>5. who # "op" => Course(p, {}) BY <1>3, <1>27, <2>1 DEF StatusKept
  <2>6. Rest(p) BY <1>27, <2>1 DEF StatusKept
  <2> QED BY <1>26, <2>3, <2>4, <2>5, <2>6
<1>29. n.enabled = p.enabled /\ n.subsystem = p.subsystem /\ n.restored = m.restored
  BY <1>8, <1>11 DEF Turned, SameNetwork, BearerPut, OnlyBearers, SameState
<1>30. n.state \notin {"disabled", "enabling"} BY <1>12, <1>27 DEF MayTurn
<1>31. Rest(n)
  BY <1>9, <1>12, <1>28, <1>29, <1>30 DEF Rest, MayDial
<1>32. ASSUME NEW C, Course(p, C), s = "disconnected" => C = {b} \/ C = {} PROVE Course(n, C)
  <2>1. Halting(n) /\ Starting(n) /\ Seeing(n)
    BY <1>9, <1>12, <1>29, <1>32 DEF Course, Halting, Starting, Stopping, MayDial, Seeing
  <2>2. Emptied(n) BY <1>12, <1>27 DEF Emptied, MayTurn
  <2>3. p.bearers[b].status # "disconnected" /\ p.bearers[b].by # "op"
    BY <1>5, <1>9, ModemStateAssumption
  <2>4. Leaving(n, C) BY <1>9, <1>12, <1>32, <2>3 DEF Course, Leaving
  <2> QED BY <2>1, <2>2, <2>4 DEF Course
<1>33. Course(n, B) BY <1>26, <1>28, <1>32
<1>34. who = "op" => m.op.step = "bearers" /\ m.state = "disabling" /\ m.lists["op"].answer = "none"
  <2> SUFFICES ASSUME who = "op" PROVE m.op.step = "bearers" /\ m.state = "disabling" /\ m.lists["op"].answer = "none"
    OBVIOUS
  <2>1. ListOK(m, "op") BY DEF Settling, ListsOK
  <2>2. m.lists["op"].busy /\ m.lists["op"].answer = "none" BY <1>3, <2>1 DEF ListOK
  <2>3. m.op.step = "bearers" BY <2>2 DEF Settling, LinkOK
  <2> QED BY <2>2, <2>3, BearersStep, <1>1 DEF Settling
<1>35. n.state \notin Quiet => B = {} BY <1>12, <1>26, <1>34 DEF Quiet
<1>36. Connected(n) \ {b} # {} => Shown(n)
  <2>1. Connected(n) \ {b} = Connected(m) \ {b}
    <3>1. Listed(m) \subseteq Bearers /\ Listed(n) = Listed(m)
      BY <1>1, <1>12 DEF Listed, ToSet, ModemType
    <3> QED BY <1>12, <3>1 DEF Connected
  <2> QED BY <1>12, <1>27, <1>29, <2>1 DEF Shown
<1>37. /\ Rest(q) /\ Shown(q) /\ Course(q, B)
       /\ n.state \in Quiet => q = n
  BY <1>9, <1>10, <1>12, <1>20, <1>21, <1>22, <1>29, <1>30, <1>31, <1>33, <1>35, <1>36,
     BearerStatusChangedDown
<1>38. CASE who \in {None, "client"}
  <2>1. B = {} BY <1>26, <1>38, ModemStateAssumption
  <2> QED BY <1>25, <1>37, <1>38, <2>1 DEF Down
<1>39. CASE who \notin {None, "client"}
  <2>1. who \in {"op", "user"} /\ who \in S
    BY <1>2, <1>3, <1>18, <1>39 DEF BearerType
  <2>2. PICK ok \in BOOLEAN : ok = (s = "disconnected") OBVIOUS
  <2>3. y = BearerDisconnectReady(q, who, ok) BY <1>25, <1>39, <2>2
  <2>4. who = "user" => Course(q, {}) BY <1>26, <1>37
  <2>5. who = "op" /\ ok => AllLeft(q)
    <3> SUFFICES ASSUME who = "op", ok PROVE AllLeft(q)
      OBVIOUS
    <3>1. q = n BY <1>12, <1>34, <1>37 DEF Quiet
    <3>2. \A d \in Bearers : n.bearers[d].by # "op" BY <1>19
    <3>3. Leaving(n, {b}) BY <1>26, <1>33 DEF Course
    <3>4. n.lists["op"].answer # "error" /\ n.op.step = "bearers" BY <1>12, <1>34
    <3>5. n.bearers[b].status = "disconnected" BY <1>12, <2>2
    <3> QED BY <3>1, <3>2, <3>3, <3>4, <3>5 DEF Leaving, AllLeft
  <2> QED BY <1>23, <1>24, <1>37, <2>1, <2>3, <2>4, <2>5, BearerDisconnectReadyDown
<1> QED BY <1>38, <1>39

----------------------------------------------------------------------------
(* The registration is no matter, unless the interface is enabled.           *)
LEMMA NetworkDown ==
  ASSUME NEW m, NEW y, OnlyNetwork(m, y), y.enabled => m.enabled
  PROVE  Down(m) => Down(y)
<1>1. /\ y.state = m.state /\ y.restored = m.restored /\ y.op = m.op /\ y.connects = m.connects
      /\ y.ahead = m.ahead /\ y.ongoing = m.ongoing /\ y.bearers = m.bearers /\ y.list = m.list
      /\ y.lists = m.lists
  BY DEF OnlyNetwork, SameState, SameOp, SameWaits, SameBearers, SameLists
<1>2. Rest(m) => Rest(y) BY <1>1 DEF Rest, Idle, MayDial
<1>3. Shown(m) => Shown(y) BY <1>1 DEF Shown, Connected, Listed
<1>4. Course(m, {}) => Halting(y) /\ Emptied(y) /\ Seeing(y) /\ Starting(y)
  BY <1>1 DEF Course, Halting, Stopping, MayDial, Emptied, Idle, Seeing, Starting
<1>5. Course(m, {}) => Leaving(y, {}) BY <1>1 DEF Course, Leaving
<1> QED BY <1>2, <1>3, <1>4, <1>5 DEF Down, Course

(* mm_iface_modem_update_subsystem_state                                     *)
LEMMA UpdateSubsystemStateDown ==
  ASSUME NEW m \in ModemType, NEW X, NEW S, Fine(m, X, S), AllSleep(m), Down(m),
         m.state # "disabled", NEW s \in Plain, NEW y, y = UpdateSubsystemState(m, s)
  PROVE  /\ Down(y)
         /\ m.state \in Quiet => y.bearers = m.bearers /\ y.connects = m.connects /\ y.lists = m.lists
<1>1. PICK n : n = [m EXCEPT !.subsystem = s] OBVIOUS
<1>2. n \in ModemType BY <1>1 DEF ModemType, Plain
<1>3. OnlyNetwork(m, n) /\ n.reloads = m.reloads /\ n.reloading = m.reloading /\ n.enabled = m.enabled
  BY <1>1 DEF ModemType, OnlyNetwork, SameState, SameWaits, SameOp, SameBearers, SameLists
<1>4. ReloadOK(n) BY <1>3 DEF ReloadOK, Fine, Sound
<1>5. Fine(n, X, S) /\ Asleep(m, n) BY <1>2, <1>3, <1>4, NetworkFrame
<1>6. AllSleep(n) /\ n.state = m.state
  BY <1>3, <1>5 DEF Asleep, AllSleep, OnlyNetwork, SameState
<1>7. Down(n) BY <1>3, NetworkDown
<1>8. CASE m.state \in Quiet
  <2>1. y = n BY <1>1, <1>8 DEF UpdateSubsystemState, Quiet
  <2> QED BY <1>3, <1>7, <2>1 DEF OnlyNetwork, SameBearers, SameWaits, SameLists
<1>9. CASE m.state \notin Quiet
  <2>1. y = UpdateState(n, s) BY <1>1, <1>9 DEF UpdateSubsystemState, Quiet
  <2>2. Down(y) BY <1>2, <1>5, <1>6, <1>7, <1>9, <2>1, UpdateStateDown DEF Down
  <2> QED BY <1>9, <2>2
<1> QED BY <1>8, <1>9

(* Attempts that are cancelled come to nothing.                              *)
LEMMA LostDown ==
  ASSUME NEW m \in ModemType, Down(m), NEW r, NEW y, y = Lost(m, r)
  PROVE  /\ Down(y)
         /\ y.enabled = m.enabled /\ y.connects = m.connects
         /\ \A b \in Bearers : y.bearers[b].status = m.bearers[b].status
<1>1. PICK k : k = [b \in Bearers |-> m.bearers[b].cancelled \/ (r = "unknown" /\ m.bearers[b].status = "connecting")]
  OBVIOUS
<1>2. PICK f : f = [b \in Bearers |-> [m.bearers[b] EXCEPT !.cancelled = k[b]]] OBVIOUS
<1>3. \A b \in Bearers : f[b].status = m.bearers[b].status /\ f[b].by = m.bearers[b].by
  BY <1>2 DEF ModemType, BearerType
<1>4. y = [m EXCEPT !.registration = r, !.bearers = f]
  <2>1. f = [b \in Bearers |-> [m.bearers[b] EXCEPT !.cancelled = m.bearers[b].cancelled \/ (r = "unknown" /\ m.bearers[b].status = "connecting")]]
    <3>1. \A b \in Bearers : k[b] = (m.bearers[b].cancelled \/ (r = "unknown" /\ m.bearers[b].status = "connecting"))
      BY <1>1
    <3> QED BY <1>2, <3>1, Zenon
  <2> QED BY <2>1, Zenon DEF Lost
<1>5. /\ y.state = m.state /\ y.restored = m.restored /\ y.enabled = m.enabled /\ y.op = m.op
      /\ y.lists = m.lists /\ y.list = m.list /\ y.connects = m.connects /\ y.ahead = m.ahead
      /\ y.ongoing = m.ongoing /\ y.bearers = f
  BY <1>4 DEF ModemType
<1>6. Listed(m) \subseteq Bearers BY DEF Listed, ToSet, ModemType
<1>7. \A d \in Bearers : y.bearers[d].status = m.bearers[d].status BY <1>3, <1>5
<1>8. /\ Rest(m) => Rest(y)
      /\ Shown(m) <=> Shown(y)
      /\ \A B, C : /\ Course(m, B)
                   /\ \A d \in Bearers \ C : /\ d \notin B \/ y.bearers[d].by = "op"
                                             /\ m.bearers[d].by = "op" => y.bearers[d].by = "op"
                   => Course(y, C)
  BY <1>5, <1>6, <1>7, SameStatusDown
<1>9. \A d \in Bearers \ {} : /\ d \notin {} \/ y.bearers[d].by = "op"
                              /\ m.bearers[d].by = "op" => y.bearers[d].by = "op"
  BY <1>3, <1>5
<1>10. Course(y, {})
  <2>1. Course(m, {}) BY DEF Down
  <2> QED BY <1>8, <1>9, <2>1
<1> QED BY <1>5, <1>7, <1>8, <1>10 DEF Down

(* update_non_registered_state, by reports or within a sequence.             *)
LEMMA UpdateNonRegisteredDown ==
  ASSUME NEW m \in ModemType, NEW X, NEW S, Fine(m, X, S), AllSleep(m), Down(m),
         NEW r \in {"unknown", "searching"}, NEW y, y = UpdateNonRegistered(m, r)
  PROVE  /\ Down(y)
         /\ m.state \in Quiet => /\ y.connects = m.connects
                                 /\ \A b \in Bearers : y.bearers[b].status = m.bearers[b].status
<1>1. CASE ~m.enabled \/ r = m.registration
  <2>1. y = m BY <1>1 DEF UpdateNonRegistered
  <2> QED BY <2>1
<1>2. CASE ~(~m.enabled \/ r = m.registration)
  <2>1. PICK s \in Plain : s = IF r = "searching" THEN "searching" ELSE "enabled" BY DEF Plain
  <2>2. PICK n : n = Lost(m, r) OBVIOUS
  <2>3. y = UpdateSubsystemState(n, s) BY <1>2, <2>1, <2>2, Zenon DEF UpdateNonRegistered, Lost
  <2>4. n \in ModemType /\ Fine(n, X, S) /\ AllSleep(n) /\ n.state = m.state
    BY <2>2, LostOK
  <2>5. /\ Down(n) /\ n.connects = m.connects
        /\ \A b \in Bearers : n.bearers[b].status = m.bearers[b].status
    BY <2>2, LostDown
  <2>6. n.state # "disabled" BY <1>2, <2>4 DEF Down, Rest
  <2>7. /\ Down(y)
        /\ n.state \in Quiet => y.bearers = n.bearers /\ y.connects = n.connects
    BY <2>1, <2>3, <2>4, <2>5, <2>6, UpdateSubsystemStateDown
  <2> QED BY <2>4, <2>5, <2>7
<1> QED BY <1>1, <1>2

(* mm_iface_modem_3gpp_disable, within a sequence.                           *)
LEMMA Disable3gppDown ==
  ASSUME NEW m \in ModemType, NEW X, NEW S, Fine(m, X, S), AllSleep(m), Down(m),
         m.state \in Quiet, NEW y, y = Disable3gpp(m)
  PROVE  /\ Down(y) /\ ~y.enabled /\ y.connects = m.connects
         /\ \A b \in Bearers : y.bearers[b].status = m.bearers[b].status
<1>1. PICK n : n = UpdateNonRegistered(m, "unknown") OBVIOUS
<1>2. Fine(n, X, S) BY <1>1, UpdateNonRegisteredOK
<1>3. /\ Down(n) /\ n.connects = m.connects
      /\ \A b \in Bearers : n.bearers[b].status = m.bearers[b].status
  BY <1>1, UpdateNonRegisteredDown
<1>4. n \in ModemType BY <1>2 DEF Fine, Sound
<1>5. y = [n EXCEPT !.enabled = FALSE] BY <1>1 DEF Disable3gpp
<1>6. OnlyNetwork(n, y) /\ ~y.enabled
  BY <1>4, <1>5 DEF ModemType, OnlyNetwork, SameState, SameWaits, SameOp, SameBearers, SameLists
<1>7. Down(y) BY <1>3, <1>6, NetworkDown
<1> QED BY <1>3, <1>6, <1>7 DEF OnlyNetwork, SameWaits, SameBearers

----------------------------------------------------------------------------
(* The attempts go on, and nothing else does.                                *)
LEMMA FollowsDown ==
  ASSUME NEW m, NEW y, OnlyWaits(m, y), NEW U, Follows(m, y, U),
         U # {} => m.state \in Up /\ ~Stopping(m), Down(m)
  PROVE  Down(y)
<1>1. /\ y.state = m.state /\ y.restored = m.restored /\ y.bearers = m.bearers /\ y.list = m.list
      /\ y.enabled = m.enabled /\ y.op = m.op /\ y.lists = m.lists
  BY DEF OnlyWaits, SameState, SameOp, SameBearers, SameLists, SameNetwork
<1>2. Rest(y) BY <1>1, FollowsRest DEF Down
<1>3. Shown(y) BY <1>1, ShownSame DEF Down
<1>4. Course(y, {})
  <2>1. Course(m, {}) /\ (Stopping(m) => U = {}) BY DEF Down
  <2> QED BY <1>1, <2>1, FollowsCourse
<1> QED BY <1>2, <1>3, <1>4 DEF Down

(* connection_context_free                                                  *)
LEMMA EndConnectDown ==
  ASSUME NEW m \in ModemType, NEW c \in Connects, Down(m), NEW y, y = EndConnect(m, c)
  PROVE  Down(y)
<1>1. OnlyWaits(m, y) BY EndConnectEffect DEF Moved
<1>2. Follows(m, y, {}) BY EndConnectFollows
<1> QED BY <1>1, <1>2, FollowsDown

(* mm_iface_modem_simple_abort_ongoing, which may reach whatever goes on.     *)
LEMMA AbortOngoingDown ==
  ASSUME NEW m \in ModemType, Down(m), NEW y, y = AbortOngoing(m)
  PROVE  /\ Down(y)
         /\ Reached(m) => \A c \in Connects : y.connects[c].cancellable => y.connects[c].cancelled
<1>1. CASE m.ongoing = None
  <2>1. y = m BY <1>1 DEF AbortOngoing
  <2> QED BY <1>1, <2>1, ModemStateAssumption DEF Reached
<1>2. CASE m.ongoing # None
  <2>1. PICK c \in Connects : c = m.ongoing BY <1>2 DEF ModemType
  <2>2. m.connects[c] \in ConnectType BY DEF ModemType
  <2>3. PICK r : r = [m.connects[c] EXCEPT !.cancelled = TRUE] OBVIOUS
  <2>4. /\ r.cancelled /\ r.step = m.connects[c].step /\ r.seen = m.connects[c].seen
        /\ r.cancellable = m.connects[c].cancellable
    BY <2>2, <2>3 DEF ConnectType
  <2>5. PICK f : f = PutConnect(m, c, r) OBVIOUS
  <2>6. f[c] = r /\ \A d \in Connects \ {c} : f[d] = m.connects[d]
    BY <2>5 DEF PutConnect, ModemType
  <2>7. y = [m EXCEPT !.connects = f, !.ongoing = None]
    <3>1. y = [m EXCEPT !.connects[c] = r, !.ongoing = None]
      BY <1>2, <2>1, <2>3, Zenon DEF AbortOngoing
    <3> QED BY <2>5, <3>1, Zenon DEF PutConnect
  <2>8. /\ y.state = m.state /\ y.restored = m.restored /\ y.bearers = m.bearers /\ y.list = m.list
        /\ y.enabled = m.enabled /\ y.op = m.op /\ y.lists = m.lists /\ y.ahead = m.ahead
        /\ y.connects = f
    BY <2>7 DEF ModemType
  <2>9. Reached(m) => \A d \in Connects : y.connects[d].cancellable => y.connects[d].cancelled
    BY <2>1, <2>4, <2>6, <2>8 DEF Reached
  <2>10. \A d \in Connects : /\ y.connects[d].cancellable = m.connects[d].cancellable
                             /\ m.connects[d].cancelled => y.connects[d].cancelled
                             /\ MayDial(y, d) => MayDial(m, d)
    BY <2>4, <2>6, <2>8 DEF MayDial, Dialing
  <2>11. Rest(y) BY <2>8, <2>10 DEF Down, Rest, Idle
  <2>12. Shown(y) BY <2>8, ShownSame DEF Down
  <2>13. Halting(y) BY <2>8, <2>10 DEF Down, Course, Halting, Stopping
  <2>14. Emptied(y) /\ Seeing(y) /\ Starting(y) BY <2>8 DEF Down, Course, Emptied, Idle, Seeing, Starting
  <2>15. Leaving(y, {}) BY <2>8 DEF Down, Course, Leaving
  <2> QED BY <2>9, <2>11, <2>12, <2>13, <2>14, <2>15 DEF Down, Course
<1> QED BY <1>1, <1>2

(* A sequence begins, the end of the modem after every attempt was aborted.   *)
LEMMA StartOpDown ==
  ASSUME NEW m \in ModemType, NEW by, NEW kind \in {"enable", "disable"}, m.op = NoOp, Down(m),
         kind = "disable" =>
           \A c \in Connects : /\ m.connects[c].cancellable => m.connects[c].cancelled
                               /\ ~MayDial(m, c),
         NEW y, y = StartOp(m, kind, by)
  PROVE  Down(y)
<1>1. PICK seen : seen = IF m.state \in Intermediate THEN None ELSE m.state OBVIOUS
<1>2. PICK o : o = [NoOp EXCEPT !.kind = kind, !.by = by, !.step = "waiting", !.seen = seen] OBVIOUS
<1>3. o.kind = kind /\ o.step = "waiting" /\ o.seen = seen BY <1>2 DEF NoOp
<1>4. PICK n : n = [m EXCEPT !.op = o] OBVIOUS
<1>5. /\ y.state = m.state /\ y.restored = m.restored /\ y.bearers = m.bearers /\ y.list = m.list
      /\ y.enabled = m.enabled /\ y.op = o /\ y.lists = m.lists /\ y.connects = m.connects
      /\ y.ongoing = m.ongoing
  <2>1. \/ y = n
        \/ y = [n EXCEPT !.waiters = @ \union {"op"}, !.ahead = @ \union (m.waiters \ {"op"})]
    BY <1>1, <1>2, <1>4, Zenon DEF StartOp
  <2> QED BY <1>4, <2>1 DEF ModemType
<1>6. Rest(y) BY <1>5 DEF Down, Rest, Idle, MayDial
<1>7. Shown(y) BY <1>5, ShownSame DEF Down
<1>8. Halting(y) BY <1>3, <1>5 DEF Halting, Stopping, MayDial
<1>9. Emptied(y) /\ Starting(y) BY <1>3, <1>5 DEF Emptied, Starting
<1>10. Seeing(y) BY <1>1, <1>3, <1>5, ModemStateAssumption DEF Seeing
<1>11. Leaving(y, {}) BY <1>3, <1>5 DEF Leaving
<1> QED BY <1>6, <1>7, <1>8, <1>9, <1>10, <1>11 DEF Down, Course

(* In an enabled modem no sequence is past its wait.                         *)
LEMMA UpSequence ==
  ASSUME NEW m, m \in ModemType, OpOK(m), m.state \in Up \union {"unknown"}
  PROVE  m.op.step \notin {"bearers", "threegpp", "undoing", "starting", "modem"}
<1>1. m.op.kind \in {"none", "enable", "disable"} BY DEF ModemType, OpType
<1>2. m.state \notin Quiet BY DEF Up, Quiet
<1> QED BY <1>1, <1>2 DEF OpOK, Undertaken, NoOp, Quiet

(* A bearer is asked to connect, of a modem that is enabled.                 *)
LEMMA DialDown ==
  ASSUME NEW m \in ModemType, OpOK(m), BearersOK(m), NEW b \in Bearers,
         m.bearers[b].status = "disconnected", m.state \in Up \union {"unknown"}, Down(m),
         NEW c \in Connects \union {None}, NEW y, y = Dial(m, b, c)
  PROVE  Down(y)
<1>1. m.bearers[b] \in BearerType BY DEF ModemType
<1>2. PICK r : r = [m.bearers[b] EXCEPT !.dialing = TRUE, !.cancelled = FALSE, !.connect = c] OBVIOUS
<1>3. r \in BearerType /\ r.by = m.bearers[b].by /\ r.status = m.bearers[b].status
  BY <1>1, <1>2 DEF BearerType
<1>4. PICK p : p = [m EXCEPT !.bearers[b] = r] OBVIOUS
<1>5. p = WithBearers(m, m.list, PutBearer(m, b, r)) BY <1>4 DEF WithBearers, PutBearer, ModemType
<1>6. BearerPut(m, p, b, r) BY <1>3, <1>5, BearerPutEffect
<1>7. StatusKept(m, p, b, r) BY <1>3, <1>6, BearerPutDown
<1>8. m.bearers[b].by # "op" BY ModemStateAssumption DEF BearersOK, BearerOK
<1>9. p \in ModemType /\ p.op = m.op /\ p.state = m.state /\ Rest(p) /\ Shown(p) /\ Course(p, {})
  BY <1>7, <1>8 DEF StatusKept, Down
<1>10. MayTurn(p, b) BY <1>9, UpSequence DEF MayTurn, Up
<1>11. y = QuietStatus(p, b, "connecting") BY <1>2, <1>4, Zenon DEF Dial
<1> QED BY <1>9, <1>10, <1>11, QuietStatusDown DEF Down

(* CONNECTION_STEP_CONNECT, unless the attempt is over.                      *)
LEMMA ConnectWithDown ==
  ASSUME NEW m \in ModemType, OpOK(m), BearersOK(m), Down(m), NEW c \in Connects, NEW b \in Bearers,
         m.connects[c].step # "idle" => m.state \in Up \union {"unknown"},
         NEW y, y = ConnectWith(m, c, b)
  PROVE  Down(y)
<1>1. CASE m.connects[c].step = "idle"
  <2>1. y = m BY <1>1 DEF ConnectWith
  <2> QED BY <2>1
<1>2. CASE m.connects[c].step # "idle"
  <2>1. PICK r : r = [NoAttempt EXCEPT !.step = "connect", !.bearer = b] OBVIOUS
  <2>2. r \in ConnectType /\ r.step = "connect" /\ ~r.cancellable
    BY <2>1, Nothing DEF ConnectType, NoAttempt, Steps
  <2>3. PICK o : o = IF m.connects[c].cancellable THEN None ELSE m.ongoing OBVIOUS
  <2>4. PICK n : n = [m EXCEPT !.ongoing = o, !.connects[c] = r] OBVIOUS
  <2>5. n = [m EXCEPT !.ongoing = IF m.connects[c].cancellable THEN None ELSE @,
                      !.connects[c] = [NoAttempt EXCEPT !.step = "connect", !.bearer = b]]
    BY <2>1, <2>3, <2>4
  <2>6. /\ n \in ModemType /\ OnlyWaits(m, n) /\ n.ahead = m.ahead /\ n.connects[c] = r
        /\ \A d \in Connects \ {c} : n.connects[d] = m.connects[d]
    BY <2>2, <2>3, <2>4
       DEF ModemType, OnlyWaits, SameState, SameOp, SameBearers, SameLists, SameNetwork
  <2>7. Follows(m, n, {})
    <3>1. ~MayDial(n, c) BY <2>2, <2>6 DEF MayDial, Dialing
    <3> QED BY <2>2, <2>6, <3>1 DEF Follows, MayDial
  <2>8. Down(n) BY <2>6, <2>7, FollowsDown
  <2>9. n.op = m.op /\ n.state = m.state /\ n.bearers = m.bearers /\ n.list = m.list /\ n.waiters = m.waiters
    BY <2>4 DEF ModemType
  <2>10. OpOK(n) /\ BearersOK(n) BY <2>9 DEF OpOK, Undertaken, BearersOK, Listed
  <2>11. CASE m.bearers[b].status = "disconnected"
    <3>1. y = Dial(n, b, c) BY <1>2, <2>5, <2>11, Zenon DEF ConnectWith
    <3> QED BY <1>2, <2>6, <2>8, <2>9, <2>10, <2>11, <3>1, DialDown
  <2>12. CASE m.bearers[b].status # "disconnected"
    <3>1. y = EndConnect(n, c) BY <1>2, <2>5, <2>12, Zenon DEF ConnectWith
    <3> QED BY <2>6, <2>8, <3>1, EndConnectDown
  <2> QED BY <2>11, <2>12
<1> QED BY <1>1, <1>2

(* A new bearer is not connected.                                           *)
LEMMA AddBearerDown ==
  ASSUME NEW m \in ModemType, BearersOK(m), Down(m), NEW b \in Bearers, NEW y, y = AddBearer(m, b)
  PROVE  Down(y)
<1>1. OnlyBearers(m, y) /\ y.bearers = m.bearers /\ Listed(y) = Listed(m) \union {b} BY AddBearerOK
<1>2. /\ y.state = m.state /\ y.restored = m.restored /\ y.op = m.op /\ y.connects = m.connects
      /\ y.ahead = m.ahead /\ y.ongoing = m.ongoing /\ y.lists = m.lists /\ y.enabled = m.enabled
  BY <1>1 DEF OnlyBearers, SameState, SameOp, SameWaits, SameLists, SameNetwork
<1>3. Rest(y) BY <1>1, <1>2 DEF Down, Rest, Idle, MayDial
<1>4. Connected(y) = Connected(m) BY <1>1 DEF Connected, BearersOK
<1>5. Shown(y) BY <1>2, <1>4 DEF Down, Shown
<1>6. Halting(y) /\ Emptied(y) /\ Seeing(y) /\ Starting(y)
  BY <1>1, <1>2 DEF Down, Course, Halting, Stopping, MayDial, Emptied, Idle, Seeing, Starting
<1>7. Leaving(y, {}) BY <1>1, <1>2 DEF Down, Course, Leaving
<1> QED BY <1>3, <1>5, <1>6, <1>7 DEF Down, Course

----------------------------------------------------------------------------
(* No request strays, and the modem is not at rest, which is dealt with below. *)
Straight == ~strayed' /\ ~AtRest(modem')

(* Each action keeps a disabled modem disconnected.  handle_enable:          *)
LEMMA EnableDown ==
  ASSUME Whole(modem), Down(modem), Enable
  PROVE  Down(modem')
<1>1. modem \in ModemType /\ modem.op = NoOp BY DEF Whole, Fine, Sound, OpOK, Enable
<1> QED BY <1>1, StartOpDown DEF Enable, Starts, Takes

(* handle_enable (FALSE), if the abort reaches the attempt there is:         *)
LEMMA DisableDown ==
  ASSUME Whole(modem), Down(modem), Disable, Straight
  PROVE  Down(modem')
<1>1. PICK m : m = AbortOngoing(modem) OBVIOUS
<1>2. Whole(m) /\ m.op = modem.op BY <1>1, AbortOngoingOK
<1>3. modem \in ModemType BY DEF Whole, Fine, Sound
<1>4. Down(m) /\ \A c \in Connects : m.connects[c].cancellable => m.connects[c].cancelled
  <2>1. Reached(modem) BY DEF Straight, Disable, Takes, AbortReaches, Reached
  <2> QED BY <1>1, <1>3, <2>1, AbortOngoingDown
<1>5. m \in ModemType /\ m.op = NoOp /\ ConnectsOK(m)
  BY <1>2 DEF Whole, Fine, Sound, OpOK, Disable
<1>6. \A c \in Connects : ~MayDial(m, c)
  BY <1>4, <1>5 DEF ConnectsOK, ConnectOK, MayDial, Dialing
<1>7. modem' = StartOp(m, "disable", None) BY <1>1 DEF Disable, Takes
<1> QED BY <1>4, <1>5, <1>6, <1>7, StartOpDown

(* the wait for a final state that was over at once:                        *)
LEMMA OpSeenDown ==
  ASSUME Whole(modem), Down(modem), OpSeen
  PROVE  Down(modem')
<1>1. modem \in ModemType /\ Fine(modem, {}, {}) /\ OpOK(modem) BY DEF Whole, Fine, Sound
<1>2. modem.op.step = "waiting" /\ modem.op.seen \in ToSet(States) \ Intermediate
  BY <1>1 DEF OpSeen, OpOK, ModemType, OpType
<1>3. modem' = OpTold(modem, modem.op.seen) BY DEF OpSeen, Goes
<1>4. modem.op.seen = "disabled" <=> modem.state = "disabled" BY DEF OpSeen, Down, Course, Seeing
<1>5. Rest(modem) /\ Shown(modem) /\ Course(modem, {}) BY DEF Down
<1> QED BY <1>1, <1>2, <1>3, <1>4, <1>5, OpToldDown

(* A sequence that fails before it did anything, or while the modem is still *)
(* idle.                                                                    *)
LEMMA IdleOpFails ==
  ASSUME NEW m, Whole(m), Down(m), NEW y, y = OpFailed(m),
         \/ m.op.step = "waiting"
         \/ m.op.kind = "enable" /\ m.op.step # "none" /\ ~m.enabled
  PROVE  Down(y)
<1>1. m \in ModemType /\ OpOK(m) /\ ConnectsOK(m) BY DEF Whole, Fine, Sound
<1>2. /\ m.op.previous \notin Quiet
      /\ m.op.previous # (IF m.op.kind = "disable" THEN "disabled" ELSE "enabled")
  BY <1>1 DEF OpOK, Undertaken, Quiet
<1>3. m.op.previous = "disabled" => Idle(m) /\ ~m.enabled /\ NobodyDials(m)
  <2> SUFFICES ASSUME m.op.previous = "disabled" PROVE Idle(m) /\ ~m.enabled /\ NobodyDials(m)
    OBVIOUS
  <2>1. m.op.step # "waiting" BY <1>1 DEF OpOK
  <2>2. m.op.kind = "enable" /\ ~m.enabled BY <2>1
  <2>3. m.state = "enabling" BY <1>1, <2>1, <2>2 DEF OpOK, Undertaken
  <2> QED BY <2>2, <2>3 DEF Down, Rest, NobodyDials, Up
<1>4. Rest(m) BY DEF Down
<1> QED BY <1>1, <1>2, <1>3, <1>4, OpFailedDown DEF Down

(* state_changed_wait_expired:                                              *)
LEMMA WaitExpiredDown ==
  ASSUME Whole(modem), Down(modem), NEW w \in Waiters, WaitExpired(w)
  PROVE  Down(modem')
<1>1. CASE w = "op"
  <2>1. modem.op.step = "waiting" BY <1>1 DEF WaitExpired, Whole, Fine, OpOK
  <2>2. modem' = OpFailed(modem) BY <1>1 DEF WaitExpired, Goes
  <2> QED BY <2>1, <2>2, IdleOpFails
<1>2. CASE w # "op"
  <2>1. w \in Connects /\ modem' = EndConnect(modem, w) BY <1>2 DEF WaitExpired, Goes, Waiters
  <2>2. modem \in ModemType BY DEF Whole, Fine, Sound
  <2> QED BY <2>1, <2>2, EndConnectDown
<1> QED BY <1>1, <1>2

(* The enabling sequence goes on.                                           *)
LEMMA OpStepKeepsDown ==
  ASSUME NEW m, Whole(m), Down(m), m.op.kind = "enable", m.op.step \notin {"waiting", "none"},
         NEW s \in {"modem", "threegpp", "undoing"}, s = "modem" => ~m.enabled,
         NEW y, y = OpStep(m, s)
  PROVE  Down(y) /\ y.state = m.state
<1>1. m \in ModemType /\ OpOK(m) BY DEF Whole, Fine, Sound
<1>2. /\ y.op.step = s /\ y.op.kind = m.op.kind /\ y.op.seen = m.op.seen
      /\ y.state = m.state /\ y.enabled = m.enabled
      /\ Rest(m) => Rest(y)
      /\ Shown(m) <=> Shown(y)
  BY <1>1, OpStepDown
<1>3. y.op.seen = None BY <1>1, <1>2 DEF OpOK
<1>4. Course(y, {})
  BY <1>2, <1>3 DEF Course, Halting, Stopping, Emptied, Seeing, Starting, Leaving
<1> QED BY <1>2, <1>4 DEF Down

(* enabling_started_ready:                                                  *)
LEMMA EnablingStartedDown ==
  ASSUME Whole(modem), Down(modem), NEW ok \in BOOLEAN, EnablingStarted(ok)
  PROVE  Down(modem')
<1>1. modem.op.kind = "enable" /\ modem.op.step = "starting" BY EnableStep DEF EnablingStarted
<1>2. ~modem.enabled BY <1>1 DEF Down, Course, Starting
<1>3. CASE ok
  <2>1. modem' = OpStep(modem, "modem") BY <1>3 DEF EnablingStarted, Goes
  <2> QED BY <1>1, <1>2, <2>1, OpStepKeepsDown
<1>4. CASE ~ok
  <2>1. modem' = OpFailed(modem) BY <1>4 DEF EnablingStarted, Goes
  <2> QED BY <1>1, <1>2, <2>1, IdleOpFails
<1> QED BY <1>3, <1>4

(* iface_modem_enable_ready:                                                *)
LEMMA ModemEnabledDown ==
  ASSUME Whole(modem), Down(modem), NEW ok \in BOOLEAN, ModemEnabled(ok)
  PROVE  Down(modem')
<1>1. modem.op.kind = "enable" /\ modem.op.step = "modem" BY EnableStep DEF ModemEnabled
<1>2. CASE ok
  <2>1. PICK n : n = OpStep(modem, "threegpp") OBVIOUS
  <2>2. Whole(n) BY <1>1, <2>1, OpStepWhole
  <2>3. Down(n) /\ n.state = modem.state BY <1>1, <2>1, OpStepKeepsDown
  <2>4. modem' = [n EXCEPT !.enabled = TRUE] BY <1>2, <2>1 DEF ModemEnabled, Goes
  <2>5. n \in ModemType /\ modem \in ModemType /\ OpOK(modem) BY <2>2 DEF Whole, Fine, Sound
  <2>6. n.op.kind = "enable" /\ n.op.step = "threegpp" BY <1>1, <2>1, <2>5, OpStepDown
  <2>7. /\ modem'.state = n.state /\ modem'.restored = n.restored /\ modem'.bearers = n.bearers
        /\ modem'.list = n.list /\ modem'.op = n.op /\ modem'.lists = n.lists /\ modem'.ahead = n.ahead
        /\ modem'.connects = n.connects /\ modem'.ongoing = n.ongoing
    BY <2>4, <2>5 DEF ModemType
  <2>8. n.state = "enabling" BY <1>1, <2>3, <2>5 DEF OpOK, Undertaken
  <2>9. Rest(modem') BY <2>3, <2>7, <2>8 DEF Down, Rest, Idle, MayDial
  <2>10. Shown(modem') BY <2>3, <2>7, ShownSame DEF Down
  <2>11. Course(modem', {})
    BY <2>3, <2>6, <2>7 DEF Down, Course, Halting, Stopping, Emptied, Seeing, Starting, Leaving
  <2> QED BY <2>9, <2>10, <2>11 DEF Down
<1>3. CASE ~ok
  <2>1. modem' = OpStep(modem, "undoing") BY <1>3 DEF ModemEnabled, Goes
  <2> QED BY <1>1, <2>1, OpStepKeepsDown
<1> QED BY <1>2, <1>3

(* the interfaces, enabled or disabled:                                     *)
LEMMA InterfacesDoneDown ==
  ASSUME Whole(modem), Down(modem), InterfacesDone
  PROVE  Down(modem')
<1>0. /\ modem \in ModemType /\ Fine(modem, {}, {}) /\ AllSleep(modem) /\ OpOK(modem)
      /\ ConnectsOK(modem) /\ Rest(modem)
  BY DEF Whole, Fine, Sound, Down
<1>1. CASE modem.op.step = "threegpp" /\ modem.op.kind = "enable" /\ modem' = OpSucceeded(modem)
  <2>1. modem.state = "enabling" BY <1>0, <1>1 DEF OpOK, Undertaken
  <2>2. Idle(modem) BY <1>0, <2>1 DEF Rest
  <2>3. Connected(modem) = {} BY <1>0, <2>2, IdleShows
  <2> QED BY <1>0, <1>1, <2>3, OpSucceededDown DEF Down
<1>2. CASE \/ modem.op.step = "threegpp" /\ modem.op.kind = "disable" /\ modem' = OpSucceeded(Disable3gpp(modem))
           \/ modem.op.step = "undoing" /\ modem' = OpFailed(Disable3gpp(modem))
  <2>1. PICK m : m = Disable3gpp(modem) OBVIOUS
  <2>2. modem.op.step = "undoing" => modem.op.kind = "enable" BY EnableStep
  <2>3. modem.state \in Quiet BY <1>0, <1>2, <2>2 DEF OpOK, Undertaken, Quiet
  <2>4. Fine(m, {}, {}) /\ AllSleep(m) /\ m.op = modem.op /\ m.state = modem.state
    BY <1>0, <2>1, <2>3, Disable3gppOK
  <2>5. /\ Down(m) /\ ~m.enabled /\ m.connects = modem.connects
        /\ \A b \in Bearers : m.bearers[b].status = modem.bearers[b].status
    BY <1>0, <2>1, <2>3, Disable3gppDown
  <2>6. m \in ModemType /\ ConnectsOK(m) /\ Rest(m) BY <2>4, <2>5 DEF Fine, Sound, Down
  <2>7. CASE modem.op.step = "threegpp" /\ modem.op.kind = "disable" /\ modem' = OpSucceeded(Disable3gpp(modem))
    <3>1. Idle(m) BY <2>5, <2>7 DEF Down, Course, Emptied, Idle
    <3>2. NobodyDials(m) BY <2>3, <2>4, <2>6 DEF Rest, NobodyDials, Up, Quiet
    <3>3. Connected(m) = {} BY <2>6, <3>1, IdleShows
    <3>4. modem' = OpSucceeded(m) BY <2>1, <2>7
    <3> QED BY <2>5, <2>6, <3>1, <3>2, <3>3, <3>4, OpSucceededDown DEF Down
  <2>8. CASE modem.op.step = "undoing" /\ modem' = OpFailed(Disable3gpp(modem))
    <3>1. modem' = OpFailed(m) BY <2>1, <2>8
    <3>2. Whole(m) BY <2>4 DEF Whole
    <3> QED BY <2>2, <2>4, <2>5, <2>8, <3>1, <3>2, IdleOpFails
  <2> QED BY <1>2, <2>7, <2>8
<1> QED BY <1>1, <1>2 DEF InterfacesDone, Goes

(* bearer_disconnect_ready in a later turn:                                 *)
LEMMA ListAnsweredDown ==
  ASSUME Whole(modem), Down(modem), NEW who \in {"op", "user"}, ListAnswered(who)
  PROVE  Down(modem')
<1>1. modem \in ModemType /\ Fine(modem, {}, {}) /\ LinkOK(modem) BY DEF Whole, Fine, Sound
<1>2. ListOK(modem, who) BY <1>1 DEF Fine, ListsOK
<1>3. modem.lists[who].answer # "none" BY DEF ListAnswered
<1>4. Owed(modem, who) BY <1>2, <1>3 DEF ListOK, Owed, NoList
<1>5. ListsOK(modem, {who}) BY <1>1, <1>4 DEF Fine, ListsOK
<1>6. Fine(modem, {}, {who}) BY <1>1, <1>5 DEF Fine
<1>7. PICK ok \in BOOLEAN : ok = (modem.lists[who].answer = "ok") OBVIOUS
<1>8. modem' = BearerDisconnectReady(modem, who, ok) BY <1>7 DEF ListAnswered, Goes
<1>9. Rest(modem) /\ Shown(modem) /\ Course(modem, {}) BY DEF Down
<1>10. who = "op" /\ ok => AllLeft(modem)
  <2> SUFFICES ASSUME who = "op", ok PROVE AllLeft(modem)
    OBVIOUS
  <2>1. modem.op.step = "bearers" /\ \A b \in Bearers : modem.bearers[b].by # "op"
    BY <1>1, <1>4 DEF LinkOK, Owed
  <2>2. modem.lists["op"].answer # "error" BY <1>7
  <2>3. Leaving(modem, {}) BY <1>9 DEF Course
  <2> QED BY <2>1, <2>2, <2>3 DEF Leaving, AllLeft
<1>11. who \in {who} OBVIOUS
<1> QED BY <1>1, <1>6, <1>8, <1>9, <1>10, <1>11, BearerDisconnectReadyDown

----------------------------------------------------------------------------
(* handle_create_bearer:                                                    *)
LEMMA CreateBearerDown ==
  ASSUME Whole(modem), Down(modem), NEW b \in Bearers, CreateBearer(b)
  PROVE  Down(modem')
<1>1. modem \in ModemType /\ BearersOK(modem) BY DEF Whole, Fine, Sound
<1> QED BY <1>1, AddBearerDown DEF CreateBearer, Starts, Takes

(* handle_connect of a bearer, of an enabled modem unless it strays:         *)
LEMMA ConnectBearerDown ==
  ASSUME Whole(modem), Down(modem), Straight, NEW b \in Bearers, ConnectBearer(b)
  PROVE  Down(modem')
<1>1. modem \in ModemType /\ BearersOK(modem) /\ OpOK(modem) BY DEF Whole, Fine, Sound
<1>2. modem.state \in Up
  <2>1. ~(Level(modem.state) < Level("enabled")) BY DEF Straight, ConnectBearer, Takes
  <2>2. modem.state \in ToSet(States) BY <1>1 DEF ModemType
  <2> QED BY <2>1, <2>2, LevelsUp
<1> QED BY <1>1, <1>2, DialDown DEF ConnectBearer, Takes

(* A bearer is on its way down.                                             *)
LEMMA HangDown ==
  ASSUME NEW m, NEW b \in Bearers, NEW X, Settling(m, b, X), m.bearers[b].status # "disconnected",
         Down(m), NEW how \in {"force", "cancel"},
         NEW y, y = QuietStatus(Hang(m, b, how), b, "disconnecting")
  PROVE  Down(y)
<1>1. m \in ModemType /\ m.bearers[b] \in BearerType BY DEF Settling, ModemType
<1>2. PICK r : r = [m.bearers[b] EXCEPT !.hanging = how] OBVIOUS
<1>3. r \in BearerType /\ r.by = m.bearers[b].by /\ r.status = m.bearers[b].status
  BY <1>1, <1>2 DEF BearerType
<1>4. PICK n : n = Hang(m, b, how) OBVIOUS
<1>5. n = WithBearers(m, m.list, PutBearer(m, b, r))
  BY <1>1, <1>2, <1>4 DEF Hang, WithBearers, PutBearer, ModemType
<1>6. BearerPut(m, n, b, r) BY <1>1, <1>3, <1>5, BearerPutEffect
<1>7. StatusKept(m, n, b, r) BY <1>1, <1>3, <1>6, BearerPutDown
<1>8. n \in ModemType /\ n.bearers[b] = r /\ Rest(n) /\ Shown(n) /\ Course(n, {})
  BY <1>3, <1>7 DEF StatusKept, Down
<1>9. MayTurn(n, b) BY <1>3, <1>8, UpMayTurn DEF Course
<1> QED BY <1>4, <1>8, <1>9, QuietStatusDown DEF Down

(* handle_disconnect of a bearer:                                           *)
LEMMA DisconnectBearerDown ==
  ASSUME Whole(modem), Down(modem), NEW b \in Bearers, DisconnectBearer(b)
  PROVE  Down(modem')
<1>1. modem \in ModemType /\ BearersOK(modem) BY DEF Whole, Fine, Sound
<1>2. Rest(modem) /\ Shown(modem) /\ Course(modem, {}) BY DEF Down
<1> QED BY <1>1, <1>2, DisconnectDown DEF DisconnectBearer, Starts, Takes

(* disconnect_ready and its kin:                                            *)
LEMMA HungUpDown ==
  ASSUME Whole(modem), Down(modem), NEW b \in Bearers, NEW ok \in BOOLEAN, HungUp(b, ok)
  PROVE  Down(modem')
<1>1. BearerOK(modem.bearers[b]) BY DEF Whole, Fine, Sound, BearersOK
<1>2. modem.bearers[b].status = "disconnecting" /\ ~modem.bearers[b].dialing
  BY <1>1 DEF BearerOK, HungUp
<1>3. Settling(modem, b, {}) BY <1>2, WholeSettling
<1>4. PICK s \in {"connected", "disconnected"} : s = IF ok THEN "disconnected" ELSE "connected" OBVIOUS
<1>5. modem' = Settle(modem, b, s) BY <1>4 DEF HungUp, Goes
<1> QED BY <1>2, <1>3, <1>5, SettleDown

(* mm_base_bearer_report_connection_status:                                 *)
LEMMA DroppedDown ==
  ASSUME Whole(modem), Down(modem), NEW b \in Bearers, Dropped(b)
  PROVE  Down(modem')
<1>1. BearerOK(modem.bearers[b]) BY DEF Whole, Fine, Sound, BearersOK
<1>2. modem.bearers[b].status = "connected" /\ ~modem.bearers[b].dialing
  BY <1>1 DEF BearerOK, Dropped
<1>3. Settling(modem, b, {}) BY <1>2, WholeSettling
<1>4. modem' = Settle(modem, b, "disconnected") BY DEF Dropped, Starts, Takes
<1> QED BY <1>2, <1>3, <1>4, SettleDown

(* mm_base_bearer_disconnect_force:                                         *)
LEMMA ForcedDown ==
  ASSUME Whole(modem), Down(modem), NEW b \in Bearers, Forced(b)
  PROVE  Down(modem')
<1>1. BearerOK(modem.bearers[b]) BY DEF Whole, Fine, Sound, BearersOK
<1>2. modem.bearers[b].status = "connected" /\ ~modem.bearers[b].dialing
  BY <1>1 DEF BearerOK, Forced
<1>3. Settling(modem, b, {}) BY <1>2, WholeSettling
<1>4. modem' = QuietStatus(Hang(modem, b, "force"), b, "disconnecting") BY DEF Forced, Starts, Takes
<1> QED BY <1>2, <1>3, <1>4, HangDown

(* connect_ready:                                                           *)
LEMMA ConnectReadyDown ==
  ASSUME Whole(modem), Down(modem), NEW b \in Bearers, NEW ok \in BOOLEAN, ConnectReady(b, ok)
  PROVE  Down(modem')
<1>1. modem \in ModemType /\ BearersOK(modem) /\ modem.bearers[b].dialing
  BY DEF Whole, Fine, Sound, ConnectReady
<1>2. modem.bearers[b] \in BearerType /\ BearerOK(modem.bearers[b]) BY <1>1 DEF BearersOK, ModemType
<1>3. PICK c \in Connects \union {None} : c = modem.bearers[b].connect BY <1>2 DEF BearerType
<1>4. PICK m : m = [modem EXCEPT !.bearers[b] = [@ EXCEPT !.dialing = FALSE, !.connect = None]] OBVIOUS
<1>5. PICK X : X = IF c = None THEN {} ELSE {c} OBVIOUS
<1>6. Settling(m, b, X) BY <1>1, <1>3, <1>4, <1>5, ConnectAnswered
<1>7. PICK r \in BearerType : /\ BearerPut(modem, m, b, r)
                              /\ r.by = modem.bearers[b].by /\ r.status = modem.bearers[b].status
  <2>1. Answered(modem, m, b) BY <1>1, <1>3, <1>4, ConnectAnswered
  <2> QED BY <2>1 DEF Answered
<1>8. StatusKept(modem, m, b, r) BY <1>1, <1>7, BearerPutDown
<1>9. Down(m) /\ m.bearers[b].status # "disconnected"
  BY <1>1, <1>2, <1>7, <1>8 DEF StatusKept, Down, BearerOK
<1>10. PICK n : n = IF ok /\ ~modem.bearers[b].cancelled THEN Settle(m, b, "connected")
                    ELSE IF modem.bearers[b].cancelled
                      THEN QuietStatus(Hang(m, b, "cancel"), b, "disconnecting")
                    ELSE Settle(m, b, "disconnected")
  OBVIOUS
<1>11. Down(n) /\ n \in ModemType
  <2>1. CASE ok /\ ~modem.bearers[b].cancelled
    <3>1. n = Settle(m, b, "connected") BY <1>10, <2>1
    <3>2. Down(n) BY <1>6, <1>9, <3>1, SettleDown
    <3>3. Fine(n, X, {}) BY <1>6, <3>1, SettleOK
    <3> QED BY <3>2, <3>3 DEF Fine, Sound
  <2>2. CASE modem.bearers[b].cancelled
    <3>1. n = QuietStatus(Hang(m, b, "cancel"), b, "disconnecting") BY <1>10, <2>2
    <3>2. Down(n) BY <1>6, <1>9, <3>1, HangDown
    <3>3. Fine(n, X, {}) BY <1>6, <3>1, HangOK
    <3> QED BY <3>2, <3>3 DEF Fine, Sound
  <2>3. CASE ~ok /\ ~modem.bearers[b].cancelled
    <3>1. n = Settle(m, b, "disconnected") BY <1>10, <2>3
    <3>2. Down(n) BY <1>6, <1>9, <3>1, SettleDown
    <3>3. Fine(n, X, {}) BY <1>6, <3>1, SettleOK
    <3> QED BY <3>2, <3>3 DEF Fine, Sound
  <2> QED BY <2>1, <2>2, <2>3
<1>12. modem' = IF c = None THEN n ELSE EndConnect(n, c)
  BY <1>3, <1>4, <1>10, Zenon DEF ConnectReady, Goes
<1>13. CASE c = None BY <1>11, <1>12, <1>13
<1>14. CASE c # None
  <2>1. c \in Connects /\ modem' = EndConnect(n, c) BY <1>12, <1>14
  <2> QED BY <1>11, <2>1, EndConnectDown
<1> QED BY <1>13, <1>14

(* update_registration_state:                                               *)
LEMMA ReportDown ==
  ASSUME Whole(modem), Down(modem), NEW r \in {"unknown", "searching", "home"}, Report(r)
  PROVE  Down(modem')
<1>1. modem \in ModemType /\ Fine(modem, {}, {}) /\ AllSleep(modem) BY DEF Whole, Fine, Sound
<1>2. CASE r # "home"
  <2>1. modem' = UpdateNonRegistered(modem, r) BY <1>2 DEF Report, Starts, Takes
  <2> QED BY <1>1, <1>2, <2>1, UpdateNonRegisteredDown
<1>3. CASE r = "home"
  <2>1. modem' = UpdateRegistered(modem) BY <1>3 DEF Report, Starts, Takes
  <2>2. CASE modem' = modem BY <2>2
  <2>3. CASE modem' = [modem EXCEPT !.reloading = TRUE, !.reloads = @ + 1]
    <3>1. OnlyNetwork(modem, modem') /\ modem'.enabled = modem.enabled
      BY <1>1, <2>3
         DEF ModemType, OnlyNetwork, SameState, SameWaits, SameOp, SameBearers, SameLists
    <3> QED BY <3>1, NetworkDown
  <2> QED BY <2>1, <2>2, <2>3 DEF UpdateRegistered
<1> QED BY <1>2, <1>3

(* update_registration_reload_current_registration_info_ready, which is      *)
(* dropped when the interface has been disabled meanwhile:                   *)
LEMMA RegistrationReloadedDown ==
  ASSUME Whole(modem), Down(modem), RegistrationReloaded
  PROVE  Down(modem')
<1>1. modem \in ModemType /\ Fine(modem, {}, {}) /\ AllSleep(modem) /\ ReloadOK(modem)
  BY DEF Whole, Fine, Sound
<1>2. modem.reloads = 1 BY <1>1 DEF RegistrationReloaded, ReloadOK
<1>3. PICK m : m = [modem EXCEPT !.reloads = @ - 1] OBVIOUS
<1>4. /\ m \in ModemType /\ m.reloads = 0 /\ m.enabled = modem.enabled /\ OnlyNetwork(modem, m)
  BY <1>1, <1>2, <1>3
     DEF ModemType, OnlyNetwork, SameState, SameWaits, SameOp, SameBearers, SameLists
<1>5. Down(m) BY <1>4, NetworkDown
<1>6. CASE ~m.enabled
  <2>1. modem' = m BY <1>3, <1>6 DEF RegistrationReloaded, Goes
  <2> QED BY <1>5, <2>1
<1>7. CASE m.enabled
  <2>1. PICK n : n = [m EXCEPT !.registration = "home"] OBVIOUS
  <2>2. n \in ModemType /\ n.reloads = 0 /\ OnlyNetwork(m, n) /\ n.enabled = m.enabled
    BY <1>4, <2>1
       DEF ModemType, OnlyNetwork, SameState, SameWaits, SameOp, SameBearers, SameLists
  <2>3. ReloadOK(m) /\ ReloadOK(n) BY <1>4, <2>2 DEF ReloadOK
  <2>4. Whole(m) BY <1>1, <1>4, <2>3, NetworkFrame DEF Whole, AllSleep, Asleep
  <2>5. Whole(n) BY <1>4, <2>2, <2>3, <2>4, NetworkFrame DEF Whole, AllSleep, Asleep
  <2>6. Down(n) BY <1>5, <2>2, NetworkDown
  <2>7. n.state # "disabled" BY <1>7, <2>2, <2>6 DEF Down, Rest
  <2>8. PICK p : p = UpdateSubsystemState(n, "registered") OBVIOUS
  <2>9. Fine(p, {}, {}) BY <2>2, <2>5, <2>8, UpdateSubsystemStateOK DEF Whole, Plain
  <2>10. Down(p) BY <2>2, <2>5, <2>6, <2>7, <2>8, UpdateSubsystemStateDown DEF Whole, Plain
  <2>11. modem' = [p EXCEPT !.reloading = FALSE]
    BY <1>3, <1>7, <2>1, <2>8 DEF RegistrationReloaded, Goes
  <2>12. p \in ModemType BY <2>9 DEF Fine, Sound
  <2>13. OnlyNetwork(p, modem') /\ modem'.enabled = p.enabled
    BY <2>11, <2>12
       DEF ModemType, OnlyNetwork, SameState, SameWaits, SameOp, SameBearers, SameLists
  <2> QED BY <2>10, <2>13, NetworkDown
<1> QED BY <1>6, <1>7

----------------------------------------------------------------------------
(* A step that only may connect a bearer if it might before adds nobody.      *)
LEMMA FollowsDialing ==
  ASSUME NEW m, NEW y, NEW U, Follows(m, y, U), \A c \in U : MayDial(m, c)
  PROVE  Follows(m, y, {})
BY DEF Follows

(* An attempt that waits for the sequence or its bearer starts nothing.       *)
LEMMA SetStepFollows ==
  ASSUME NEW m \in ModemType, NEW c \in Connects, m.connects[c].seen = None,
         NEW step \in {"connect", "enabling"}, NEW y, y = SetStep(m, c, step)
  PROVE  Follows(m, y, {}) /\ OnlyWaits(m, y)
<1>1. PICK r : r = AtStep(m, c, step, None) OBVIOUS
<1>2. /\ r \in ConnectType /\ r.step = step
      /\ r.cancellable = m.connects[c].cancellable /\ r.cancelled = m.connects[c].cancelled
  BY <1>1, AtStepType DEF Steps
<1>3. PICK f : f = PutConnect(m, c, r) OBVIOUS
<1>4. f \in [Connects -> ConnectType] /\ f[c] = r /\ \A d \in Connects \ {c} : f[d] = m.connects[d]
  BY <1>2, <1>3 DEF PutConnect, ModemType
<1>5. y = WithWaits(m, m.waiters, m.ahead, m.ongoing, f) BY <1>1, <1>3, SetStepIs DEF Steps
<1>6. /\ m.waiters \in SUBSET Waiters /\ m.ahead \in SUBSET Connects
      /\ m.ongoing \in Connects \union {None}
  BY DEF ModemType
<1>7. y.ahead = m.ahead /\ y.ongoing = m.ongoing
  BY ONLY <1>4, <1>5, <1>6, PutWaits, m \in ModemType
<1>8. y.connects = f /\ OnlyWaits(m, y) BY ONLY <1>4, <1>5, <1>6, PutWaits, m \in ModemType
<1>9. \A d \in Connects : /\ y.connects[d].cancellable = m.connects[d].cancellable
                          /\ y.connects[d].cancelled = m.connects[d].cancelled
                          /\ MayDial(y, d) => MayDial(m, d)
  BY <1>2, <1>4, <1>8 DEF MayDial, Dialing
<1> QED BY <1>7, <1>8, <1>9 DEF Follows

(* connection_step of an attempt that might dial, or does not yet.            *)
LEMMA ConnectionStepDown ==
  ASSUME NEW m, NEW c \in Connects, m \in ModemType, ConnectsBut(m, c), Free(m, c), Down(m),
         NEW step \in {"unlock", "initialized", "enable", "enabled", "pausing", "registering", "bearer"},
         Dialers(m, c, step) # {} => MayDial(m, c) \/ (m.state \in Up /\ ~Stopping(m)),
         NEW y, y = ConnectionStep(m, c, step)
  PROVE  Down(y)
<1>1. Proceeded(m, y, c, step) BY ConnectionStepProceeds
<1>2. OnlyWaits(m, y) BY <1>1 DEF Proceeded, Moved
<1>3. m.connects[c].seen = None BY DEF Free
<1>4. PICK U : U = Dialers(m, c, step) OBVIOUS
<1>5. Follows(m, y, U) BY <1>3, <1>4, ConnectionStepFollows
<1>6. U \subseteq {c} BY <1>4 DEF Dialers
<1>7. CASE MayDial(m, c)
  <2>1. Follows(m, y, {}) BY <1>5, <1>6, <1>7, FollowsDialing
  <2> QED BY <1>2, <2>1, FollowsDown
<1>8. CASE ~MayDial(m, c) BY <1>2, <1>4, <1>5, <1>8, FollowsDown
<1> QED BY <1>7, <1>8

(* connect_auth_ready: while a sequence waits to disable the modem no attempt *)
(* begins that need not wait itself.                                        *)
LEMMA SimpleConnectDown ==
  ASSUME Whole(modem), Down(modem), Straight, NEW c \in Connects, SimpleConnect(c)
  PROVE  Down(modem')
<1>1. /\ modem \in ModemType /\ modem.connects[c].step = "idle" /\ modem.ongoing = None
      /\ modem.connects[c] \in ConnectType /\ ConnectsOK(modem) /\ ConnectOK(modem, c)
      /\ OpOK(modem) /\ OpSleeps(modem)
  BY DEF Whole, Fine, Sound, ConnectsOK, SimpleConnect, ModemType, AllSleep
<1>2. PICK r : r = [modem.connects[c] EXCEPT !.cancellable = TRUE] OBVIOUS
<1>3. /\ r \in ConnectType /\ r.cancellable = TRUE /\ r.step = "idle" /\ r.seen = modem.connects[c].seen
      /\ r.cancelled = modem.connects[c].cancelled /\ r.bearer = modem.connects[c].bearer
  BY <1>1, <1>2 DEF ConnectType
<1>4. PICK m : m = [modem EXCEPT !.ongoing = c, !.connects[c] = r] OBVIOUS
<1>5. /\ m \in ModemType /\ m.ongoing = c /\ m.connects[c] = r
      /\ \A d \in Connects \ {c} : m.connects[d] = modem.connects[d]
      /\ m.op = modem.op /\ m.state = modem.state /\ m.waiters = modem.waiters /\ m.ahead = modem.ahead
      /\ m.list = modem.list /\ m.bearers = modem.bearers /\ m.lists = modem.lists
      /\ m.enabled = modem.enabled /\ m.restored = modem.restored
  BY <1>1, <1>3, <1>4 DEF ModemType
<1>6. ~r.cancelled /\ r.seen = None /\ r.bearer = None /\ c \notin modem.waiters /\ modem.op.by # c
  BY <1>1, <1>3 DEF ConnectOK
<1>7. Free(m, c) BY <1>3, <1>5, <1>6 DEF Free
<1>8. ConnectsBut(m, c)
  <2>1. \A d \in Connects \ {c} : ConnectOK(m, d) BY <1>1, <1>5 DEF ConnectsOK, ConnectOK
  <2> QED BY <1>1, <1>3, <1>5, <1>6, <2>1 DEF ConnectsBut, ConnectsOK
<1>9. Stopping(modem) => modem.op.seen = None BY DEF Straight, SimpleConnect, Takes, Stopping
<1>10. c \notin modem.ahead BY <1>1, <1>6 DEF ConnectsOK
<1>11. \A d \in Connects : MayDial(m, d) => MayDial(modem, d)
  BY <1>3, <1>5 DEF MayDial, Dialing
<1>12. Rest(m) BY <1>5, <1>11 DEF Down, Rest, Idle
<1>13. Shown(m) BY <1>5, ShownSame DEF Down
<1>14. Halting(m)
  BY <1>5, <1>9, <1>10, <1>11 DEF Down, Course, Halting, Stopping
<1>15. Emptied(m) /\ Seeing(m) /\ Starting(m) BY <1>5 DEF Down, Course, Emptied, Idle, Seeing, Starting
<1>16. Leaving(m, {}) BY <1>5 DEF Down, Course, Leaving
<1>17. Down(m) BY <1>12, <1>13, <1>14, <1>15, <1>16 DEF Down, Course
<1>18. PICK step \in {"unlock", "initialized", "enable", "enabled", "pausing", "registering", "bearer"} :
         step = FirstStep(modem.state)
  BY DEF FirstStep
<1>19. modem' = ConnectionStep(m, c, step) BY <1>2, <1>4, <1>18, Zenon DEF SimpleConnect, Takes
<1>20. Dialers(m, c, step) # {} => m.state \in Up \ Intermediate
  <2>1. modem.state \in ToSet(States) BY <1>1 DEF ModemType
  <2> QED BY <1>5, <1>18, <2>1, StateSet DEF Dialers, FirstStep, Up, Intermediate
<1>21. m.state \in Up \ Intermediate => ~Stopping(m)
  BY <1>1, <1>5, <1>9, ModemStateAssumption DEF Stopping, OpOK, OpSleeps, Wanted, Up
<1> QED BY <1>5, <1>7, <1>8, <1>17, <1>19, <1>20, <1>21, ConnectionStepDown

(* wait_for_initialized_ready and wait_for_enabled_ready:                   *)
LEMMA ConnectSeenDown ==
  ASSUME Whole(modem), Down(modem), NEW c \in Connects, ConnectSeen(c)
  PROVE  Down(modem')
<1>1. modem \in ModemType /\ ConnectsOK(modem) /\ ConnectOK(modem, c) /\ modem.connects[c].seen # None
  BY DEF Whole, Fine, Sound, ConnectsOK, ConnectSeen
<1>2. modem.connects[c].step \in {"initialized", "enabled"} BY <1>1 DEF ConnectOK
<1>3. PICK s \in ToSet(States) : s = modem.connects[c].seen BY <1>1 DEF ModemType, ConnectType
<1>4. modem' = ConnectTold(modem, c, s) BY <1>3 DEF ConnectSeen, Goes
<1>5. PICK step \in {"enable", "pausing"} : Proceeded(modem, modem', c, step)
  BY <1>1, <1>2, <1>4, ConnectToldProceeds
<1>6. OnlyWaits(modem, modem') BY <1>5 DEF Proceeded, Moved
<1>7. Follows(modem, modem', Risers(modem, c, s)) BY <1>1, <1>2, <1>4, ConnectToldFollows
<1>8. \A d \in Risers(modem, c, s) : MayDial(modem, d) BY <1>3 DEF Risers, MayDial, Dialing
<1>9. Follows(modem, modem', {}) BY <1>7, <1>8, FollowsDialing
<1> QED BY <1>6, <1>9, FollowsDown

(* update_lock_info_ready:                                                  *)
LEMMA UnlockedDown ==
  ASSUME Whole(modem), Down(modem), NEW c \in Connects, NEW ok \in BOOLEAN, Unlocked(c, ok)
  PROVE  Down(modem')
<1>1. modem.connects[c].step = "unlock" BY DEF Unlocked
<1>2. Free(modem, c) /\ ConnectsBut(modem, c) /\ modem \in ModemType BY <1>1, WholeFree
<1>3. CASE ok
  <2>1. modem' = ConnectionStep(modem, c, "initialized") BY <1>3 DEF Unlocked, Goes
  <2>2. Dialers(modem, c, "initialized") = {} BY DEF Dialers
  <2> QED BY <1>2, <2>1, <2>2, ConnectionStepDown
<1>4. CASE ~ok
  BY <1>2, <1>4, EndConnectDown DEF Unlocked, Goes
<1> QED BY <1>3, <1>4

(* An attempt that goes on after its pause might dial.                       *)
LEMMA DialersDial ==
  ASSUME NEW m, NEW c \in Connects, NEW step, Dialers(m, c, step) # {},
         m.connects[c].step \in {"pausing", "registering", "bearer"}
  PROVE  MayDial(m, c)
BY DEF Dialers, MayDial, Dialing

(* wait_after_enabled_ready:                                                *)
LEMMA PausedDown ==
  ASSUME Whole(modem), Down(modem), NEW c \in Connects, Paused(c)
  PROVE  Down(modem')
<1>1. modem.connects[c].step = "pausing" BY DEF Paused
<1>2. Free(modem, c) /\ ConnectsBut(modem, c) /\ modem \in ModemType BY <1>1, WholeFree
<1>3. modem' = ConnectionStep(modem, c, "registering") BY DEF Paused, Goes
<1> QED BY <1>1, <1>2, <1>3, DialersDial, ConnectionStepDown

(* CONNECTION_STEP_ENABLE, with the lock:                                   *)
LEMMA ConnectEnablesDown ==
  ASSUME Whole(modem), Down(modem), NEW c \in Connects, ConnectEnables(c)
  PROVE  Down(modem')
<1>1. modem.connects[c].step = "enable" /\ modem.op = NoOp
  BY DEF ConnectEnables, Whole, Fine, OpOK
<1>2. Free(modem, c) /\ But(modem, c) /\ ConnectsBut(modem, c) /\ modem \in ModemType
  BY <1>1, WholeFree
<1>3. PICK m : m = SetStep(modem, c, "enabling") OBVIOUS
<1>4. m \in ModemType /\ m.op = NoOp BY <1>1, <1>2, <1>3, SetStepFrame DEF Steps
<1>5. Follows(modem, m, {}) /\ OnlyWaits(modem, m) BY <1>2, <1>3, SetStepFollows DEF Free
<1>6. Down(m) BY <1>5, FollowsDown
<1>7. modem' = StartOp(m, "enable", c) BY <1>3 DEF ConnectEnables, Goes
<1> QED BY <1>4, <1>6, <1>7, StartOpDown

(* register_in_3gpp_or_cdma_network_ready:                                  *)
LEMMA RegisteredDown ==
  ASSUME Whole(modem), Down(modem), NEW c \in Connects, NEW ok \in BOOLEAN, Registered(c, ok)
  PROVE  Down(modem')
<1>1. modem.connects[c].step = "registering" BY DEF Registered
<1>2. Free(modem, c) /\ But(modem, c) /\ ConnectsBut(modem, c) /\ modem \in ModemType
  BY <1>1, WholeFree
<1>3. PICK m : m = ConnectionStep(modem, c, "bearer") OBVIOUS
<1>4. Whole(m) BY <1>1, <1>2, <1>3, ConnectionStepWhole
<1>5. Down(m) BY <1>1, <1>2, <1>3, DialersDial, ConnectionStepDown
<1>6. Proceeded(modem, m, c, "bearer") BY <1>2, <1>3, ConnectionStepProceeds
<1>7. m \in ModemType /\ OpOK(m) /\ BearersOK(m) /\ m.state = modem.state
  BY <1>4, <1>6 DEF Whole, Fine, Sound, Proceeded, Moved, OnlyWaits, SameState
<1>8. m.connects[c].step # "idle" => m.state \in Up \union {"unknown"}
  <2>1. CASE modem.connects[c].cancellable /\ modem.connects[c].cancelled
    <3>1. m = EndConnect(modem, c) BY <1>3, <2>1 DEF ConnectionStep
    <3> QED BY <1>2, <3>1, EndConnectEffect DEF NoAttempt
  <2>2. CASE ~(modem.connects[c].cancellable /\ modem.connects[c].cancelled)
    <3>1. MayDial(modem, c) BY <1>1, <1>2, <2>2 DEF MayDial, Dialing, Free
    <3> QED BY <1>7, <3>1 DEF Down, Rest
  <2> QED BY <2>1, <2>2
<1>9. CASE ~ok
  BY <1>2, <1>9, EndConnectDown DEF Registered, Goes
<1>10. CASE ok /\ modem' = m BY <1>5, <1>10
<1>11. ASSUME NEW b \in Listed(modem), modem' = ConnectWith(m, c, b) PROVE Down(modem')
  <2>1. b \in Bearers BY <1>2 DEF Listed, ToSet, ModemType
  <2> QED BY <1>5, <1>7, <1>8, <1>11, <2>1, ConnectWithDown
<1> QED BY <1>3, <1>9, <1>10, <1>11 DEF Registered, Goes

(* create_bearer_ready:                                                     *)
LEMMA BearerCreatedDown ==
  ASSUME Whole(modem), Down(modem), NEW c \in Connects, BearerCreated(c)
  PROVE  Down(modem')
<1>1. modem.connects[c].step = "bearer" BY DEF BearerCreated
<1>2. Free(modem, c) /\ But(modem, c) /\ ConnectsBut(modem, c) /\ modem \in ModemType
  BY <1>1, WholeFree
<1>3. CASE modem' = EndConnect(modem, c) BY <1>2, <1>3, EndConnectDown
<1>4. ASSUME NEW b \in Bearers,
             modem' = ConnectWith(ConnectionStep(AddBearer(modem, b), c, "connect"), c, b)
      PROVE  Down(modem')
  <2>1. PICK n : n = AddBearer(modem, b) OBVIOUS
  <2>2. Whole(n) /\ But(n, c) /\ ConnectsBut(n, c) /\ Free(n, c) /\ n.connects = modem.connects
    BY <1>1, <1>2, <2>1, AddBearerFrame
  <2>3. n \in ModemType /\ OpOK(n) /\ BearersOK(n) BY <2>2 DEF But
  <2>4. Down(n)
    <3>1. BearersOK(modem) BY DEF Whole, Fine, Sound
    <3> QED BY <1>2, <2>1, <3>1, AddBearerDown
  <2>5. PICK m : m = ConnectionStep(n, c, "connect") OBVIOUS
  <2>6. modem' = ConnectWith(m, c, b) BY <1>4, <2>1, <2>5
  <2>7. CASE n.connects[c].cancellable /\ n.connects[c].cancelled
    <3>1. m = EndConnect(n, c) BY <2>5, <2>7 DEF ConnectionStep
    <3>2. Down(m) BY <2>3, <2>4, <3>1, EndConnectDown
    <3>3. m.connects[c] = NoAttempt BY <2>3, <3>1, EndConnectEffect
    <3>4. modem' = m BY <2>6, <3>3 DEF ConnectWith, NoAttempt
    <3> QED BY <3>2, <3>4
  <2>8. CASE ~(n.connects[c].cancellable /\ n.connects[c].cancelled)
    <3>1. m = SetStep(n, c, "connect") BY <2>5, <2>8 DEF ConnectionStep
    <3>2. Follows(n, m, {}) /\ OnlyWaits(n, m) BY <2>2, <2>3, <3>1, SetStepFollows DEF Free
    <3>3. Down(m) BY <2>4, <3>2, FollowsDown
    <3>4. m \in ModemType /\ But(m, c) BY <2>2, <3>1, SetStepFrame DEF Steps
    <3>5. OpOK(m) /\ BearersOK(m) BY <3>4 DEF But
    <3>6. m.state \in Up \union {"unknown"}
      <4>1. MayDial(n, c) BY <1>1, <2>2, <2>8 DEF MayDial, Dialing, Free
      <4>2. n.state \in Up \union {"unknown"} BY <2>4, <4>1 DEF Down, Rest
      <4> QED BY <3>2, <4>2 DEF OnlyWaits, SameState
    <3> QED BY <2>6, <3>3, <3>4, <3>5, <3>6, ConnectWithDown
  <2> QED BY <2>7, <2>8
<1> QED BY <1>3, <1>4 DEF BearerCreated, Goes

(* disconnect_auth_ready:                                                   *)
LEMMA SimpleDisconnectDown ==
  ASSUME Whole(modem), Down(modem), SimpleDisconnect
  PROVE  Down(modem')
<1>1. PICK m : m = AbortOngoing(modem) OBVIOUS
<1>2. Whole(m) /\ m.lists = modem.lists BY <1>1, AbortOngoingOK
<1>3. m \in ModemType /\ Sound(m, {}) /\ OpOK(m) /\ ListsOK(m, {}) /\ LinkOK(m)
  BY <1>2 DEF Whole, Fine, Sound
<1>4. Down(m)
  <2>1. modem \in ModemType BY DEF Whole, Fine, Sound
  <2> QED BY <1>1, <2>1, AbortOngoingDown
<1>5. modem' = DisconnectBearers(m, "user") /\ ~m.lists["user"].busy
  BY <1>1, <1>2 DEF SimpleDisconnect, Starts, Takes
<1>6. Rest(m) /\ Shown(m) /\ Course(m, {}) BY <1>4 DEF Down
<1> QED BY <1>3, <1>5, <1>6, DisconnectBearersDown

----------------------------------------------------------------------------
(* An initialized modem is down.                                            *)
LEMMA InitDown ==
  ASSUME Init
  PROVE  Down(modem)
<1>1. /\ modem.state = "disabled" /\ modem.restored = FALSE /\ modem.ahead = {} /\ modem.op = NoOp
      /\ modem.list = <<>> /\ modem.enabled = FALSE
      /\ modem.bearers = [b \in Bearers |-> NoBearer]
      /\ modem.ongoing = None /\ modem.connects = [c \in Connects |-> NoAttempt]
  BY DEF Init
<1>2. /\ NoOp.kind = "none" /\ NoOp.step = "none" /\ NoOp.seen = None
      /\ NoBearer.status = "disconnected"
  BY DEF NoOp, NoBearer
<1>3. Idle(modem) BY <1>1, <1>2 DEF Idle
<1>4. \A c \in Connects : ~MayDial(modem, c) /\ ~modem.connects[c].cancellable
  BY <1>1, IdleAttempt DEF MayDial
<1>5. Rest(modem) BY <1>1, <1>3, <1>4 DEF Rest
<1>6. Shown(modem)
  <2>1. Listed(modem) = {} BY <1>1 DEF Listed, ToSet
  <2> QED BY <2>1 DEF Shown, Connected
<1>7. Course(modem, {})
  BY <1>1, <1>2, <1>4 DEF Course, Halting, Stopping, Emptied, Seeing, Starting, Leaving
<1> QED BY <1>5, <1>6, <1>7 DEF Down

(* A modem at rest is down.                                                 *)
LEMMA AtRestDown ==
  ASSUME NEW m, Whole(m), AtRest(m)
  PROVE  Down(m)
<1>1. m \in ModemType /\ m.op = NoOp /\ ConnectsOK(m)
  BY DEF Whole, Fine, Sound, OpOK, AtRest
<1>2. NoOp.kind = "none" /\ NoOp.step = "none" /\ NoOp.seen = None BY DEF NoOp
<1>3. Idle(m) BY DEF AtRest, Idle
<1>4. ASSUME NEW c \in Connects PROVE ~MayDial(m, c)
  BY <1>1, <1>4 DEF AtRest, MayDial, Dialing
<1>5. Rest(m) BY <1>3, <1>4 DEF Rest, AtRest
<1>6. Shown(m) BY <1>1, <1>3, IdleShows DEF Shown
<1>7. Course(m, {})
  BY <1>1, <1>2, <1>3, <1>4, ModemStateAssumption
     DEF AtRest, Course, Halting, Stopping, Emptied, Seeing, Starting, Leaving
<1> QED BY <1>5, <1>6, <1>7 DEF Down

(* It stays down in every step, if no request strays.                        *)
LEMMA NextDown ==
  ASSUME Whole(modem), Down(modem), Straight, Next
  PROVE  Down(modem')
<1>1. CASE Operate
  BY <1>1, EnableDown, DisableDown, OpSeenDown, InterfacesDoneDown, WaitExpiredDown,
     EnablingStartedDown, ModemEnabledDown, ListAnsweredDown DEF Operate
<1>2. CASE HandleBearer
  BY <1>2, CreateBearerDown, ConnectBearerDown, DisconnectBearerDown, DroppedDown, ForcedDown,
     ConnectReadyDown, HungUpDown DEF HandleBearer
<1>3. CASE Register
  BY <1>3, ReportDown, RegistrationReloadedDown DEF Register
<1>4. CASE Connect
  BY <1>4, SimpleConnectDown, ConnectSeenDown, ConnectEnablesDown, PausedDown, BearerCreatedDown,
     UnlockedDown, RegisteredDown, SimpleDisconnectDown DEF Connect
<1> QED BY <1>1, <1>2, <1>3, <1>4 DEF Next

(* A step takes a request or answers one.                                   *)
LEMMA NextTakes ==
  ASSUME Next
  PROVE  \E m, stray : Takes(m, stray) \/ Goes(m)
<1>1. CASE Operate
  BY <1>1 DEF Operate, Enable, Disable, OpSeen, InterfacesDone, WaitExpired, EnablingStarted,
              ModemEnabled, ListAnswered, Starts
<1>2. CASE HandleBearer
  BY <1>2 DEF HandleBearer, CreateBearer, ConnectBearer, DisconnectBearer, Dropped, Forced,
              ConnectReady, HungUp, Starts
<1>3. CASE Register
  BY <1>3 DEF Register, Report, RegistrationReloaded, Starts
<1>4. CASE Connect
  BY <1>4 DEF Connect, SimpleConnect, ConnectSeen, ConnectEnables, Paused, BearerCreated,
              Unlocked, Registered, SimpleDisconnect, Starts
<1> QED BY <1>1, <1>2, <1>3, <1>4 DEF Next

(* A stray is remembered until the modem is at rest.                         *)
LEMMA StrayedStays ==
  ASSUME Next, ~strayed', ~AtRest(modem')
  PROVE  ~strayed
<1>1. PICK m, stray : Takes(m, stray) \/ Goes(m) BY NextTakes
<1>2. modem' = m BY <1>1 DEF Takes, Goes
<1>3. ~AtRest(m) BY <1>2
<1> QED BY <1>1, <1>3 DEF Takes, Goes

(* What the theorems below rest on.                                         *)
Orderly == ~strayed => Down(modem)

(* It holds whatever the clients ask for.                                   *)
THEOREM DownInvariance == Spec => []Orderly
<1>1. Init => Orderly BY InitDown DEF Orderly
<1>2. IInv /\ IInv' /\ Orderly /\ [Next]_vars => Orderly'
  <2> SUFFICES ASSUME IInv, Whole(modem'), Orderly, [Next]_vars, ~strayed' PROVE Down(modem')
    BY DEF Orderly, IInv, Whole
  <2>1. Whole(modem) BY DEF IInv, Whole
  <2>2. CASE Next /\ AtRest(modem') BY <2>1, <2>2, AtRestDown
  <2>3. CASE Next /\ ~AtRest(modem')
    <3>1. ~strayed BY <2>3, StrayedStays
    <3> QED BY <2>1, <2>3, <3>1, NextDown DEF Orderly, Straight
  <2>4. CASE UNCHANGED vars BY <2>4 DEF vars, Orderly
  <2> QED BY <2>2, <2>3, <2>4
<1> QED BY <1>1, <1>2, Invariance, PTL DEF Spec

(* A disabled modem has no connected bearer, until a request strays           *)
(* (disabling_step, mm_bearer_list_disconnect_bearers, abort_ongoing).       *)
THEOREM SpecDisabledIsDisconnected == Spec => []DisabledIsDisconnected
<1>1. IInv /\ Orderly => DisabledIsDisconnected
  BY IdleShows DEF IInv, Fine, Sound, Orderly, Down, Rest, DisabledIsDisconnected
<1> QED BY <1>1, Invariance, DownInvariance, PTL

(* While a bearer is connected the modem is shown connected, until a        *)
(* sequence fails or a request strays (update_state_internal,               *)
(* bearer_status_changed).                                                   *)
THEOREM SpecConnectedIsShown == Spec => []ConnectedIsShown
<1>1. Orderly => ConnectedIsShown
  BY DEF Orderly, Down, Shown, ConnectedIsShown
<1> QED BY <1>1, DownInvariance, PTL

----------------------------------------------------------------------------
(* A modem that is disabled can only begin to be enabled.                   *)
Stays(m) == m.state \in {"disabled", "enabling"}

(* Nothing is under way in a disabled modem.                                *)
LEMMA DisabledIsIdle ==
  ASSUME NEW m, Whole(m), Down(m), m.state = "disabled"
  PROVE  /\ m \in ModemType /\ OpOK(m) /\ ConnectsOK(m) /\ LinkOK(m) /\ OpSleeps(m)
         /\ Idle(m) /\ ~m.enabled /\ NobodyDials(m)
         /\ m.op.step \in {"none", "waiting"} /\ ~m.lists["op"].busy
         /\ \A b \in Bearers : /\ m.bearers[b].status = "disconnected"
                               /\ ~m.bearers[b].dialing /\ m.bearers[b].hanging = "no"
<1>1. /\ m \in ModemType /\ OpOK(m) /\ ConnectsOK(m) /\ LinkOK(m) /\ OpSleeps(m) /\ BearersOK(m)
      /\ Rest(m)
  BY DEF Whole, Fine, Sound, AllSleep, Down
<1>2. Idle(m) /\ ~m.enabled /\ NobodyDials(m) BY <1>1, DisabledRest
<1>3. m.op.kind \in {"none", "enable", "disable"} BY <1>1 DEF ModemType, OpType
<1>4. m.op.step \in {"none", "waiting"} BY <1>1, <1>3 DEF OpOK, Undertaken, NoOp
<1>5. ~m.lists["op"].busy BY <1>1, <1>4 DEF LinkOK
<1>6. ASSUME NEW b \in Bearers
      PROVE  /\ m.bearers[b].status = "disconnected"
             /\ ~m.bearers[b].dialing /\ m.bearers[b].hanging = "no"
  BY <1>1, <1>2 DEF Idle, BearersOK, BearerOK
<1> QED BY <1>1, <1>2, <1>4, <1>5, <1>6

(* No request changes the state by itself:                                  *)
LEMMA StartOpState ==
  ASSUME NEW m \in ModemType, NEW kind, NEW by, NEW y, y = StartOp(m, kind, by)
  PROVE  y.state = m.state
<1>1. PICK o : o = [NoOp EXCEPT !.kind = kind, !.by = by, !.step = "waiting",
                                !.seen = IF m.state \in Intermediate THEN None ELSE m.state]
  OBVIOUS
<1>2. PICK n : n = [m EXCEPT !.op = o] OBVIOUS
<1>3. n.state = m.state BY <1>2 DEF ModemType
<1>4. y = n \/ \E k, a : y = [n EXCEPT !.waiters = k, !.ahead = a]
  BY <1>1, <1>2 DEF StartOp
<1> QED BY <1>2, <1>3, <1>4 DEF ModemType

(* a bearer that is idle is not disconnected once more,                     *)
LEMMA IdleDisconnectNext ==
  ASSUME NEW m \in ModemType, Idle(m), NEW y, y = DisconnectNext(m, "user")
  PROVE  y.state = m.state
<1>1. PICK left \in Seq(Bearers) : left = m.lists["user"].pending BY DEF ModemType, ListType
<1>2. CASE left = <<>>
  <2>1. y = ListDone(m, "user", TRUE) BY <1>1, <1>2 DEF DisconnectNext
  <2> QED BY <2>1 DEF ListDone, ModemType
<1>3. CASE left # <<>>
  <2>1. PICK p : p = Tail(left) OBVIOUS
  <2>2. PICK b \in Bearers : b = Head(left) BY <1>3, HeadTailProperties
  <2>3. PICK n : n = Begun(m, "user", p) OBVIOUS
  <2>4. y = Disconnect(n, b, "user") BY <1>1, <1>3, <2>1, <2>2, <2>3, Zenon DEF DisconnectNext, Begun
  <2>5. n.state = m.state /\ n.bearers = m.bearers /\ DOMAIN n = DOMAIN m BY <2>3 DEF Begun, ModemType
  <2>6. y = SetAnswer(n, "user", "ok") BY <2>4, <2>5 DEF Disconnect, Idle
  <2>7. y.state = n.state BY <2>5, <2>6 DEF SetAnswer, ModemType
  <2> QED BY <2>5, <2>7
<1> QED BY <1>2, <1>3

(* nor are all of them.                                                     *)
LEMMA IdleDisconnectBearers ==
  ASSUME NEW m \in ModemType, Idle(m), NEW y, y = DisconnectBearers(m, "user")
  PROVE  y.state = m.state
<1>1. PICK p \in Seq(Bearers) : p = Reverse(m.list) BY ReverseListed DEF ModemType
<1>2. PICK r : r = [busy |-> TRUE, pending |-> p, answer |-> "none"] OBVIOUS
<1>3. r \in ListType BY <1>2 DEF ListType
<1>4. PICK n : n = Begun(m, "user", p) OBVIOUS
<1>5. n = WithLists(m, PutList(m, "user", r)) BY <1>2, <1>4 DEF Begun, WithLists, PutList
<1>6. ListPut(m, n, "user", r) BY <1>3, <1>5, ListPutEffect
<1>7. n \in ModemType /\ n.state = m.state /\ n.bearers = m.bearers
  BY <1>6 DEF ListPut, OnlyLists, SameState, SameBearers
<1>8. CASE m.list = <<>>
  <2>1. y = SetAnswer(n, "user", "ok") BY <1>1, <1>4, <1>8, Zenon DEF DisconnectBearers, Begun
  <2>2. y.state = n.state BY <1>7, <2>1 DEF SetAnswer, ModemType
  <2> QED BY <1>7, <2>2
<1>9. CASE m.list # <<>>
  <2>1. y = DisconnectNext(n, "user") BY <1>1, <1>4, <1>9, Zenon DEF DisconnectBearers, Begun
  <2>2. Idle(n) BY <1>7 DEF Idle
  <2>3. y.state = n.state BY <1>7, <2>1, <2>2, IdleDisconnectNext
  <2> QED BY <1>7, <2>3
<1> QED BY <1>8, <1>9

(* The sequence begins or is over at once,                                  *)
LEMMA OpSeenStays ==
  ASSUME Whole(modem), Down(modem), modem.state = "disabled", OpSeen
  PROVE  Stays(modem')
<1>1. modem \in ModemType /\ OpOK(modem) BY DisabledIsIdle
<1>2. Sound(modem, {}) /\ ListsOK(modem, {}) BY DEF Whole, Fine
<1>3. modem.op.seen = "disabled" BY DEF OpSeen, Down, Course, Seeing
<1>4. modem' = OpTold(modem, "disabled") BY <1>3 DEF OpSeen, Goes
<1>5. PICK n : n = WaitOver(modem, "disabled") OBVIOUS
<1>6. "disabled" \in ToSet(States) /\ "enabling" \in ToSet(States) BY StateSet
<1>7. n \in ModemType /\ n.state = "disabled" /\ n.op.kind = modem.op.kind /\ Sound(n, {})
  BY <1>1, <1>2, <1>5, <1>6, StopWaitingOp
<1>8. modem.op.kind \in {"none", "enable", "disable"} BY <1>1 DEF ModemType, OpType
<1>9. modem.op.kind # "none" BY <1>1, <1>3, ModemStateAssumption DEF OpOK, NoOp, OpSeen
<1>10. CASE modem.op.kind = "enable"
  <2>1. PICK p : p = SetState(n, "enabling") OBVIOUS
  <2>2. p.state = "enabling" /\ p \in ModemType BY <1>6, <1>7, <2>1, SetStateEffect DEF Plain
  <2>3. ~(Level("disabled") >= Level("enabled")) BY Levels
  <2>4. modem' = OpStep(p, "starting")
    BY <1>4, <1>5, <1>10, <2>1, <2>3, Zenon DEF OpTold, WaitOver
  <2>5. modem'.state = p.state BY <2>2, <2>4 DEF OpStep, ModemType
  <2> QED BY <2>2, <2>5 DEF Stays
<1>11. CASE modem.op.kind = "disable"
  <2>1. modem' = OpSucceeded(n) BY <1>4, <1>5, <1>11, Zenon DEF OpTold, WaitOver
  <2>2. PICK p : p = SetState(n, "disabled") OBVIOUS
  <2>3. p.state = "disabled" /\ p \in ModemType /\ OnlyState(n, p)
    BY <1>6, <1>7, <2>2, SetStateEffect DEF Plain
  <2>4. modem' = OpDone(p, TRUE)
    BY <1>7, <1>11, <2>1, <2>2, <2>3 DEF OpSucceeded, TellOthers
  <2>5. ConnectsOK(p)
    BY <1>7, <2>3 DEF Sound, ConnectsOK, ConnectOK, OnlyState, SameWaits, SameOp
  <2>6. SameState(p, modem') BY <2>3, <2>4, <2>5, OpDoneOK
  <2> QED BY <2>3, <2>6 DEF SameState, Stays
<1> QED BY <1>8, <1>9, <1>10, <1>11

(* and the requests and answers there can be leave the state alone.          *)
LEMMA OperateStays ==
  ASSUME Whole(modem), Down(modem), modem.state = "disabled", Operate
  PROVE  Stays(modem')
<1>0. /\ modem \in ModemType /\ OpOK(modem) /\ ConnectsOK(modem) /\ LinkOK(modem) /\ OpSleeps(modem)
      /\ Idle(modem) /\ modem.op.step \in {"none", "waiting"} /\ ~modem.lists["op"].busy
  BY DisabledIsIdle
<1>1. CASE Enable
  BY <1>0, <1>1, StartOpState DEF Enable, Starts, Takes, Stays
<1>2. CASE Disable
  <2>1. PICK m : m = AbortOngoing(modem) OBVIOUS
  <2>2. Whole(m) /\ m.state = modem.state BY <2>1, AbortOngoingOK
  <2>3. m \in ModemType BY <2>2 DEF Whole, Fine, Sound
  <2>4. modem' = StartOp(m, "disable", None) BY <1>2, <2>1 DEF Disable, Takes
  <2> QED BY <2>2, <2>3, <2>4, StartOpState DEF Stays
<1>3. CASE OpSeen BY <1>3, OpSeenStays
<1>4. CASE InterfacesDone BY <1>0, <1>4 DEF InterfacesDone
<1>5. ASSUME NEW w \in Waiters, WaitExpired(w) PROVE Stays(modem')
  <2>1. w \in modem.waiters BY <1>5 DEF WaitExpired
  <2>2. w # "op"
    <3>1. "op" \in modem.waiters => ~Wanted(modem, "op") BY <1>0 DEF OpSleeps
    <3>2. Wanted(modem, "op") BY ModemStateAssumption DEF Wanted, Intermediate
    <3> QED BY <2>1, <3>1, <3>2
  <2>3. w \in Connects /\ modem' = EndConnect(modem, w) BY <1>5, <2>2 DEF WaitExpired, Goes, Waiters
  <2>4. OnlyWaits(modem, modem') BY <1>0, <2>3, EndConnectEffect DEF Moved
  <2> QED BY <2>4 DEF OnlyWaits, SameState, Stays
<1>6. ASSUME NEW ok \in BOOLEAN, EnablingStarted(ok) \/ ModemEnabled(ok) PROVE Stays(modem')
  BY <1>0, <1>6 DEF EnablingStarted, ModemEnabled
<1>7. ASSUME NEW who \in {"op", "user"}, ListAnswered(who) PROVE Stays(modem')
  <2>1. ListsOK(modem, {}) /\ modem.lists[who].answer # "none"
    BY <1>7 DEF ListAnswered, Whole, Fine
  <2>2. modem.lists[who].busy BY <2>1 DEF ListsOK, ListOK, NoList
  <2>3. who = "user" BY <1>0, <2>2
  <2>4. \/ modem' = DisconnectNext(modem, "user")
        \/ modem' = ListDone(modem, "user", FALSE)
    BY <1>7, <2>3 DEF ListAnswered, Goes, BearerDisconnectReady
  <2>5. ASSUME modem' = ListDone(modem, "user", FALSE) PROVE modem'.state = modem.state
    BY <1>0, <2>5 DEF ListDone, ModemType
  <2>6. modem'.state = modem.state BY <1>0, <2>4, <2>5, IdleDisconnectNext
  <2> QED BY <2>6 DEF Stays
<1> QED BY <1>1, <1>2, <1>3, <1>4, <1>5, <1>6, <1>7 DEF Operate

(* No bearer has anything to report,                                        *)
LEMMA HandleBearerStays ==
  ASSUME Whole(modem), Down(modem), modem.state = "disabled", Straight, HandleBearer
  PROVE  Stays(modem')
<1>0. /\ modem \in ModemType
      /\ \A b \in Bearers : /\ modem.bearers[b].status = "disconnected"
                            /\ ~modem.bearers[b].dialing /\ modem.bearers[b].hanging = "no"
  BY DisabledIsIdle
<1>1. ASSUME NEW b \in Bearers, CreateBearer(b) PROVE Stays(modem')
  <2>1. modem' = AddBearer(modem, b) BY <1>1 DEF CreateBearer, Starts, Takes
  <2>2. OnlyBearers(modem, modem') BY <1>0, <2>1, AddBearerOK
  <2> QED BY <2>2 DEF OnlyBearers, SameState, Stays
<1>2. ASSUME NEW b \in Bearers, ConnectBearer(b) PROVE FALSE
  <2>1. Level("disabled") < Level("enabled") BY Levels
  <2> QED BY <1>2, <2>1 DEF ConnectBearer, Takes, Straight
<1>3. ASSUME NEW b \in Bearers, DisconnectBearer(b) \/ Dropped(b) \/ Forced(b) PROVE FALSE
  BY <1>0, <1>3 DEF DisconnectBearer, Dropped, Forced
<1>4. ASSUME NEW b \in Bearers, NEW ok \in BOOLEAN, ConnectReady(b, ok) \/ HungUp(b, ok) PROVE FALSE
  BY <1>0, <1>4 DEF ConnectReady, HungUp
<1> QED BY <1>1, <1>2, <1>3, <1>4 DEF HandleBearer

(* what the network reports does not count,                                  *)
LEMMA RegisterStays ==
  ASSUME Whole(modem), Down(modem), modem.state = "disabled", Register
  PROVE  Stays(modem')
<1>0. modem \in ModemType /\ ~modem.enabled BY DisabledIsIdle
<1>1. ASSUME NEW r \in {"unknown", "searching", "home"}, Report(r) PROVE Stays(modem')
  <2>1. modem' = modem
    BY <1>0, <1>1, Zenon DEF Report, Starts, Takes, UpdateRegistered, UpdateNonRegistered
  <2> QED BY <2>1 DEF Stays
<1>2. CASE RegistrationReloaded
  <2>1. PICK m : m = [modem EXCEPT !.reloads = @ - 1] OBVIOUS
  <2>2. m.state = modem.state /\ ~m.enabled BY <1>0, <2>1 DEF ModemType
  <2>3. modem' = m BY <1>2, <2>1, <2>2 DEF RegistrationReloaded, Goes
  <2> QED BY <2>2, <2>3 DEF Stays
<1> QED BY <1>1, <1>2 DEF Register

(* and no attempt is far enough to connect a bearer.                         *)
LEMMA ConnectStays ==
  ASSUME Whole(modem), Down(modem), modem.state = "disabled", Connect
  PROVE  Stays(modem')
<1>0. modem \in ModemType /\ ConnectsOK(modem) /\ Idle(modem) /\ NobodyDials(modem) BY DisabledIsIdle
<1>1. ASSUME OnlyWaits(modem, modem') PROVE Stays(modem')
  BY <1>1 DEF OnlyWaits, SameState, Stays
<1>2. ASSUME NEW c \in Connects, NEW m \in ModemType, m.state = "disabled", NEW step,
             modem' = ConnectionStep(m, c, step), ConnectsBut(m, c), Free(m, c),
             step \in {"unlock", "initialized", "enable", "enabled", "pausing", "registering", "bearer"}
      PROVE  Stays(modem')
  <2>1. Proceeded(m, modem', c, step) BY <1>2, ConnectionStepProceeds
  <2> QED BY <1>2, <2>1 DEF Proceeded, Moved, OnlyWaits, SameState, Stays
<1>3. ASSUME NEW c \in Connects, modem' = EndConnect(modem, c) PROVE Stays(modem')
  <2>1. Moved(modem, modem', c) BY <1>0, <1>3, EndConnectEffect
  <2> QED BY <1>1, <2>1 DEF Moved
<1>4. ASSUME NEW c \in Connects, SimpleConnect(c) PROVE Stays(modem')
  <2>1. /\ modem.connects[c].step = "idle" /\ ConnectOK(modem, c) /\ modem.connects[c] \in ConnectType
    BY <1>0, <1>4 DEF SimpleConnect, ConnectsOK, ModemType
  <2>2. PICK r : r = [modem.connects[c] EXCEPT !.cancellable = TRUE] OBVIOUS
  <2>3. PICK m : m = [modem EXCEPT !.ongoing = c, !.connects[c] = r] OBVIOUS
  <2>4. modem' = ConnectionStep(m, c, "enable")
    BY <1>4, <2>2, <2>3, Zenon DEF SimpleConnect, Takes, FirstStep
  <2>5. m.state = "disabled" /\ m.connects[c] = r /\ DOMAIN m = DOMAIN modem BY <1>0, <2>3 DEF ModemType
  <2>6. modem' = SetStep(m, c, "enable") \/ modem' = EndConnect(m, c)
    BY <2>4 DEF ConnectionStep
  <2>7. modem'.state = m.state BY <1>0, <2>5, <2>6 DEF SetStep, EndConnect, StopWaiting, ModemType
  <2> QED BY <2>5, <2>7 DEF Stays
<1>5. ASSUME NEW c \in Connects, ConnectSeen(c) PROVE Stays(modem')
  <2>1. ConnectOK(modem, c) /\ modem.connects[c].seen # None BY <1>0, <1>5 DEF ConnectSeen, ConnectsOK
  <2>2. modem.connects[c].step \in {"initialized", "enabled"} BY <2>1 DEF ConnectOK
  <2>3. PICK s \in ToSet(States) : s = modem.connects[c].seen BY <1>0, <2>1 DEF ModemType, ConnectType
  <2>4. modem' = ConnectTold(modem, c, s) BY <1>5, <2>3 DEF ConnectSeen, Goes
  <2>5. PICK step \in {"enable", "pausing"} : Proceeded(modem, modem', c, step)
    BY <1>0, <2>2, <2>4, ConnectToldProceeds
  <2> QED BY <1>1, <2>5 DEF Proceeded, Moved
<1>6. ASSUME NEW c \in Connects, ConnectEnables(c) PROVE Stays(modem')
  <2>1. modem.connects[c].step = "enable" BY <1>6 DEF ConnectEnables
  <2>2. Free(modem, c) BY <2>1, WholeFree
  <2>3. PICK m : m = SetStep(modem, c, "enabling") OBVIOUS
  <2>4. m \in ModemType BY <2>1, <2>2, <2>3, WholeFree, SetStepFrame DEF Steps
  <2>5. OnlyWaits(modem, m) BY <1>0, <2>2, <2>3, SetStepFollows DEF Free
  <2>6. modem' = StartOp(m, "enable", c) BY <1>6, <2>3 DEF ConnectEnables, Goes
  <2> QED BY <2>4, <2>5, <2>6, StartOpState DEF OnlyWaits, SameState, Stays
<1>7. ASSUME NEW c \in Connects, Paused(c) PROVE Stays(modem')
  <2>1. modem.connects[c].step = "pausing" BY <1>7 DEF Paused
  <2>2. Free(modem, c) /\ ConnectsBut(modem, c) BY <2>1, WholeFree
  <2>3. modem' = ConnectionStep(modem, c, "registering") BY <1>7 DEF Paused, Goes
  <2> QED BY <1>0, <1>2, <2>2, <2>3
<1>8. ASSUME NEW c \in Connects, NEW ok \in BOOLEAN, Unlocked(c, ok) PROVE Stays(modem')
  <2>1. modem.connects[c].step = "unlock" BY <1>8 DEF Unlocked
  <2>2. Free(modem, c) /\ ConnectsBut(modem, c) BY <2>1, WholeFree
  <2>3. modem' = ConnectionStep(modem, c, "initialized") \/ modem' = EndConnect(modem, c)
    BY <1>8 DEF Unlocked, Goes
  <2> QED BY <1>0, <1>2, <1>3, <2>2, <2>3
<1>9. ASSUME NEW c \in Connects, modem.connects[c].step \in {"registering", "bearer"},
             NEW n \in ModemType, n.state = modem.state, n.connects = modem.connects,
             NEW step, NEW b, modem' = ConnectWith(ConnectionStep(n, c, step), c, b)
      PROVE  Stays(modem')
  <2>1. ~MayDial(modem, c) BY <1>0 DEF NobodyDials
  <2>2. modem.connects[c].cancelled BY <1>9, <2>1 DEF MayDial, Dialing
  <2>3. ConnectOK(modem, c) BY <1>0 DEF ConnectsOK
  <2>4. modem.connects[c].cancellable BY <1>9, <2>3 DEF ConnectOK
  <2>5. PICK m : m = EndConnect(n, c) OBVIOUS
  <2>6. ConnectionStep(n, c, step) = m BY <1>9, <2>2, <2>4, <2>5 DEF ConnectionStep
  <2>7. Moved(n, m, c) /\ m.connects[c] = NoAttempt BY <1>9, <2>5, EndConnectEffect
  <2>8. modem' = m BY <1>9, <2>6, <2>7 DEF ConnectWith, NoAttempt
  <2> QED BY <1>9, <2>7, <2>8 DEF Moved, OnlyWaits, SameState, Stays
<1>10. ASSUME NEW c \in Connects, NEW ok \in BOOLEAN, Registered(c, ok) PROVE Stays(modem')
  <2>1. modem.connects[c].step = "registering" BY <1>10 DEF Registered
  <2>2. Free(modem, c) /\ ConnectsBut(modem, c) BY <2>1, WholeFree
  <2>3. \/ modem' = ConnectionStep(modem, c, "bearer") \/ modem' = EndConnect(modem, c)
        \/ \E b \in Listed(modem) : modem' = ConnectWith(ConnectionStep(modem, c, "bearer"), c, b)
    BY <1>10 DEF Registered, Goes
  <2> QED BY <1>0, <1>2, <1>3, <1>9, <2>1, <2>2, <2>3
<1>11. ASSUME NEW c \in Connects, BearerCreated(c) PROVE Stays(modem')
  <2>1. CASE modem' = EndConnect(modem, c) BY <1>3, <2>1
  <2>2. ASSUME NEW b \in Bearers,
               modem' = ConnectWith(ConnectionStep(AddBearer(modem, b), c, "connect"), c, b)
        PROVE  Stays(modem')
    <3>1. PICK n : n = AddBearer(modem, b) OBVIOUS
    <3>2. n \in ModemType /\ OnlyBearers(modem, n) BY <1>0, <3>1, AddBearerOK
    <3>3. n.state = modem.state /\ n.connects = modem.connects
      BY <3>2 DEF OnlyBearers, SameState, SameWaits
    <3>4. modem.connects[c].step = "bearer" BY <1>11 DEF BearerCreated
    <3> QED BY <1>9, <2>2, <3>1, <3>2, <3>3, <3>4
  <2> QED BY <1>11, <2>1, <2>2 DEF BearerCreated, Goes
<1>12. CASE SimpleDisconnect
  <2>1. PICK m : m = AbortOngoing(modem) OBVIOUS
  <2>2. Whole(m) /\ m.state = modem.state BY <2>1, AbortOngoingOK
  <2>3. m \in ModemType BY <2>2 DEF Whole, Fine, Sound
  <2>4. m.bearers = modem.bearers BY <1>0, <2>1 DEF AbortOngoing, ModemType
  <2>5. Idle(m) BY <1>0, <2>4 DEF Idle
  <2>6. modem' = DisconnectBearers(m, "user") BY <1>12, <2>1 DEF SimpleDisconnect, Starts, Takes
  <2> QED BY <2>2, <2>3, <2>5, <2>6, IdleDisconnectBearers DEF Stays
<1> QED BY <1>4, <1>5, <1>6, <1>7, <1>8, <1>10, <1>11, <1>12 DEF Connect

(* Only the enabling sequence takes a modem out of the disabled state, unless *)
(* a request strays (update_registration_reload_current_registration_info_ready, *)
(* bearer_status_changed).                                                   *)
THEOREM SpecOnlyEnablingLeavesDisabled == Spec => OnlyEnablingLeavesDisabled
<1>1. IInv /\ Orderly /\ [Next]_vars
        => [modem.state = "disabled" /\ ~strayed' => modem'.state \in {"disabled", "enabling"}]_vars
  <2> SUFFICES ASSUME IInv, Orderly, Next, modem.state = "disabled", ~strayed' PROVE Stays(modem')
    BY DEF Stays
  <2>1. Whole(modem) BY DEF IInv, Whole
  <2>2. CASE AtRest(modem') BY <2>2 DEF AtRest, Stays
  <2>3. CASE ~AtRest(modem')
    <3>1. Down(modem) /\ Straight BY <2>3, StrayedStays DEF Orderly, Straight
    <3> QED BY <2>1, <3>1, OperateStays, HandleBearerStays, RegisterStays, ConnectStays DEF Next
  <2> QED BY <2>2, <2>3
<1> QED BY <1>1, Invariance, DownInvariance, PTL DEF Spec, OnlyEnablingLeavesDisabled
=============================================================================
