-------------------------- MODULE BaseBearerProofs --------------------------
(***************************************************************************)
(* Proofs about BaseBearer for any bounds, technologies, registrations and  *)
(* abilities of the plugin, and for any reports and answers of the device. *)
(* The argument: at most one connection attempt or one disconnection is    *)
(* with the plugin, and which of the two decides the status and what the    *)
(* bearer has of a connection (IInv).  A report on the way breaks that      *)
(* (disturbed); once the bearer is at rest again, what holds in any state   *)
(* (Base) is enough for IInv to hold again.                                *)
(***************************************************************************)
EXTENDS BaseBearer, FiniteSetTheorems, WellFoundedInduction, TLAPS

----------------------------------------------------------------------------
(* What the operators on a bearer do                                        *)

LEMMA UpdateStatusType ==
  ASSUME NEW b \in BearerType, NEW s \in Statuses
  PROVE  UpdateStatus(b, s) \in BearerType
<1>1. [b EXCEPT !.status = s] \in BearerType
  BY DEF BearerType
<1>2. [b EXCEPT !.status = s, !.waiter = FALSE, !.connected = FALSE, !.request = FALSE,
                !.ignore = FALSE, !.counting = FALSE, !.monitor = FALSE] \in BearerType
  BY DEF BearerType
<1> QED
  BY <1>1, <1>2, Zenon DEF UpdateStatus

LEMMA UpdateStatusEffect ==
  ASSUME NEW b \in BearerType, NEW s \in Statuses
  PROVE  LET u == UpdateStatus(b, s)
         IN  /\ u.status = s
             /\ u.attempts = b.attempts /\ u.rx = b.rx /\ u.total = b.total
             /\ u.cancellable = b.cancellable /\ u.connection = b.connection
             /\ u.cancelled = b.cancelled /\ u.error = b.error
             /\ u.unsupported = b.unsupported /\ u.statsSupported = b.statsSupported
             /\ s = "disconnected" /\ b.status # "disconnected" => Bare(u) /\ ~u.waiter
             /\ s # "disconnected" \/ b.status = "disconnected" =>
                  /\ u.waiter = b.waiter /\ u.ignore = b.ignore /\ u.monitor = b.monitor
                  /\ u.counting = b.counting /\ u.connected = b.connected /\ u.request = b.request
BY DEF UpdateStatus, BearerType, Statuses, Bare

(* A report is ignored while PPP runs; otherwise the bearer is disconnected.  *)
LEMMA ReportEffect ==
  ASSUME NEW b \in BearerType, b.status # "disconnected"
  PROVE  /\ Report(b) \in BearerType
         /\ b.ignore => Report(b) = b
         /\ ~b.ignore => Report(b).status = "disconnected" /\ Bare(Report(b))
         /\ Report(b).connection = b.connection
<1> DEFINE e == [b EXCEPT !.error = TRUE]
<1>1. e \in BearerType /\ e.status # "disconnected" /\ e.connection = b.connection
  BY DEF BearerType
<1>2. "disconnected" \in Statuses
  BY DEF Statuses
<1>3. Report(b) = IF b.ignore THEN b ELSE UpdateStatus(e, "disconnected")
  BY DEF Report
<1> HIDE DEF e
<1>4. UpdateStatus(e, "disconnected") \in BearerType
  BY <1>1, <1>2, UpdateStatusType
<1>5. /\ UpdateStatus(e, "disconnected").status = "disconnected"
      /\ Bare(UpdateStatus(e, "disconnected"))
      /\ UpdateStatus(e, "disconnected").connection = b.connection
  BY <1>1, <1>2, UpdateStatusEffect
<1> QED
  BY <1>3, <1>4, <1>5

LEMMA CancelEffect ==
  ASSUME NEW b \in BearerType
  PROVE  /\ Cancel(b) \in BearerType
         /\ Cancel(b).cancelled = b.cancelled \union ({b.cancellable} \ {0})
         /\ Cancel(b) = [b EXCEPT !.cancelled = Cancel(b).cancelled]
<1>1. b.cancelled \union ({b.cancellable} \ {0}) \subseteq Attempts
  BY BaseBearerAssumption DEF BearerType, Attempts
<1> QED
  BY <1>1 DEF Cancel, BearerType

(* A failed attempt leaves a bearer that is disconnected, or disconnecting    *)
(* when it was cancelled.                                                     *)
LEMMA ConnectFailedEffect ==
  ASSUME NEW b \in BearerType, NEW c \in BOOLEAN,
         b.status \in {"connecting", "disconnecting"}, Bare(b)
  PROVE  LET f == ConnectFailed(b, c)
         IN  /\ f \in BearerType
             /\ f.status = IF c THEN "disconnecting" ELSE "disconnected"
             /\ Bare(f) /\ f.connection = b.connection
<1> DEFINE e == [b EXCEPT !.error = TRUE]
           s == IF c THEN "disconnecting" ELSE "disconnected"
           u == UpdateStatus(e, s)
<1>1. e \in BearerType /\ e.status # "disconnected" /\ Bare(e) /\ e.connection = b.connection
  BY DEF BearerType, Bare
<1>2. s \in Statuses
  BY DEF Statuses
<1>3. ConnectFailed(b, c) = [u EXCEPT !.cancellable = 0]
  BY DEF ConnectFailed
<1> HIDE DEF e
<1>4. u \in BearerType
  BY <1>1, <1>2, UpdateStatusType
<1>5. u.status = s /\ u.connection = b.connection /\ Bare(u)
  BY <1>1, <1>2, UpdateStatusEffect DEF Bare
<1> HIDE DEF u, s
<1>6. 0 \in 0 .. MaxAttempts
  BY BaseBearerAssumption
<1>7. [u EXCEPT !.cancellable = 0] \in BearerType
  BY <1>4, <1>6 DEF BearerType
<1>8. /\ [u EXCEPT !.cancellable = 0].status = s
      /\ [u EXCEPT !.cancellable = 0].connection = b.connection
      /\ Bare([u EXCEPT !.cancellable = 0])
  BY <1>4, <1>5 DEF BearerType, Bare
<1> QED
  BY <1>3, <1>7, <1>8 DEF s

LEMMA ConnectSucceededEffect ==
  ASSUME NEW b \in BearerType, NEW k \in Attempts, NEW m, ~b.error
  PROVE  LET c == ConnectSucceeded(b, k, m)
         IN  /\ c \in BearerType
             /\ c.status = "connected" /\ Whole(c) /\ c.connection = k
             /\ c.waiter = b.waiter
<1>1. /\ "connected" \in Statuses /\ 0 \in 0 .. MaxAttempts /\ k \in 0 .. MaxAttempts
      /\ (HasMonitor /\ ~b.unsupported) \in BOOLEAN /\ (b.ignore \/ m = "ppp") \in BOOLEAN
  BY BaseBearerAssumption DEF Statuses, Attempts
<1>2. ConnectSucceeded(b, k, m) \in BearerType
  BY <1>1 DEF ConnectSucceeded, BearerType
<1> QED
  BY <1>2 DEF ConnectSucceeded, BearerType, Whole

----------------------------------------------------------------------------
(* What IInv says of who is with the plugin.                                *)
LEMMA Alone ==
  ASSUME IInv
  PROVE  /\ bearer \in BearerType /\ bearer.status \in Statuses
         /\ bearer.status \in {"disconnected", "connected"} =>
              (\A k \in Attempts : dialing[k] = "no") /\ (\A w \in Leavers : leaving[w] = 0)
         /\ bearer.status = "connecting" => \A w \in Leavers : leaving[w] = 0
         /\ \A k \in Attempts : dialing[k] # "no" =>
              (\A j \in Attempts \ {k} : dialing[j] = "no") /\ (\A w \in Leavers : leaving[w] = 0)
         /\ \A w \in Leavers : leaving[w] # 0 => \A k \in Attempts : dialing[k] = "no"
<1>1. bearer \in BearerType /\ bearer.status \in Statuses
  BY DEF IInv, StateType, BearerType
<1>2. \A k \in Attempts : dialing[k] # "no" =>
        /\ k = bearer.attempts /\ bearer.status \notin {"disconnected", "connected"}
        /\ \A w \in Leavers : leaving[w] = 0
  BY DEF IInv, AttemptAlone
<1>3. \A w \in Leavers : leaving[w] # 0 => bearer.status = "disconnecting"
  BY DEF IInv, LeaverAlone
<1> QED
  BY <1>1, <1>2, <1>3

(* Nobody is with the plugin after the step.                                *)
LEMMA NobodyLeft ==
  ASSUME IInv, StateType', \A k \in Attempts : dialing'[k] = "no", \A w \in Leavers : leaving'[w] = 0,
         WholeOrBare', ReleasedIsDisconnected', ~crashed', DeferredIsDue'
  PROVE  IInv'
<1>1. AttemptAlone' /\ LeaverAlone' /\ ~crashed'
  BY DEF AttemptAlone, LeaverAlone, IInv
<1> QED
  BY <1>1 DEF IInv

(* One disconnection begins.                                                *)
LEMMA OneLeaves ==
  ASSUME IInv, NEW b \in BearerType, NEW w \in Leavers, Becomes(b, {w}),
         \E k \in Attempts : TRUE,
         \A v \in Leavers : leaving[v] = 0,
         \A k \in Attempts : dialing'[k] = "no",
         dialing' \in [Attempts -> {"no", "dialing", "probing"}],
         b.status = "disconnecting", w = "user" => Whole(b), w # "user" => ~b.ignore,
         bearer.status # "disconnected", b.waiter = bearer.waiter,
         UNCHANGED <<queries, bytes, crashed>>,
         reason' \in [Techs -> Reasons], deferred' \subseteq Techs, DeferredIsDue'
  PROVE  IInv'
<1> USE BaseBearerAssumption
<1>1. leaving' = [v \in Leavers |-> IF v = w THEN 1 ELSE 0] /\ bearer' = b
  BY DEF Becomes
<1>2. 1 \in Nat /\ 0 \in Nat
  BY DEF Attempts
<1>3. released' = released /\ released = FALSE
  BY DEF Becomes, Told, IInv, ReleasedIsDisconnected, StateType
<1>4. StateType'
  <2>1. leaving' \in [Leavers -> Nat]
    BY <1>1, <1>2
  <2> QED
    BY <1>1, <1>3, <2>1 DEF IInv, StateType
<1>5. AttemptAlone'
  BY DEF AttemptAlone
<1>6. LeaverAlone'
  BY <1>1 DEF LeaverAlone, Whole
<1>7. WholeOrBare' /\ ReleasedIsDisconnected' /\ ~crashed'
  BY <1>1, <1>3 DEF WholeOrBare, ReleasedIsDisconnected, IInv
<1> QED
  BY <1>4, <1>5, <1>6, <1>7 DEF IInv

----------------------------------------------------------------------------
(* The actions                                                              *)

LEMMA ConnectKeepsInv ==
  IInv /\ Connect => IInv'
<1> SUFFICES ASSUME IInv, Connect PROVE IInv'
  OBVIOUS
<1> USE BaseBearerAssumption
<1> DEFINE k == bearer.attempts + 1
           u == UpdateStatus(bearer, "connecting")
<1>1. StateType /\ bearer \in BearerType /\ bearer.status = "disconnected" /\ k \in Attempts
  BY DEF IInv, StateType, Connect
<1>2. u \in BearerType /\ u.status = "connecting" /\ u.cancelled = bearer.cancelled
  BY <1>1, UpdateStatusType, UpdateStatusEffect DEF Statuses
<1>3. Bare(bearer) /\ Bare(u)
  BY <1>1, UpdateStatusEffect DEF IInv, WholeOrBare, Bare, Statuses
<1>4. bearer' = [u EXCEPT !.attempts = k, !.rx = 0, !.error = FALSE, !.cancellable = k]
  BY DEF Connect
<1>5. StateType'
  <2>1. k \in 0 .. MaxAttempts /\ 0 \in 0 .. MaxBytes
    BY <1>1 DEF Attempts
  <2> HIDE DEF k, u
  <2>2. bearer' \in BearerType
    BY <1>2, <1>4, <2>1 DEF BearerType
  <2> QED
    BY <1>1, <2>2 DEF StateType, Connect, k
<1>6. \A j \in Attempts : dialing[j] = "no"
  BY <1>1 DEF IInv, AttemptAlone
<1>7. \A w \in Leavers : leaving[w] = 0
  BY <1>1 DEF IInv, LeaverAlone
<1>8. /\ bearer'.status = "connecting" /\ bearer'.attempts = k /\ bearer'.cancellable = k
      /\ ~bearer'.error /\ Bare(bearer')
  BY <1>2, <1>3, <1>4 DEF BearerType, Bare
<1>9. Permitted'
  BY DEF Connect, Permitted
<1>10. AttemptAlone' /\ LeaverAlone'
  BY <1>1, <1>6, <1>7, <1>8, <1>9 DEF AttemptAlone, LeaverAlone, Connect, StateType, Bare
<1>11. WholeOrBare' /\ ReleasedIsDisconnected' /\ ~crashed' /\ DeferredIsDue'
  BY <1>8 DEF IInv, WholeOrBare, ReleasedIsDisconnected, DeferredIsDue, Connect, Bare
<1> QED
  BY <1>5, <1>10, <1>11 DEF IInv

LEMMA DisconnectDoneKeepsInv ==
  IInv /\ DisconnectDone => IInv'
BY DEF IInv, DisconnectDone, StateType, AttemptAlone, LeaverAlone, WholeOrBare, Whole, Bare,
       ReleasedIsDisconnected, DeferredIsDue, Permitted

LEMMA DisconnectConnectingKeepsInv ==
  IInv /\ DisconnectConnecting => IInv'
<1> SUFFICES ASSUME IInv, DisconnectConnecting PROVE IInv'
  OBVIOUS
<1> DEFINE u == UpdateStatus(bearer, "disconnecting")
           c == Cancel(u)
<1>1. bearer \in BearerType /\ bearer.status = "connecting" /\ Bare(bearer)
      /\ \A w \in Leavers : leaving[w] = 0
  BY Alone DEF DisconnectConnecting, IInv, WholeOrBare
<1>2. u \in BearerType /\ u.status = "disconnecting" /\ u.cancelled = bearer.cancelled
      /\ u.attempts = bearer.attempts /\ u.cancellable = bearer.cancellable
      /\ u.error = bearer.error /\ Bare(u)
  BY <1>1, UpdateStatusType, UpdateStatusEffect DEF Statuses, Bare
<1> HIDE DEF u
<1>3. /\ c \in BearerType
      /\ c.cancelled = u.cancelled \union ({u.cancellable} \ {0})
      /\ c = [u EXCEPT !.cancelled = c.cancelled]
  BY <1>2, CancelEffect
<1> HIDE DEF c
<1>4. c.status = "disconnecting" /\ c.attempts = bearer.attempts
      /\ c.cancellable = bearer.cancellable /\ c.error = bearer.error /\ Bare(c)
  BY <1>2, <1>3 DEF BearerType, Bare
<1>5. bearer' = [c EXCEPT !.waiter = TRUE]
  BY DEF DisconnectConnecting, Becomes, c, u
<1>6. /\ bearer' \in BearerType /\ bearer'.cancelled = c.cancelled
      /\ bearer'.status = "disconnecting" /\ bearer'.attempts = bearer.attempts
      /\ bearer'.cancellable = bearer.cancellable /\ bearer'.error = bearer.error
      /\ Bare(bearer') /\ bearer'.waiter = TRUE
  BY <1>3, <1>4, <1>5 DEF BearerType, Bare
<1>7. leaving' = leaving /\ released' = released /\ released = FALSE
  BY <1>1, <1>6 DEF DisconnectConnecting, Becomes, Told, IInv, StateType, ReleasedIsDisconnected
<1>8. StateType'
  BY <1>6, <1>7 DEF IInv, StateType, DisconnectConnecting
<1>9. AttemptAlone'
  <2> SUFFICES ASSUME NEW k \in Attempts, dialing[k] # "no"
               PROVE  /\ k = bearer'.attempts /\ k = bearer'.cancellable
                      /\ k \in bearer'.cancelled /\ ~bearer'.error
    BY <1>1, <1>6, <1>7 DEF AttemptAlone, DisconnectConnecting, Bare
  <2> QED
    BY <1>2, <1>3, <1>6, BaseBearerAssumption DEF IInv, AttemptAlone, Attempts
<1>10. LeaverAlone' /\ WholeOrBare' /\ ReleasedIsDisconnected' /\ ~crashed'
       /\ DeferredIsDue'
  BY <1>1, <1>6, <1>7 DEF LeaverAlone, WholeOrBare, ReleasedIsDisconnected, IInv,
     DisconnectConnecting, DeferredIsDue
<1> QED
  BY <1>8, <1>9, <1>10 DEF IInv

LEMMA DisconnectConnectedKeepsInv ==
  IInv /\ DisconnectConnected => IInv'
<1> SUFFICES ASSUME IInv, DisconnectConnected PROVE IInv'
  OBVIOUS
<1> DEFINE u == UpdateStatus(bearer, "disconnecting")
<1>1. bearer \in BearerType /\ bearer.status = "connected" /\ Whole(bearer)
      /\ (\A w \in Leavers : leaving[w] = 0) /\ (\A k \in Attempts : dialing[k] = "no")
  BY Alone DEF DisconnectConnected, IInv, WholeOrBare
<1>2. /\ u \in BearerType /\ u.status = "disconnecting" /\ u.waiter = bearer.waiter
      /\ u.connected = bearer.connected /\ u.error = bearer.error /\ u.counting = bearer.counting
      /\ u.monitor = bearer.monitor /\ u.unsupported = bearer.unsupported
      /\ u.connection = bearer.connection
  BY <1>1, UpdateStatusType, UpdateStatusEffect DEF Statuses
<1>3. Becomes(u, {"user"}) /\ "user" \in Leavers
  BY DEF DisconnectConnected, Leavers
<1> HIDE DEF u
<1>4. Whole(u)
  BY <1>1, <1>2 DEF Whole
<1>5. \E k \in Attempts : TRUE
  BY <1>1 DEF Whole
<1>6. reason' \in [Techs -> Reasons] /\ deferred' \subseteq Techs /\ DeferredIsDue'
      /\ dialing' \in [Attempts -> {"no", "dialing", "probing"}]
      /\ (\A k \in Attempts : dialing'[k] = "no") /\ UNCHANGED <<queries, bytes, crashed>>
  BY <1>1 DEF DisconnectConnected, IInv, StateType, DeferredIsDue
<1> QED
  BY <1>1, <1>2, <1>3, <1>4, <1>5, <1>6, OneLeaves

(* Three ways to force a bearer off: nothing to do, a request to the owner of *)
(* the TTY, the cancellation of an attempt, a disconnection.                  *)
LEMMA DisconnectForceKeepsInv ==
  ASSUME IInv, DisconnectForce(bearer), UNCHANGED <<dialing, queries, bytes, crashed>>,
         reason' \in [Techs -> Reasons], deferred' \subseteq Techs, DeferredIsDue'
  PROVE  IInv'
<1> USE BaseBearerAssumption
<1>1. bearer \in BearerType /\ bearer.status \in Statuses
  BY Alone
<1>2. CASE bearer.status \in {"disconnected", "disconnecting"}
  <2>1. bearer' = bearer /\ leaving' = leaving /\ released' = released
    <3>1. Becomes(bearer, {})
      BY <1>2 DEF DisconnectForce
    <3> QED
      BY <3>1 DEF Becomes, Told, IInv, StateType
  <2>2. StateType' /\ LeaverAlone' /\ WholeOrBare' /\ ReleasedIsDisconnected' /\ ~crashed'
    BY <2>1 DEF IInv, StateType, LeaverAlone, WholeOrBare, ReleasedIsDisconnected
  <2>3. AttemptAlone'
    BY <1>2, <2>1 DEF IInv, AttemptAlone
  <2> QED
    BY <2>2, <2>3 DEF IInv
<1>3. CASE bearer.status \in {"connecting", "connected"} /\ bearer.ignore
  <2>1. bearer.status = "connected" /\ Whole(bearer)
        /\ (\A w \in Leavers : leaving[w] = 0) /\ (\A k \in Attempts : dialing[k] = "no")
    BY <1>3, Alone DEF IInv, WholeOrBare, Bare
  <2>2. Becomes([bearer EXCEPT !.request = TRUE], {})
    BY <1>3 DEF DisconnectForce
  <2>3. bearer' \in BearerType /\ bearer'.status = "connected" /\ Whole(bearer')
        /\ bearer'.waiter = bearer.waiter
    BY <1>1, <2>1, <2>2 DEF Becomes, BearerType, Whole
  <2>4. leaving' = leaving /\ released' = released
    BY <2>2, <2>3 DEF Becomes, Told, IInv, StateType
  <2>5. StateType' /\ WholeOrBare' /\ ReleasedIsDisconnected' /\ ~crashed'
    BY <2>1, <2>3, <2>4 DEF IInv, StateType, WholeOrBare, ReleasedIsDisconnected
  <2> QED
    BY <2>1, <2>4, <2>5, NobodyLeft
<1>4. CASE bearer.status = "connecting" /\ ~bearer.ignore
  <2>1. Bare(bearer) /\ (\A w \in Leavers : leaving[w] = 0)
    BY <1>4, Alone DEF IInv, WholeOrBare
  <2>2. Becomes(Cancel(bearer), {})
    BY <1>4 DEF DisconnectForce
  <2>3. /\ bearer' \in BearerType
        /\ bearer'.cancelled = bearer.cancelled \union ({bearer.cancellable} \ {0})
        /\ bearer' = [bearer EXCEPT !.cancelled = bearer'.cancelled]
    BY <1>1, <2>2, CancelEffect DEF Becomes
  <2>4. /\ bearer'.status = "connecting" /\ bearer'.attempts = bearer.attempts
        /\ bearer'.cancellable = bearer.cancellable /\ bearer'.error = bearer.error
        /\ Bare(bearer') /\ bearer'.waiter = bearer.waiter
    BY <1>1, <1>4, <2>1, <2>3 DEF BearerType, Bare
  <2>5. leaving' = leaving /\ released' = released
    BY <2>2, <2>4 DEF Becomes, Told, IInv, StateType
  <2>6. StateType'
    BY <2>3, <2>5 DEF IInv, StateType
  <2>7. AttemptAlone'
    <3> SUFFICES ASSUME NEW k \in Attempts, dialing[k] # "no"
                 PROVE  /\ k = bearer'.attempts /\ k = bearer'.cancellable
                        /\ k \in bearer'.cancelled /\ ~bearer'.error
      BY <2>1, <2>4, <2>5 DEF AttemptAlone, Bare
    <3> QED
      BY <2>3, <2>4 DEF IInv, AttemptAlone, Attempts
  <2>8. LeaverAlone' /\ WholeOrBare' /\ ReleasedIsDisconnected' /\ ~crashed'
    BY <1>4, <2>1, <2>4, <2>5 DEF LeaverAlone, WholeOrBare, ReleasedIsDisconnected, IInv
  <2> QED
    BY <2>6, <2>7, <2>8 DEF IInv
<1>5. CASE bearer.status = "connected" /\ ~bearer.ignore
  <2> DEFINE u == UpdateStatus(bearer, "disconnecting")
  <2>1. Whole(bearer) /\ (\A w \in Leavers : leaving[w] = 0) /\ (\A k \in Attempts : dialing[k] = "no")
    BY <1>5, Alone DEF IInv, WholeOrBare
  <2>2. u \in BearerType /\ u.status = "disconnecting" /\ ~u.ignore /\ u.waiter = bearer.waiter
    BY <1>1, <1>5, UpdateStatusType, UpdateStatusEffect DEF Statuses
  <2>3. Becomes(u, {"force"}) /\ "force" \in Leavers
    BY <1>5 DEF DisconnectForce, Leavers
  <2> HIDE DEF u
  <2>4. \E k \in Attempts : TRUE
    BY <2>1 DEF Whole
  <2>5. dialing' \in [Attempts -> {"no", "dialing", "probing"}] /\ (\A k \in Attempts : dialing'[k] = "no")
    BY <2>1 DEF IInv, StateType
  <2> QED
    BY <1>5, <2>1, <2>2, <2>3, <2>4, <2>5, OneLeaves
<1> QED
  BY <1>1, <1>2, <1>3, <1>4, <1>5 DEF Statuses

(* The end of an attempt: it failed, or it was cancelled and the plugin is     *)
(* asked to disconnect, or it succeeded.                                      *)
LEMMA AttemptFails ==
  ASSUME IInv, NEW k \in Attempts, dialing[k] # "no", dialing' = [dialing EXCEPT ![k] = "no"],
         NEW b \in BearerType, b.status = bearer.status, Bare(b),
         NEW c \in BOOLEAN, Becomes(ConnectFailed(b, c), IF c THEN {"cancel"} ELSE {}),
         b.waiter = bearer.waiter,
         UNCHANGED <<queries, crashed, bytes, reason, deferred>>
  PROVE  IInv'
<1> USE BaseBearerAssumption
<1> DEFINE f == ConnectFailed(b, c)
<1>1. bearer.status \in {"connecting", "disconnecting"} /\ (\A w \in Leavers : leaving[w] = 0)
  BY DEF IInv, AttemptAlone
<1>2. /\ f \in BearerType /\ f.status = IF c THEN "disconnecting" ELSE "disconnected"
      /\ Bare(f)
  BY <1>1, ConnectFailedEffect
<1>3. bearer' = f /\ released' \in BOOLEAN
      /\ leaving' = [w \in Leavers |-> IF c /\ w = "cancel" THEN 1 ELSE 0]
  BY <1>1 DEF Becomes, Told, IInv, StateType, Leavers
<1> HIDE DEF f
<1>4. dialing' \in [Attempts -> {"no", "dialing", "probing"}] /\ \A j \in Attempts : dialing'[j] = "no"
  BY Alone DEF IInv, StateType
<1>5. released' => bearer'.status = "disconnected"
  <2>1. CASE ~c
    BY <1>2, <1>3, <2>1
  <2>2. CASE c
    <3>1. ConnectFailed(b, c).waiter = b.waiter
      <4> DEFINE e == [b EXCEPT !.error = TRUE]
      <4>1. e \in BearerType /\ e.waiter = b.waiter
        BY DEF BearerType
      <4> HIDE DEF e
      <4>2. /\ UpdateStatus(e, "disconnecting").waiter = b.waiter
            /\ UpdateStatus(e, "disconnecting") \in BearerType
        BY <4>1, UpdateStatusType, UpdateStatusEffect DEF Statuses
      <4>3. ConnectFailed(b, c) = [UpdateStatus(e, "disconnecting") EXCEPT !.cancellable = 0]
        BY <2>2 DEF ConnectFailed, e
      <4> QED
        BY <4>2, <4>3 DEF BearerType
    <3>2. released = FALSE
      BY <1>1 DEF IInv, ReleasedIsDisconnected, StateType
    <3>3. released' = (released \/ (bearer.waiter /\ ~f.waiter))
      BY DEF Becomes, Told, f
    <3> QED
      BY <3>1, <3>2, <3>3 DEF f
  <2> QED
    BY <2>1, <2>2
<1>6. StateType'
  <2>1. 1 \in Nat /\ 0 \in Nat
    BY DEF Attempts
  <2>2. leaving' \in [Leavers -> Nat]
    BY <1>3, <2>1
  <2> QED
    BY <1>2, <1>3, <1>4, <2>2 DEF IInv, StateType
<1>7. LeaverAlone'
  BY <1>2, <1>3 DEF LeaverAlone, Leavers, Bare
<1>8. AttemptAlone' /\ WholeOrBare' /\ ReleasedIsDisconnected' /\ ~crashed' /\ DeferredIsDue'
  BY <1>2, <1>3, <1>4, <1>5 DEF AttemptAlone, WholeOrBare, ReleasedIsDisconnected,
     DeferredIsDue, IInv
<1> QED
  BY <1>6, <1>7, <1>8 DEF IInv

LEMMA CheckedConnectKeepsInv ==
  ASSUME IInv, NEW k \in Attempts, dialing[k] # "no", dialing' = [dialing EXCEPT ![k] = "no"],
         NEW b \in BearerType, b.status = bearer.status, Bare(b), b.error = bearer.error,
         b.waiter = bearer.waiter, CheckedConnect(b, k), UNCHANGED <<bytes, reason, deferred>>
  PROVE  IInv'
<1>1. CASE IsCancelled(b)
  BY <1>1, AttemptFails DEF CheckedConnect
<1>2. CASE ~IsCancelled(b)
  <2> PICK m \in Methods : Becomes(ConnectSucceeded(b, k, m), {})
    BY <1>2 DEF CheckedConnect
  <2>1. ~b.error /\ bearer.status # "disconnected" /\ (\A w \in Leavers : leaving[w] = 0)
    BY DEF IInv, AttemptAlone
  <2>2. /\ bearer' \in BearerType /\ bearer'.status = "connected" /\ Whole(bearer')
        /\ bearer'.waiter = bearer.waiter
    BY <2>1, ConnectSucceededEffect DEF Becomes
  <2>3. crashed' = FALSE
    BY <1>2 DEF CheckedConnect, StartAllowed, Bare
  <2>4. leaving' = leaving /\ released' = released
    BY <2>2 DEF Becomes, Told, IInv, StateType
  <2>5. dialing' \in [Attempts -> {"no", "dialing", "probing"}] /\ \A j \in Attempts : dialing'[j] = "no"
    BY Alone DEF IInv, StateType
  <2>6. queries' \subseteq Queries
    BY <1>2 DEF CheckedConnect, Queries, IInv, StateType
  <2>7. StateType'
    BY <2>2, <2>3, <2>4, <2>5, <2>6 DEF IInv, StateType
  <2>8. WholeOrBare' /\ ReleasedIsDisconnected'
    BY <2>1, <2>2, <2>4 DEF IInv, WholeOrBare, ReleasedIsDisconnected
  <2>9. DeferredIsDue'
    BY DEF IInv, DeferredIsDue
  <2> QED
    BY <2>1, <2>3, <2>4, <2>5, <2>7, <2>8, <2>9, NobodyLeft
<1> QED
  BY <1>1, <1>2

LEMMA ConnectReadyKeepsInv ==
  ASSUME IInv, NEW k \in Attempts, ConnectReady(k)
  PROVE  IInv'
<1>1. bearer \in BearerType /\ dialing[k] # "no" /\ Bare(bearer)
  BY Alone DEF ConnectReady, IInv, AttemptAlone
<1>2. CASE /\ Becomes(ConnectFailed(bearer, FALSE), {})
           /\ dialing' = [dialing EXCEPT ![k] = "no"]
           /\ UNCHANGED <<queries, crashed>>
  BY <1>1, <1>2, AttemptFails DEF ConnectReady
<1>3. CASE /\ Becomes(ConnectFailed(bearer, TRUE), {"cancel"})
           /\ dialing' = [dialing EXCEPT ![k] = "no"]
           /\ UNCHANGED <<queries, crashed>>
  BY <1>1, <1>3, AttemptFails DEF ConnectReady
<1>4. CASE /\ dialing' = [dialing EXCEPT ![k] = "probing"]
           /\ UNCHANGED <<bearer, leaving, queries, released, crashed>>
  <2>1. UNCHANGED <<bytes, reason, deferred>>
    BY DEF ConnectReady
  <2>2. AttemptAlone'
    <3> SUFFICES ASSUME NEW j \in Attempts, dialing'[j] # "no" PROVE dialing[j] # "no"
      BY <1>4, <2>1 DEF IInv, AttemptAlone, Permitted, Bare
    <3> QED
      BY <1>1, <1>4 DEF IInv, StateType
  <2>3. StateType' /\ LeaverAlone' /\ WholeOrBare' /\ ReleasedIsDisconnected' /\ ~crashed'
        /\ DeferredIsDue'
    BY <1>4, <2>1 DEF IInv, StateType, LeaverAlone, WholeOrBare, ReleasedIsDisconnected,
       DeferredIsDue
  <2> QED
    BY <2>2, <2>3 DEF IInv
<1>5. CASE CheckedConnect(bearer, k) /\ dialing' = [dialing EXCEPT ![k] = "no"]
  BY <1>1, <1>5, CheckedConnectKeepsInv DEF ConnectReady
<1> QED
  BY <1>2, <1>3, <1>4, <1>5 DEF ConnectReady

LEMMA ReloadStatsSupportedReadyKeepsInv ==
  ASSUME IInv, NEW k \in Attempts, ReloadStatsSupportedReady(k)
  PROVE  IInv'
<1>1. bearer \in BearerType /\ dialing[k] # "no" /\ Bare(bearer)
  BY Alone DEF ReloadStatsSupportedReady, IInv, AttemptAlone
<1> PICK supported \in BOOLEAN :
      CheckedConnect([bearer EXCEPT !.statsSupported = @ \/ supported], k)
  BY DEF ReloadStatsSupportedReady
<1> DEFINE b == [bearer EXCEPT !.statsSupported = @ \/ supported]
<1>2. /\ b \in BearerType /\ b.status = bearer.status /\ Bare(b) /\ b.error = bearer.error
      /\ b.waiter = bearer.waiter
  BY <1>1 DEF BearerType, Bare
<1>3. CheckedConnect(b, k) /\ dialing' = [dialing EXCEPT ![k] = "no"] /\ UNCHANGED <<bytes, reason, deferred>>
  BY DEF ReloadStatsSupportedReady
<1> HIDE DEF b
<1> QED
  BY <1>1, <1>2, <1>3, CheckedConnectKeepsInv

LEMMA DisconnectReadyKeepsInv ==
  IInv /\ DisconnectReady => IInv'
<1> SUFFICES ASSUME IInv, DisconnectReady PROVE IInv'
  OBVIOUS
<1>1. /\ bearer \in BearerType /\ bearer.status = "disconnecting" /\ Whole(bearer)
      /\ \A k \in Attempts : dialing[k] = "no"
      /\ "user" \in Leavers /\ leaving["user"] = 1 /\ \A w \in Leavers \ {"user"} : leaving[w] = 0
  BY Alone DEF DisconnectReady, IInv, LeaverAlone, Leavers
<1>2. leaving' \in [Leavers -> Nat] /\ \A w \in Leavers : leaving'[w] = 0
  <2>1. leaving \in [Leavers -> Nat] /\ 0 \in Nat
    BY BaseBearerAssumption DEF IInv, StateType
  <2>2. leaving' = [leaving EXCEPT !["user"] = 0]
    BY <1>1, <2>1 DEF DisconnectReady, Left
  <2> QED
    BY <1>1, <2>1, <2>2
<1>3. StateType' /\ WholeOrBare' /\ ReleasedIsDisconnected'
  <2>1. CASE bearer' = UpdateStatus(bearer, "disconnected") /\ released' = TRUE
    <3>1. bearer' \in BearerType /\ bearer'.status = "disconnected" /\ Bare(bearer')
      BY <1>1, <2>1, UpdateStatusType, UpdateStatusEffect DEF Statuses
    <3>2. StateType'
      BY <1>2, <2>1, <3>1 DEF IInv, StateType, DisconnectReady
    <3> QED
      BY <2>1, <3>1, <3>2 DEF WholeOrBare, ReleasedIsDisconnected
  <2>2. CASE bearer' = UpdateStatus(bearer, "connected") /\ UNCHANGED released
    <3>1. /\ bearer' \in BearerType /\ bearer'.status = "connected"
          /\ bearer'.connected = bearer.connected /\ bearer'.error = bearer.error
          /\ bearer'.counting = bearer.counting /\ bearer'.monitor = bearer.monitor
          /\ bearer'.unsupported = bearer.unsupported /\ bearer'.connection = bearer.connection
      BY <1>1, <2>2, UpdateStatusType, UpdateStatusEffect DEF Statuses
    <3>2. Whole(bearer')
      BY <1>1, <3>1 DEF Whole
    <3>3. StateType'
      BY <1>2, <2>2, <3>1 DEF IInv, StateType, DisconnectReady
    <3> QED
      BY <1>1, <2>2, <3>1, <3>2, <3>3 DEF WholeOrBare, ReleasedIsDisconnected, IInv
  <2> QED
    BY <2>1, <2>2 DEF DisconnectReady
<1>4. ~crashed' /\ DeferredIsDue' /\ (\A k \in Attempts : dialing'[k] = "no")
      /\ \A w \in Leavers : leaving'[w] = 0
  BY <1>1, <1>2 DEF DisconnectReady, IInv, DeferredIsDue
<1> QED
  BY <1>3, <1>4, NobodyLeft

LEMMA DisconnectForceReadyKeepsInv ==
  ASSUME IInv, NEW w \in Leavers, DisconnectForceReady(w)
  PROVE  IInv'
<1>1. /\ bearer \in BearerType /\ bearer.status = "disconnecting" /\ ~bearer.ignore
      /\ \A k \in Attempts : dialing[k] = "no"
      /\ leaving[w] = 1 /\ \A v \in Leavers \ {w} : leaving[v] = 0
  BY Alone DEF DisconnectForceReady, IInv, LeaverAlone, Leavers
<1>2. leaving' \in [Leavers -> Nat] /\ \A v \in Leavers : leaving'[v] = 0
  <2>1. leaving \in [Leavers -> Nat] /\ 0 \in Nat
    BY BaseBearerAssumption DEF IInv, StateType
  <2>2. leaving' = [leaving EXCEPT ![w] = 0]
    BY <1>1, <2>1 DEF DisconnectForceReady, Left
  <2> QED
    BY <1>1, <2>1, <2>2
<1>3. bearer' \in BearerType /\ bearer'.status = "disconnected" /\ Bare(bearer')
  BY <1>1, ReportEffect DEF DisconnectForceReady
<1>4. released' \in BOOLEAN
  BY DEF DisconnectForceReady, Told, IInv, StateType
<1>5. StateType'
  BY <1>2, <1>3, <1>4 DEF IInv, StateType, DisconnectForceReady
<1>6. WholeOrBare' /\ ReleasedIsDisconnected'
  BY <1>3 DEF WholeOrBare, ReleasedIsDisconnected
<1>7. ~crashed' /\ DeferredIsDue' /\ (\A k \in Attempts : dialing'[k] = "no")
      /\ \A v \in Leavers : leaving'[v] = 0
  BY <1>1, <1>2 DEF DisconnectForceReady, IInv, DeferredIsDue
<1> QED
  BY <1>5, <1>6, <1>7, NobodyLeft

(* A connected bearer that the device or a query reports disconnected.       *)
LEMMA ReportKeepsInv ==
  ASSUME IInv, bearer.status = "connected", Becomes(Report(bearer), {}), queries' \subseteq Queries,
         UNCHANGED <<dialing, bytes, reason, deferred, crashed>>
  PROVE  IInv'
<1>1. /\ bearer \in BearerType /\ Whole(bearer)
      /\ (\A w \in Leavers : leaving[w] = 0) /\ (\A k \in Attempts : dialing[k] = "no")
  BY Alone DEF IInv, WholeOrBare
<1>2. leaving' = leaving /\ released' \in BOOLEAN
  BY DEF Becomes, Told, IInv, StateType
<1>3. bearer' \in BearerType
  BY <1>1, ReportEffect DEF Becomes
<1>4. StateType'
  BY <1>2, <1>3 DEF IInv, StateType
<1>5. WholeOrBare' /\ ReleasedIsDisconnected'
  <2>1. CASE bearer.ignore
    <3>1. bearer' = bearer
      BY <1>1, <2>1, ReportEffect DEF Becomes
    <3>2. released' = released
      BY <3>1 DEF Becomes, Told, IInv, StateType
    <3> QED
      BY <3>1, <3>2 DEF IInv, WholeOrBare, ReleasedIsDisconnected
  <2>2. CASE ~bearer.ignore
    <3>1. bearer'.status = "disconnected" /\ Bare(bearer')
      BY <1>1, <2>2, ReportEffect DEF Becomes
    <3> QED
      BY <3>1 DEF WholeOrBare, ReleasedIsDisconnected
  <2> QED
    BY <2>1, <2>2
<1>6. ~crashed' /\ DeferredIsDue'
  BY DEF IInv, DeferredIsDue
<1> QED
  BY <1>1, <1>2, <1>4, <1>5, <1>6, NobodyLeft

(* A disconnected bearer that is reported disconnected, only gets an error.   *)
LEMMA IdleReportKeepsInv ==
  ASSUME IInv, bearer.status = "disconnected", Becomes(Report(bearer), {}), queries' \subseteq Queries,
         UNCHANGED <<dialing, bytes, reason, deferred, crashed>>
  PROVE  IInv'
<1>1. /\ bearer \in BearerType /\ Bare(bearer)
      /\ (\A w \in Leavers : leaving[w] = 0) /\ (\A k \in Attempts : dialing[k] = "no")
  BY Alone DEF IInv, WholeOrBare
<1>2. leaving' = leaving /\ released' \in BOOLEAN
  BY DEF Becomes, Told, IInv, StateType
<1>3. bearer' = [bearer EXCEPT !.error = TRUE]
  <2>1. [bearer EXCEPT !.error = TRUE].status = "disconnected"
    BY <1>1 DEF BearerType
  <2> QED
    BY <1>1, <2>1 DEF Becomes, Report, UpdateStatus, Bare
<1>4. bearer' \in BearerType /\ bearer'.status = "disconnected" /\ Bare(bearer')
  BY <1>1, <1>3 DEF BearerType, Bare
<1>5. StateType'
  BY <1>2, <1>4 DEF IInv, StateType
<1>6. WholeOrBare' /\ ReleasedIsDisconnected'
  BY <1>4 DEF WholeOrBare, ReleasedIsDisconnected
<1>7. ~crashed' /\ DeferredIsDue'
  BY DEF IInv, DeferredIsDue
<1> QED
  BY <1>1, <1>2, <1>5, <1>6, <1>7, NobodyLeft

LEMMA BeReportedKeepsInv ==
  ASSUME IInv, BeReported, bearer.status \notin {"connecting", "disconnecting"}
  PROVE  IInv'
<1>1. bearer.status \in {"connected", "disconnected"}
  BY Alone DEF Statuses
<1>2. Becomes(Report(bearer), {}) /\ UNCHANGED <<dialing, bytes, reason, deferred, crashed>>
  BY DEF BeReported, UnsolicitedReport, FoundDisconnected, Answered
<1>3. queries' \subseteq Queries
  BY DEF BeReported, UnsolicitedReport, FoundDisconnected, Answered, IInv, StateType
<1> QED
  BY <1>1, <1>2, <1>3, ReportKeepsInv, IdleReportKeepsInv

(* What neither the bearer nor anybody with the plugin sees.                  *)
LEMMA UnseenStep ==
  ASSUME IInv, UNCHANGED <<bearer, dialing, leaving, reason, deferred, released, crashed>>,
         queries' \subseteq Queries, bytes' \in [Attempts -> 0 .. MaxBytes]
  PROVE  IInv'
<1>1. StateType'
  BY DEF IInv, StateType
<1>2. AttemptAlone' /\ LeaverAlone'
  BY DEF IInv, AttemptAlone, LeaverAlone, Bare, Whole, Permitted
<1>3. WholeOrBare' /\ ReleasedIsDisconnected' /\ ~crashed' /\ DeferredIsDue'
  BY DEF IInv, WholeOrBare, ReleasedIsDisconnected, DeferredIsDue, Bare, Whole
<1> QED
  BY <1>1, <1>2, <1>3 DEF IInv

LEMMA TrafficKeepsInv ==
  IInv /\ Traffic => IInv'
<1> SUFFICES ASSUME IInv, Traffic PROVE IInv'
  OBVIOUS
<1>1. bytes' \in [Attempts -> 0 .. MaxBytes] /\ queries' \subseteq Queries
  BY BaseBearerAssumption DEF IInv, StateType, Traffic
<1> QED
  BY <1>1, UnseenStep DEF Traffic

LEMMA AskKeepsInv ==
  ASSUME IInv, NEW kind \in {"stats", "monitor", "sync"}, Ask(kind)
  PROVE  IInv'
<1>1. bearer.connection \in Attempts
  BY DEF Ask, IInv, WholeOrBare, Whole
<1>2. queries' \subseteq Queries /\ bytes' \in [Attempts -> 0 .. MaxBytes]
  BY <1>1 DEF Ask, Queries, IInv, StateType
<1> QED
  BY <1>2, UnseenStep DEF Ask

LEMMA NoNewsKeepsInv ==
  ASSUME IInv, NEW kind, NEW k, NoNews(kind, k)
  PROVE  IInv'
<1>1. queries' \subseteq Queries /\ bytes' \in [Attempts -> 0 .. MaxBytes]
  BY DEF NoNews, Answered, IInv, StateType
<1> QED
  BY <1>1, UnseenStep DEF NoNews, Answered

(* An answer that changes nothing but the counters or the monitor.            *)
LEMMA SmallChangeKeepsInv ==
  ASSUME IInv, NEW b \in BearerType, Becomes(b, {}),
         b.status = bearer.status, b.connected = bearer.connected, b.request = bearer.request,
         b.error = bearer.error, b.cancellable = bearer.cancellable, b.cancelled = bearer.cancelled,
         b.waiter = bearer.waiter, b.ignore = bearer.ignore, b.counting = bearer.counting,
         b.attempts = bearer.attempts, b.connection = bearer.connection,
         b.monitor => bearer.monitor, bearer.unsupported => b.unsupported,
         bearer.monitor => b.monitor \/ b.unsupported,
         queries' \subseteq Queries, UNCHANGED <<dialing, bytes, reason, deferred, crashed>>
  PROVE  IInv'
<1>1. bearer' = b /\ leaving' = leaving /\ released' = released
  BY DEF Becomes, Told, IInv, StateType
<1>2. StateType'
  BY <1>1 DEF IInv, StateType
<1>3. (Bare(bearer) => Bare(b)) /\ (Whole(bearer) => Whole(b))
  BY DEF Bare, Whole
<1>4. AttemptAlone'
  BY <1>1, <1>3 DEF IInv, AttemptAlone, Permitted
<1>5. LeaverAlone'
  BY <1>1, <1>3 DEF IInv, LeaverAlone
<1>6. WholeOrBare' /\ ReleasedIsDisconnected' /\ ~crashed' /\ DeferredIsDue'
  BY <1>1, <1>3 DEF IInv, WholeOrBare, ReleasedIsDisconnected, DeferredIsDue
<1> QED
  BY <1>2, <1>4, <1>5, <1>6 DEF IInv

LEMMA MonitorUnsupportedKeepsInv ==
  ASSUME IInv, NEW k, MonitorUnsupported(k)
  PROVE  IInv'
<1> DEFINE b == [bearer EXCEPT !.unsupported = TRUE, !.monitor = FALSE]
<1>1. /\ b \in BearerType
      /\ b.status = bearer.status /\ b.connected = bearer.connected /\ b.request = bearer.request
      /\ b.error = bearer.error /\ b.cancellable = bearer.cancellable /\ b.cancelled = bearer.cancelled
      /\ b.waiter = bearer.waiter /\ b.ignore = bearer.ignore /\ b.counting = bearer.counting
      /\ b.attempts = bearer.attempts /\ b.connection = bearer.connection
      /\ b.monitor = FALSE /\ b.unsupported = TRUE
  BY Alone DEF BearerType
<1>2. /\ Becomes(b, {}) /\ queries' \subseteq Queries
      /\ UNCHANGED <<dialing, bytes, reason, deferred, crashed>>
  BY DEF MonitorUnsupported, Answered, IInv, StateType
<1> HIDE DEF b
<1> QED
  BY <1>1, <1>2, SmallChangeKeepsInv

LEMMA ReloadStatsReadyKeepsInv ==
  ASSUME IInv, NEW k \in Attempts, ReloadStatsReady(k)
  PROVE  IInv'
<1> DEFINE b == SetOngoingStats(bearer, bytes[k])
<1>1. bearer \in BearerType /\ bytes[k] \in 0 .. MaxBytes
  BY Alone DEF IInv, StateType
<1>2. CASE bytes[k] > bearer.rx
  <2>1. b = [bearer EXCEPT !.rx = bytes[k], !.total = @ + (bytes[k] - bearer.rx)]
    BY <1>2 DEF SetOngoingStats
  <2>2. bearer.total + (bytes[k] - bearer.rx) \in Nat
    BY <1>1, <1>2, BaseBearerAssumption DEF BearerType
  <2>3. /\ b \in BearerType
        /\ b.status = bearer.status /\ b.connected = bearer.connected /\ b.request = bearer.request
        /\ b.error = bearer.error /\ b.cancellable = bearer.cancellable /\ b.cancelled = bearer.cancelled
        /\ b.waiter = bearer.waiter /\ b.ignore = bearer.ignore /\ b.counting = bearer.counting
        /\ b.attempts = bearer.attempts /\ b.connection = bearer.connection
        /\ b.monitor = bearer.monitor /\ b.unsupported = bearer.unsupported
    BY <1>1, <2>1, <2>2 DEF BearerType
  <2>4. /\ Becomes(b, {}) /\ queries' \subseteq Queries
        /\ UNCHANGED <<dialing, bytes, reason, deferred, crashed>>
    BY DEF ReloadStatsReady, Answered, IInv, StateType
  <2> HIDE DEF b
  <2> QED
    BY <2>3, <2>4, SmallChangeKeepsInv
<1>3. CASE ~(bytes[k] > bearer.rx)
  <2>1. Becomes(bearer, {}) /\ queries' \subseteq Queries
        /\ UNCHANGED <<dialing, bytes, reason, deferred, crashed>>
    BY <1>3 DEF SetOngoingStats, ReloadStatsReady, Answered, IInv, StateType
  <2> QED
    BY <1>1, <2>1, SmallChangeKeepsInv
<1> QED
  BY <1>2, <1>3

LEMMA RegistrationChangedKeepsInv ==
  ASSUME IInv, NEW t \in Techs, NEW r \in ReasonsOf(t), RegistrationChanged(t, r)
  PROVE  IInv'
<1> DEFINE allowed == \E u \in Techs : reason'[u] = "none"
<1>1. /\ reason \in [Techs -> Reasons] /\ reason' = [reason EXCEPT ![t] = r]
      /\ reason' \in [Techs -> Reasons] /\ deferred \subseteq Techs /\ deferred' \subseteq Techs
      /\ UNCHANGED <<dialing, queries, bytes, crashed>>
  BY BaseBearerAssumption DEF RegistrationChanged, IInv, StateType, ReasonsOf, Reasons
<1>2. CASE allowed
  <2>1. deferred' = {} /\ UNCHANGED <<bearer, leaving, released>>
    BY <1>2 DEF RegistrationChanged
  <2>2. Permitted'
    BY <1>2 DEF Permitted
  <2>3. StateType'
    BY <1>1, <2>1 DEF IInv, StateType
  <2>4. AttemptAlone' /\ LeaverAlone'
    BY <1>1, <2>1, <2>2 DEF IInv, AttemptAlone, LeaverAlone, Bare, Whole
  <2>5. WholeOrBare' /\ ReleasedIsDisconnected' /\ ~crashed' /\ DeferredIsDue'
    BY <1>1, <2>1 DEF IInv, WholeOrBare, ReleasedIsDisconnected, DeferredIsDue, Bare, Whole
  <2> QED
    BY <2>3, <2>4, <2>5 DEF IInv
<1>3. CASE ~allowed /\ r # "unregistered"
  <2>1. DisconnectForce(bearer) /\ deferred' = {}
    BY <1>3 DEF RegistrationChanged
  <2>2. DeferredIsDue'
    BY <2>1 DEF DeferredIsDue
  <2> QED
    BY <1>1, <2>1, <2>2, DisconnectForceKeepsInv
<1>4. CASE ~allowed /\ r = "unregistered" /\ t \in deferred
  <2>1. UNCHANGED <<bearer, leaving, released, deferred>>
    BY <1>4 DEF RegistrationChanged
  <2>2. reason[t] = "unregistered"
    BY <1>4 DEF IInv, DeferredIsDue
  <2>3. reason' = reason
    BY <1>1, <1>4, <2>2
  <2>4. queries' \subseteq Queries /\ bytes' \in [Attempts -> 0 .. MaxBytes]
    BY <1>1 DEF IInv, StateType
  <2> QED
    BY <1>1, <2>1, <2>3, <2>4, UnseenStep
<1>5. CASE ~allowed /\ r = "unregistered" /\ t \notin deferred /\ bearer.status # "connected"
  <2>1. DisconnectForce(bearer) /\ UNCHANGED deferred
    BY <1>5 DEF RegistrationChanged
  <2>2. DeferredIsDue'
    BY <1>1, <1>5, <2>1 DEF IInv, DeferredIsDue
  <2> QED
    BY <1>1, <2>1, <2>2, DisconnectForceKeepsInv
<1>6. CASE ~allowed /\ r = "unregistered" /\ t \notin deferred /\ bearer.status = "connected"
  <2>1. deferred' = deferred \union {t} /\ UNCHANGED <<bearer, leaving, released>>
    BY <1>6 DEF RegistrationChanged
  <2>2. DeferredIsDue'
    BY <1>1, <1>6, <2>1 DEF IInv, DeferredIsDue
  <2>3. (\A w \in Leavers : leaving'[w] = 0) /\ (\A k \in Attempts : dialing'[k] = "no")
    BY <1>1, <1>6, <2>1, Alone
  <2>4. StateType'
    BY <1>1, <2>1 DEF IInv, StateType
  <2>5. WholeOrBare' /\ ReleasedIsDisconnected' /\ ~crashed'
    BY <1>1, <2>1 DEF IInv, WholeOrBare, ReleasedIsDisconnected, Bare, Whole
  <2> QED
    BY <2>2, <2>3, <2>4, <2>5, NobodyLeft
<1> QED
  BY <1>2, <1>3, <1>4, <1>5, <1>6

LEMMA DeferredUnregistrationKeepsInv ==
  ASSUME IInv, NEW t \in Techs, DeferredUnregistration(t)
  PROVE  IInv'
<1>1. /\ reason' \in [Techs -> Reasons] /\ deferred' \subseteq Techs /\ DeferredIsDue'
      /\ DisconnectForce(bearer) /\ UNCHANGED <<dialing, queries, bytes, crashed>>
  BY DEF DeferredUnregistration, IInv, StateType, DeferredIsDue
<1> QED
  BY <1>1, DisconnectForceKeepsInv

----------------------------------------------------------------------------
(* The invariant                                                            *)

LEMMA InitHasInv ==
  Init => IInv
<1> SUFFICES ASSUME Init PROVE IInv
  OBVIOUS
<1> USE BaseBearerAssumption
<1>1. bearer \in BearerType
  BY DEF Init, BearerType, Statuses
<1>2. StateType
  <2>1. 0 \in Nat /\ 0 \in 0 .. MaxBytes
    OBVIOUS
  <2>2. leaving \in [Leavers -> Nat] /\ bytes \in [Attempts -> 0 .. MaxBytes]
        /\ dialing \in [Attempts -> {"no", "dialing", "probing"}]
    BY <2>1 DEF Init
  <2>3. queries \subseteq Queries /\ deferred \subseteq Techs /\ reason \in [Techs -> Reasons]
        /\ released \in BOOLEAN /\ crashed \in BOOLEAN
    BY DEF Init
  <2> QED
    BY <1>1, <2>2, <2>3 DEF StateType
<1>3. AttemptAlone /\ LeaverAlone /\ WholeOrBare /\ ReleasedIsDisconnected /\ ~crashed /\ DeferredIsDue
  BY DEF Init, AttemptAlone, LeaverAlone, WholeOrBare, ReleasedIsDisconnected,
     DeferredIsDue, Bare
<1> QED
  BY <1>2, <1>3 DEF IInv

LEMMA AnswerKeepsInv ==
  ASSUME IInv, Answer
  PROVE  IInv'
BY ConnectReadyKeepsInv, ReloadStatsSupportedReadyKeepsInv, DisconnectReadyKeepsInv,
   DisconnectForceReadyKeepsInv DEF Answer

LEMMA ActKeepsInv ==
  ASSUME IInv, Act
  PROVE  IInv'
<1>1. CASE Connect \/ DisconnectDone \/ DisconnectConnecting \/ DisconnectConnected \/ Answer \/ Traffic
  BY <1>1, ConnectKeepsInv, DisconnectDoneKeepsInv, DisconnectConnectingKeepsInv,
     DisconnectConnectedKeepsInv, AnswerKeepsInv, TrafficKeepsInv
<1>2. CASE \E k \in Attempts : MonitorUnsupported(k)
  BY <1>2, MonitorUnsupportedKeepsInv
<1>3. CASE \E kind \in {"stats", "monitor", "sync"} : Ask(kind) \/ \E k \in Attempts : NoNews(kind, k)
  BY <1>3, AskKeepsInv, NoNewsKeepsInv
<1>4. CASE \E t \in Techs : \/ \E r \in ReasonsOf(t) : RegistrationChanged(t, r)
                            \/ DeferredUnregistration(t)
  BY <1>4, RegistrationChangedKeepsInv, DeferredUnregistrationKeepsInv
<1> QED
  BY <1>1, <1>2, <1>3, <1>4 DEF Act

----------------------------------------------------------------------------
(* What holds in any state, disturbed or not                                 *)

LEMMA UpdateStatusSound ==
  ASSUME NEW b \in Sound, NEW s \in Statuses, s = "connected" => b.connection \in Attempts
  PROVE  UpdateStatus(b, s) \in Sound /\ UpdateStatus(b, s).connection = b.connection
<1>1. b \in BearerType /\ (b.status = "disconnected" => Bare(b))
  BY DEF Sound
<1>2. UpdateStatus(b, s) \in BearerType
  BY <1>1, UpdateStatusType
<1>3. UpdateStatus(b, s).status = s /\ UpdateStatus(b, s).connection = b.connection
  BY <1>1, UpdateStatusEffect
<1>4. s = "disconnected" => Bare(UpdateStatus(b, s))
  BY <1>1, UpdateStatusEffect DEF Bare
<1> QED
  BY <1>2, <1>3, <1>4 DEF Sound

(* Fields that no part of a connection shows in.                             *)
LEMMA ErrorSound ==
  ASSUME NEW b \in Sound, NEW e \in BOOLEAN
  PROVE  [b EXCEPT !.error = e] \in Sound /\ [b EXCEPT !.error = e].connection = b.connection
BY DEF Sound, BearerType, Bare

LEMMA WaiterSound ==
  ASSUME NEW b \in Sound, NEW w \in BOOLEAN
  PROVE  [b EXCEPT !.waiter = w] \in Sound /\ [b EXCEPT !.waiter = w].connection = b.connection
BY DEF Sound, BearerType, Bare

LEMMA StatsSupportedSound ==
  ASSUME NEW b \in Sound, NEW p \in BOOLEAN
  PROVE  [b EXCEPT !.statsSupported = p] \in Sound /\ [b EXCEPT !.statsSupported = p].connection = b.connection
BY DEF Sound, BearerType, Bare

LEMMA CancellableSound ==
  ASSUME NEW b \in Sound, NEW k \in 0 .. MaxAttempts
  PROVE  [b EXCEPT !.cancellable = k] \in Sound /\ [b EXCEPT !.cancellable = k].connection = b.connection
BY DEF Sound, BearerType, Bare

LEMMA CancelledSound ==
  ASSUME NEW b \in Sound, NEW C \in SUBSET Attempts
  PROVE  [b EXCEPT !.cancelled = C] \in Sound /\ [b EXCEPT !.cancelled = C].connection = b.connection
BY DEF Sound, BearerType, Bare

LEMMA ReportSound ==
  ASSUME NEW b \in Sound
  PROVE  Report(b) \in Sound /\ Report(b).connection = b.connection
<1> DEFINE e == [b EXCEPT !.error = TRUE]
<1>1. e \in Sound /\ e.connection = b.connection
  BY ErrorSound
<1>2. Report(b) = b \/ Report(b) = UpdateStatus(e, "disconnected")
  BY DEF Report
<1> HIDE DEF e
<1> QED
  BY <1>1, <1>2, UpdateStatusSound DEF Statuses

LEMMA CancelSound ==
  ASSUME NEW b \in Sound
  PROVE  Cancel(b) \in Sound /\ Cancel(b).connection = b.connection
<1>1. b.cancelled \union ({b.cancellable} \ {0}) \in SUBSET Attempts
  BY BaseBearerAssumption DEF Sound, BearerType, Attempts
<1> QED
  BY <1>1, CancelledSound DEF Cancel

LEMMA ConnectFailedSound ==
  ASSUME NEW b \in Sound, NEW c \in BOOLEAN
  PROVE  ConnectFailed(b, c) \in Sound /\ ConnectFailed(b, c).connection = b.connection
<1> DEFINE e == [b EXCEPT !.error = TRUE]
           s == IF c THEN "disconnecting" ELSE "disconnected"
           u == UpdateStatus(e, s)
<1>1. e \in Sound /\ e.connection = b.connection /\ s \in Statuses /\ s # "connected"
  BY ErrorSound DEF Statuses
<1>2. ConnectFailed(b, c) = [u EXCEPT !.cancellable = 0]
  BY DEF ConnectFailed
<1> HIDE DEF e, s
<1>3. u \in Sound /\ u.connection = b.connection
  BY <1>1, UpdateStatusSound
<1> HIDE DEF u
<1> QED
  BY <1>2, <1>3, CancellableSound, BaseBearerAssumption

LEMMA ConnectSucceededSound ==
  ASSUME NEW b \in Sound, NEW k \in Attempts, NEW m
  PROVE  ConnectSucceeded(b, k, m) \in Sound /\ ConnectSucceeded(b, k, m).connection = k
<1>1. /\ "connected" \in Statuses /\ 0 \in 0 .. MaxAttempts /\ k \in 0 .. MaxAttempts
      /\ (HasMonitor /\ ~b.unsupported) \in BOOLEAN /\ (b.ignore \/ m = "ppp") \in BOOLEAN
  BY BaseBearerAssumption DEF Statuses, Attempts
<1>2. b \in BearerType
  BY DEF Sound
<1>3. ConnectSucceeded(b, k, m) \in BearerType
  BY <1>1, <1>2 DEF ConnectSucceeded, BearerType
<1>4. ConnectSucceeded(b, k, m).status = "connected" /\ ConnectSucceeded(b, k, m).connection = k
  BY <1>2 DEF ConnectSucceeded, BearerType
<1> QED
  BY <1>3, <1>4 DEF Sound

LEMMA SetOngoingStatsSound ==
  ASSUME NEW b \in Sound, NEW n \in 0 .. MaxBytes
  PROVE  LET o == SetOngoingStats(b, n)
         IN  o \in Sound /\ o.connection = b.connection /\ o.total - b.total \in Nat
<1>1. b \in BearerType /\ b.total \in Nat /\ b.rx \in Nat
  BY BaseBearerAssumption DEF Sound, BearerType
<1>2. CASE n > b.rx
  <2>1. SetOngoingStats(b, n) = [b EXCEPT !.rx = n, !.total = @ + (n - b.rx)]
    BY <1>2 DEF SetOngoingStats
  <2>2. b.total + (n - b.rx) \in Nat /\ n - b.rx \in Nat
    BY <1>1, <1>2, BaseBearerAssumption
  <2>3. [b EXCEPT !.rx = n, !.total = @ + (n - b.rx)] \in Sound
    BY <1>1, <2>2 DEF Sound, BearerType, Bare
  <2>4. /\ [b EXCEPT !.rx = n, !.total = @ + (n - b.rx)].connection = b.connection
        /\ [b EXCEPT !.rx = n, !.total = @ + (n - b.rx)].total = b.total + (n - b.rx)
    BY <1>1 DEF BearerType
  <2> QED
    BY <1>1, <2>1, <2>2, <2>3, <2>4
<1>3. CASE ~(n > b.rx)
  BY <1>1, <1>3 DEF SetOngoingStats
<1> QED
  BY <1>2, <1>3

(* A step to a sound bearer, with what the rest of the state keeps.           *)
DialingType == [Attempts -> {"no", "dialing", "probing"}]

RestTyped ==
  /\ dialing \in DialingType /\ queries \subseteq Queries /\ bytes \in [Attempts -> 0 .. MaxBytes]
  /\ reason \in [Techs -> Reasons] /\ deferred \subseteq Techs /\ crashed \in BOOLEAN
  /\ DeferredIsDue

LEMMA BaseFacts ==
  ASSUME Base
  PROVE  /\ bearer \in Sound /\ bearer \in BearerType /\ leaving \in [Leavers -> Nat]
         /\ "user" \in Leavers /\ RestTyped /\ released \in BOOLEAN
BY DEF Base, StateType, RestTyped, DialingType, Leavers

LEMMA BecomesBase ==
  ASSUME Base, NEW b \in Sound, NEW ls \in SUBSET Leavers, Becomes(b, ls), RestTyped',
         "user" \in ls \/ leaving["user"] # 0 => b.connection \in Attempts
  PROVE  Base'
<1>1. bearer' = b /\ released' \in BOOLEAN
  BY BaseFacts DEF Becomes, Told
<1>2. leaving' \in [Leavers -> Nat]
  BY BaseFacts DEF Becomes
<1>3. leaving'["user"] # 0 => b.connection \in Attempts
  BY BaseFacts DEF Becomes
<1> QED
  BY <1>1, <1>2, <1>3 DEF Base, Sound, StateType, RestTyped, DialingType

LEMMA OnlyRestBase ==
  ASSUME Base, UNCHANGED <<bearer, leaving>>, released' \in BOOLEAN, RestTyped'
  PROVE  Base'
BY BaseFacts DEF Base, StateType, RestTyped, DialingType

(* The rest is typed after a step that leaves it alone, all but a part of it.  *)
LEMMA RestKept ==
  ASSUME Base, UNCHANGED <<reason, deferred>>, dialing' \in DialingType, queries' \subseteq Queries,
         bytes' \in [Attempts -> 0 .. MaxBytes], crashed' \in BOOLEAN
  PROVE  RestTyped'
BY BaseFacts DEF RestTyped, DeferredIsDue

----------------------------------------------------------------------------

LEMMA ConnectBase ==
  ASSUME Base, Connect
  PROVE  Base'
<1> DEFINE k == bearer.attempts + 1
           u == UpdateStatus(bearer, "connecting")
<1>1. k \in Attempts /\ k \in 0 .. MaxAttempts /\ 0 \in 0 .. MaxBytes
  BY BaseBearerAssumption DEF Connect, Attempts
<1>2. u \in Sound /\ u.connection = bearer.connection
  BY BaseFacts, UpdateStatusSound DEF Statuses
<1>3. u.status = "connecting"
  BY BaseFacts, UpdateStatusEffect DEF Statuses
<1>4. bearer' = [u EXCEPT !.attempts = k, !.rx = 0, !.error = FALSE, !.cancellable = k]
  BY DEF Connect
<1> HIDE DEF k, u
<1>5. bearer' \in Sound /\ bearer'.connection = bearer.connection
  BY <1>1, <1>2, <1>3, <1>4 DEF Sound, BearerType
<1>6. /\ dialing' \in DialingType /\ UNCHANGED <<leaving, queries, bytes, reason, deferred, crashed>>
      /\ released' \in BOOLEAN
  BY BaseFacts DEF Connect, RestTyped, DialingType
<1>7. RestTyped'
  BY <1>6, BaseFacts DEF RestTyped, DeferredIsDue
<1> QED
  BY <1>5, <1>6, <1>7, BaseFacts DEF Base, Sound, StateType, RestTyped, DialingType

LEMMA CheckedConnectBase ==
  ASSUME Base, NEW k \in Attempts, NEW b \in Sound, b.connection = bearer.connection,
         CheckedConnect(b, k), dialing' \in DialingType, UNCHANGED <<bytes, reason, deferred>>
  PROVE  Base'
<1>1. CASE IsCancelled(b)
  <2>1. Becomes(ConnectFailed(b, TRUE), {"cancel"}) /\ UNCHANGED <<queries, crashed>>
    BY <1>1 DEF CheckedConnect
  <2>2. RestTyped' /\ {"cancel"} \in SUBSET Leavers
    BY <2>1, BaseFacts, RestKept DEF RestTyped, Leavers
  <2>3. ConnectFailed(b, TRUE) \in Sound /\ ConnectFailed(b, TRUE).connection = bearer.connection
    BY ConnectFailedSound
  <2> QED
    BY <2>1, <2>2, <2>3, BecomesBase DEF Base
<1>2. CASE ~IsCancelled(b)
  <2>1. PICK m \in Methods : Becomes(ConnectSucceeded(b, k, m), {})
    BY <1>2 DEF CheckedConnect
  <2>2. queries' \subseteq Queries /\ crashed' \in BOOLEAN
    BY <1>2, BaseFacts DEF CheckedConnect, RestTyped, Queries, StartAllowed
  <2>3. RestTyped'
    BY <2>2, BaseFacts, RestKept DEF RestTyped
  <2>4. ConnectSucceeded(b, k, m) \in Sound /\ ConnectSucceeded(b, k, m).connection \in Attempts
    BY ConnectSucceededSound
  <2> QED
    BY <2>1, <2>3, <2>4, BecomesBase
<1> QED
  BY <1>1, <1>2

LEMMA ConnectReadyBase ==
  ASSUME Base, NEW k \in Attempts, ConnectReady(k)
  PROVE  Base'
<1>1. UNCHANGED <<bytes, reason, deferred>> /\ dialing' \in DialingType
  BY BaseFacts DEF ConnectReady, RestTyped, DialingType
<1>2. ASSUME NEW c \in BOOLEAN, UNCHANGED <<queries, crashed>>,
             Becomes(ConnectFailed(bearer, c), IF c THEN {"cancel"} ELSE {})
      PROVE  Base'
  <2>1. RestTyped' /\ (IF c THEN {"cancel"} ELSE {}) \in SUBSET Leavers
        /\ "user" \notin (IF c THEN {"cancel"} ELSE {})
    BY <1>1, <1>2, BaseFacts, RestKept DEF RestTyped, Leavers
  <2>2. ConnectFailed(bearer, c) \in Sound /\ ConnectFailed(bearer, c).connection = bearer.connection
    BY BaseFacts, ConnectFailedSound
  <2> QED
    BY <1>2, <2>1, <2>2, BecomesBase DEF Base
<1>3. CASE Becomes(ConnectFailed(bearer, FALSE), {}) /\ UNCHANGED <<queries, crashed>>
  BY <1>2, <1>3
<1>4. CASE Becomes(ConnectFailed(bearer, TRUE), {"cancel"}) /\ UNCHANGED <<queries, crashed>>
  BY <1>2, <1>4
<1>5. CASE UNCHANGED <<bearer, leaving, queries, released, crashed>>
  <2>1. RestTyped'
    BY <1>1, <1>5, BaseFacts, RestKept DEF RestTyped
  <2> QED
    BY <1>5, <2>1, BaseFacts, OnlyRestBase
<1>6. CASE CheckedConnect(bearer, k)
  BY <1>1, <1>6, BaseFacts, CheckedConnectBase
<1> QED
  BY <1>3, <1>4, <1>5, <1>6 DEF ConnectReady

LEMMA ReloadStatsSupportedReadyBase ==
  ASSUME Base, NEW k \in Attempts, ReloadStatsSupportedReady(k)
  PROVE  Base'
<1>1. PICK supported \in BOOLEAN :
        CheckedConnect([bearer EXCEPT !.statsSupported = @ \/ supported], k)
  BY DEF ReloadStatsSupportedReady
<1> DEFINE b == [bearer EXCEPT !.statsSupported = @ \/ supported]
<1>2. b \in Sound /\ b.connection = bearer.connection
  <2>1. (bearer.statsSupported \/ supported) \in BOOLEAN
    OBVIOUS
  <2> QED
    BY <2>1, BaseFacts, StatsSupportedSound
<1>3. CheckedConnect(b, k) /\ UNCHANGED <<bytes, reason, deferred>> /\ dialing' \in DialingType
  BY <1>1, BaseFacts DEF ReloadStatsSupportedReady, RestTyped, DialingType
<1> HIDE DEF b
<1> QED
  BY <1>2, <1>3, CheckedConnectBase

LEMMA DisconnectsBase ==
  ASSUME Base, DisconnectDone \/ DisconnectConnecting \/ DisconnectConnected
  PROVE  Base'
<1>1. UNCHANGED <<dialing, queries, bytes, reason, deferred, crashed>>
  BY DEF DisconnectDone, DisconnectConnecting, DisconnectConnected
<1>2. RestTyped'
  BY <1>1, BaseFacts, RestKept DEF RestTyped
<1>3. CASE DisconnectDone
  BY <1>2, <1>3, OnlyRestBase DEF DisconnectDone
<1>4. CASE DisconnectConnecting
  <2> DEFINE c == Cancel(UpdateStatus(bearer, "disconnecting"))
  <2>1. c \in Sound /\ c.connection = bearer.connection
    BY BaseFacts, UpdateStatusSound, CancelSound DEF Statuses
  <2> DEFINE d == [c EXCEPT !.waiter = TRUE]
  <2>2. Becomes(d, {})
    BY <1>4 DEF DisconnectConnecting
  <2> HIDE DEF c
  <2>3. d \in Sound /\ d.connection = bearer.connection
    BY <2>1, WaiterSound
  <2> HIDE DEF d
  <2> QED
    BY <1>2, <2>2, <2>3, BecomesBase DEF Base
<1>5. CASE DisconnectConnected
  <2> DEFINE u == UpdateStatus(bearer, "disconnecting")
  <2>1. u \in Sound /\ u.connection = bearer.connection /\ bearer.connection \in Attempts
    BY <1>5, BaseFacts, UpdateStatusSound DEF Statuses, DisconnectConnected, Sound
  <2>2. Becomes(u, {"user"}) /\ {"user"} \in SUBSET Leavers
    BY <1>5 DEF DisconnectConnected, Leavers
  <2> HIDE DEF u
  <2> QED
    BY <1>2, <2>1, <2>2, BecomesBase
<1> QED
  BY <1>3, <1>4, <1>5

LEMMA LeftTyped ==
  ASSUME Base, NEW w \in Leavers, leaving[w] > 0, Left(w)
  PROVE  leaving' \in [Leavers -> Nat] /\ (leaving'["user"] # 0 => leaving["user"] # 0)
BY BaseFacts DEF Left

LEMMA DisconnectReadyBase ==
  ASSUME Base, DisconnectReady
  PROVE  Base'
<1>1. /\ leaving["user"] > 0 /\ Left("user") /\ released' \in BOOLEAN
      /\ UNCHANGED <<dialing, queries, bytes, reason, deferred, crashed>>
  BY BaseFacts DEF DisconnectReady
<1>2. RestTyped'
  BY <1>1, BaseFacts, RestKept DEF RestTyped
<1>3. bearer.connection \in Attempts
  BY <1>1, BaseFacts DEF Base
<1>4. bearer' \in Sound /\ bearer'.connection = bearer.connection
  BY <1>3, BaseFacts, UpdateStatusSound DEF DisconnectReady, Statuses
<1>5. leaving' \in [Leavers -> Nat]
  BY <1>1, BaseFacts, LeftTyped
<1> QED
  BY <1>1, <1>2, <1>3, <1>4, <1>5 DEF Base, Sound, StateType, RestTyped, DialingType

LEMMA DisconnectForceReadyBase ==
  ASSUME Base, NEW w \in Leavers, DisconnectForceReady(w)
  PROVE  Base'
<1>1. /\ leaving[w] > 0 /\ Left(w) /\ released' \in BOOLEAN /\ bearer' = Report(bearer)
      /\ UNCHANGED <<dialing, queries, bytes, reason, deferred, crashed>>
  BY BaseFacts DEF DisconnectForceReady, Told
<1>2. RestTyped'
  BY <1>1, BaseFacts, RestKept DEF RestTyped
<1>3. bearer' \in Sound /\ bearer'.connection = bearer.connection
  BY <1>1, BaseFacts, ReportSound
<1>4. leaving' \in [Leavers -> Nat] /\ (leaving'["user"] # 0 => leaving["user"] # 0)
  BY <1>1, LeftTyped
<1> QED
  BY <1>1, <1>2, <1>3, <1>4 DEF Base, Sound, StateType, RestTyped, DialingType

LEMMA AnswerBase ==
  ASSUME Base, Answer
  PROVE  Base'
BY ConnectReadyBase, ReloadStatsSupportedReadyBase, DisconnectReadyBase, DisconnectForceReadyBase
   DEF Answer

LEMMA BeReportedBase ==
  ASSUME Base, BeReported
  PROVE  Base'
<1>1. Becomes(Report(bearer), {}) /\ UNCHANGED <<dialing, bytes, reason, deferred, crashed>>
  BY DEF BeReported, UnsolicitedReport, FoundDisconnected, Answered
<1>2. queries' \subseteq Queries
  BY BaseFacts DEF BeReported, UnsolicitedReport, FoundDisconnected, Answered, RestTyped
<1>3. RestTyped'
  BY <1>1, <1>2, BaseFacts, RestKept DEF RestTyped
<1>4. Report(bearer) \in Sound /\ Report(bearer).connection = bearer.connection
  BY BaseFacts, ReportSound
<1> QED
  BY <1>1, <1>3, <1>4, BecomesBase DEF Base

(* Traffic, questions and answers without news.                               *)
LEMMA UnseenBase ==
  ASSUME Base, \/ Traffic
               \/ \E kind \in {"stats", "monitor", "sync"} :
                    Ask(kind) \/ \E k \in Attempts : NoNews(kind, k)
  PROVE  Base'
<1>1. UNCHANGED <<bearer, dialing, leaving, reason, deferred, released, crashed>>
  BY DEF Traffic, Ask, NoNews, Answered
<1>2. bytes' \in [Attempts -> 0 .. MaxBytes]
  <2>1. Traffic => bytes' \in [Attempts -> 0 .. MaxBytes]
    BY BaseFacts, BaseBearerAssumption DEF Traffic, RestTyped
  <2>2. ~Traffic => bytes' = bytes
    BY DEF Ask, NoNews, Answered
  <2> QED
    BY <2>1, <2>2, BaseFacts DEF RestTyped
<1>3. queries' \subseteq Queries
  <2>1. \A kind \in {"stats", "monitor", "sync"} : Ask(kind) => queries' \subseteq Queries
    BY BaseFacts DEF Ask, RestTyped, Queries, Sound
  <2>2. Traffic => queries' = queries
    BY DEF Traffic
  <2>3. \A kind, k : NoNews(kind, k) => queries' \subseteq queries
    BY DEF NoNews, Answered
  <2> QED
    BY <2>1, <2>2, <2>3, BaseFacts DEF RestTyped
<1>4. RestTyped'
  BY <1>1, <1>2, <1>3, BaseFacts, RestKept DEF RestTyped
<1> QED
  BY <1>1, <1>4, BaseFacts, OnlyRestBase

LEMMA MonitorUnsupportedBase ==
  ASSUME Base, NEW k \in Attempts, MonitorUnsupported(k)
  PROVE  Base'
<1> DEFINE b == [bearer EXCEPT !.unsupported = TRUE, !.monitor = FALSE]
<1>1. b \in Sound /\ b.connection = bearer.connection
  BY BaseFacts DEF Sound, BearerType, Bare
<1>2. Becomes(b, {}) /\ UNCHANGED <<dialing, bytes, reason, deferred, crashed>>
      /\ queries' \subseteq Queries
  BY BaseFacts DEF MonitorUnsupported, Answered, RestTyped
<1> HIDE DEF b
<1>3. RestTyped'
  BY <1>2, BaseFacts, RestKept DEF RestTyped
<1> QED
  BY <1>1, <1>2, <1>3, BecomesBase DEF Base

LEMMA ReloadStatsReadyBase ==
  ASSUME Base, NEW k \in Attempts, ReloadStatsReady(k)
  PROVE  Base' /\ bearer'.total - bearer.total \in Nat
<1> DEFINE b == SetOngoingStats(bearer, bytes[k])
<1>1. b \in Sound /\ b.connection = bearer.connection /\ b.total - bearer.total \in Nat
  BY BaseFacts, SetOngoingStatsSound DEF RestTyped
<1>2. Becomes(b, {}) /\ UNCHANGED <<dialing, bytes, reason, deferred, crashed>>
      /\ queries' \subseteq Queries
  BY BaseFacts DEF ReloadStatsReady, Answered, RestTyped
<1> HIDE DEF b
<1>3. RestTyped'
  BY <1>2, BaseFacts, RestKept DEF RestTyped
<1>4. Base'
  BY <1>1, <1>2, <1>3, BecomesBase DEF Base
<1> QED
  BY <1>1, <1>2, <1>4 DEF Becomes

LEMMA DisconnectForceBase ==
  ASSUME Base, DisconnectForce(bearer), RestTyped'
  PROVE  Base'
<1>1. CASE Becomes(bearer, {})
  BY <1>1, BaseFacts, BecomesBase DEF Base
<1>2. CASE Becomes([bearer EXCEPT !.request = TRUE], {}) /\ bearer.status # "disconnected"
  <2> DEFINE d == [bearer EXCEPT !.request = TRUE]
  <2>1. d \in Sound /\ d.connection = bearer.connection /\ Becomes(d, {})
    BY <1>2, BaseFacts DEF Sound, BearerType
  <2> HIDE DEF d
  <2> QED
    BY <1>2, <2>1, BecomesBase DEF Base
<1>3. CASE Becomes(Cancel(bearer), {})
  BY <1>3, BaseFacts, CancelSound, BecomesBase DEF Base
<1>4. CASE Becomes(UpdateStatus(bearer, "disconnecting"), {"force"})
  <2>1. /\ UpdateStatus(bearer, "disconnecting") \in Sound
        /\ UpdateStatus(bearer, "disconnecting").connection = bearer.connection
    BY BaseFacts, UpdateStatusSound DEF Statuses
  <2>2. {"force"} \in SUBSET Leavers /\ "user" \notin {"force"}
    BY DEF Leavers
  <2> QED
    BY <1>4, <2>1, <2>2, BecomesBase DEF Base
<1> QED
  BY <1>1, <1>2, <1>3, <1>4 DEF DisconnectForce

(* A timer is armed only when it is due, and stopped when it is not any more.  *)
LEMMA RegistrationChangedBase ==
  ASSUME Base, NEW t \in Techs, NEW r \in ReasonsOf(t), RegistrationChanged(t, r)
  PROVE  Base'
<1>1. r \in Reasons
  BY BaseBearerAssumption DEF ReasonsOf, Reasons
<1>2. /\ reason' = [reason EXCEPT ![t] = r] /\ reason \in [Techs -> Reasons]
      /\ reason' \in [Techs -> Reasons] /\ UNCHANGED <<dialing, queries, bytes, crashed>>
      /\ deferred \subseteq Techs /\ DeferredIsDue
  BY <1>1, BaseFacts DEF RegistrationChanged, RestTyped
<1>3. deferred' \subseteq Techs /\ DeferredIsDue'
  <2>1. CASE deferred' = {}
    BY <2>1 DEF DeferredIsDue
  <2>2. CASE deferred' # {}
    <3>1. r = "unregistered" /\ (\A u \in Techs : reason'[u] # "none")
          /\ deferred' \subseteq deferred \union {t}
      BY <2>2 DEF RegistrationChanged
    <3> QED
      BY <1>2, <3>1 DEF DeferredIsDue
  <2> QED
    BY <2>1, <2>2
<1>4. RestTyped'
  BY <1>2, <1>3, BaseFacts DEF RestTyped
<1>5. CASE UNCHANGED <<bearer, leaving, released>>
  BY <1>4, <1>5, BaseFacts, OnlyRestBase
<1>6. CASE DisconnectForce(bearer)
  BY <1>4, <1>6, DisconnectForceBase
<1> QED
  BY <1>5, <1>6 DEF RegistrationChanged

LEMMA DeferredUnregistrationBase ==
  ASSUME Base, NEW t \in Techs, DeferredUnregistration(t)
  PROVE  Base'
<1>1. RestTyped'
  BY BaseFacts DEF DeferredUnregistration, RestTyped, DeferredIsDue
<1> QED
  BY <1>1, DisconnectForceBase DEF DeferredUnregistration

LEMMA ActBase ==
  ASSUME Base, Act
  PROVE  Base'
<1>1. CASE Connect \/ DisconnectDone \/ DisconnectConnecting \/ DisconnectConnected \/ Answer
  BY <1>1, ConnectBase, DisconnectsBase, AnswerBase
<1>2. CASE \/ Traffic
           \/ \E kind \in {"stats", "monitor", "sync"} :
                Ask(kind) \/ \E k \in Attempts : NoNews(kind, k)
  BY <1>2, UnseenBase
<1>3. CASE \E k \in Attempts : MonitorUnsupported(k)
  BY <1>3, MonitorUnsupportedBase
<1>4. CASE \E t \in Techs : \/ \E r \in ReasonsOf(t) : RegistrationChanged(t, r)
                            \/ DeferredUnregistration(t)
  BY <1>4, RegistrationChangedBase, DeferredUnregistrationBase
<1> QED
  BY <1>1, <1>2, <1>3, <1>4 DEF Act

----------------------------------------------------------------------------
(* The invariant                                                            *)

(* At rest nothing is left of what disturbed the bearer.                      *)
LEMMA RestsInOrder == Base /\ AtRest => IInv
BY DEF Base, Sound, AtRest, IInv, AttemptAlone, LeaverAlone, WholeOrBare, ReleasedIsDisconnected

LEMMA InitOrderly == Init => TypeOK /\ Base /\ Orderly
<1> SUFFICES ASSUME Init PROVE TypeOK /\ Base /\ Orderly
  OBVIOUS
<1>1. IInv
  BY InitHasInv
<1>2. bearer.status = "disconnected" /\ leaving["user"] = 0 /\ disturbed = FALSE /\ again = 0
  BY DEF Init, Leavers
<1> QED
  BY <1>1, <1>2 DEF IInv, WholeOrBare, Base, Sound, StateType, TypeOK, Orderly

LEMMA NextBase ==
  ASSUME TypeOK, Base, [Next]_<<vars, history>>
  PROVE  TypeOK' /\ Base'
<1>1. CASE Act /\ Remember(FALSE, 0)
  BY <1>1, ActBase DEF TypeOK, Base, Remember
<1>2. CASE BeReported /\ Remember(bearer.status \in {"connecting", "disconnecting"}, 0)
  BY <1>2, BeReportedBase DEF TypeOK, Base, Remember
<1>3. ASSUME NEW k \in Attempts, ReloadStatsReady(k), NEW n,
             n = IF k = bearer.attempts THEN 0 ELSE bearer'.total - bearer.total,
             Remember(FALSE, n)
      PROVE  TypeOK' /\ Base'
  <2>1. n \in Nat /\ Base'
    BY <1>3, ReloadStatsReadyBase
  <2> QED
    BY <1>3, <2>1 DEF TypeOK, Base, Remember
<1>4. CASE UNCHANGED <<vars, history>>
  BY <1>4 DEF vars, history, TypeOK, StateType, Base, Sound, DeferredIsDue
<1> QED
  BY <1>1, <1>2, <1>3, <1>4 DEF Next

LEMMA NextOrderly ==
  ASSUME Base, Orderly, [Next]_<<vars, history>>, Base'
  PROVE  Orderly'
<1> SUFFICES ASSUME ~disturbed' PROVE IInv'
  BY DEF Orderly
<1>1. CASE AtRest'
  <2>1. (Base /\ AtRest => IInv)'
    BY RestsInOrder, PTL
  <2> QED
    BY <1>1, <2>1
<1>2. CASE ~AtRest'
  <2>1. CASE Act /\ Remember(FALSE, 0)
    BY <1>2, <2>1, ActKeepsInv DEF Remember, Orderly
  <2>2. CASE BeReported /\ Remember(bearer.status \in {"connecting", "disconnecting"}, 0)
    <3>1. ~disturbed /\ bearer.status \notin {"connecting", "disconnecting"}
      BY <1>2, <2>2 DEF Remember
    <3> QED
      BY <2>2, <3>1, BeReportedKeepsInv DEF Orderly
  <2>3. ASSUME NEW k \in Attempts, ReloadStatsReady(k), NEW n, Remember(FALSE, n)
        PROVE  IInv'
    BY <1>2, <2>3, ReloadStatsReadyKeepsInv DEF Remember, Orderly
  <2>4. CASE UNCHANGED <<vars, history>>
    <3>1. IInv /\ UNCHANGED vars
      BY <2>4 DEF history, Orderly
    <3>2. queries' \subseteq Queries /\ bytes' \in [Attempts -> 0 .. MaxBytes]
      BY <3>1 DEF vars, IInv, StateType
    <3> QED
      BY <3>1, <3>2, UnseenStep DEF vars
  <2> QED
    BY <2>1, <2>2, <2>3, <2>4 DEF Next
<1> QED
  BY <1>1, <1>2

LEMMA SpecInv == Spec => [](TypeOK /\ Base /\ Orderly)
BY InitOrderly, NextBase, NextOrderly, PTL DEF Spec

----------------------------------------------------------------------------
(* How the status and the connection change in one step                     *)

Kept ==
  /\ bearer'.connection = bearer.connection
  /\ bearer'.status = "connected" /\ leaving' = leaving => bearer.status = "connected"
  /\ bearer.ignore /\ bearer.status = "connected" /\ bearer'.status # "connected" =>
       leaving'["user"] > leaving["user"]

Established ==
  /\ bearer'.connection \notin bearer.cancelled
  /\ Permitted /\ reason' = reason
  /\ bearer.status # "connected"

LEMMA ForceKeeps ==
  ASSUME IInv, DisconnectForce(bearer)
  PROVE  Kept
<1>1. bearer \in BearerType
  BY Alone
<1>2. CASE bearer' = bearer
  BY <1>2 DEF Kept
<1>3. CASE bearer' = [bearer EXCEPT !.request = TRUE]
  BY <1>1, <1>3 DEF Kept, BearerType
<1>4. CASE bearer' = Cancel(bearer)
  BY <1>1, <1>4 DEF Kept, Cancel, BearerType
<1>5. CASE bearer' = UpdateStatus(bearer, "disconnecting") /\ ~bearer.ignore
  BY <1>1, <1>5, UpdateStatusEffect DEF Kept, Statuses
<1> QED
  BY <1>2, <1>3, <1>4, <1>5, Zenon DEF DisconnectForce, Becomes

LEMMA ReportKeeps ==
  ASSUME IInv, bearer' = Report(bearer)
  PROVE  Kept
<1> DEFINE e == [bearer EXCEPT !.error = TRUE]
<1>1. e \in BearerType /\ e.connection = bearer.connection
  BY Alone DEF BearerType
<1>2. bearer' = IF bearer.ignore THEN bearer ELSE UpdateStatus(e, "disconnected")
  BY DEF Report
<1> HIDE DEF e
<1> QED
  BY <1>1, <1>2, UpdateStatusEffect DEF Kept, Statuses

LEMMA FailedKeeps ==
  ASSUME IInv, NEW k \in Attempts, dialing[k] # "no", NEW b \in BearerType, b.status = bearer.status,
         Bare(b), b.connection = bearer.connection, NEW c \in BOOLEAN, bearer' = ConnectFailed(b, c)
  PROVE  Kept
<1>1. bearer.status \in {"connecting", "disconnecting"}
  BY DEF IInv, AttemptAlone
<1> QED
  BY <1>1, ConnectFailedEffect DEF Kept

LEMMA CheckedConnectSteps ==
  ASSUME IInv, NEW k \in Attempts, dialing[k] # "no", NEW b \in BearerType, b.status = bearer.status,
         Bare(b), b.connection = bearer.connection, b.cancelled = bearer.cancelled,
         b.cancellable = bearer.cancellable, b.error = bearer.error,
         CheckedConnect(b, k), UNCHANGED reason
  PROVE  Kept \/ Established
<1>1. CASE IsCancelled(b)
  <2>1. bearer' = ConnectFailed(b, TRUE)
    BY <1>1 DEF CheckedConnect, Becomes
  <2> QED
    BY <2>1, FailedKeeps
<1>2. CASE ~IsCancelled(b)
  <2> PICK m \in Methods : bearer' = ConnectSucceeded(b, k, m)
    BY <1>2 DEF CheckedConnect, Becomes
  <2>1. /\ k = bearer.cancellable /\ bearer.status # "connected" /\ ~b.error
        /\ k \notin bearer.cancelled => Permitted
    BY DEF IInv, AttemptAlone
  <2>2. k \notin bearer.cancelled
    BY <1>2, <2>1 DEF IsCancelled
  <2>3. bearer'.connection = k
    BY <2>1, ConnectSucceededEffect
  <2> QED
    BY <2>1, <2>2, <2>3 DEF Established
<1> QED
  BY <1>1, <1>2

LEMMA ConnectReadySteps ==
  ASSUME IInv, NEW k \in Attempts, ConnectReady(k) \/ ReloadStatsSupportedReady(k)
  PROVE  Kept \/ Established
<1>1. bearer \in BearerType /\ dialing[k] # "no" /\ Bare(bearer) /\ UNCHANGED reason
  BY Alone DEF ConnectReady, ReloadStatsSupportedReady, IInv, AttemptAlone
<1>2. CASE ReloadStatsSupportedReady(k)
  <2> PICK supported \in BOOLEAN :
        CheckedConnect([bearer EXCEPT !.statsSupported = @ \/ supported], k)
    BY <1>2 DEF ReloadStatsSupportedReady
  <2> DEFINE b == [bearer EXCEPT !.statsSupported = @ \/ supported]
  <2>1. /\ b \in BearerType /\ b.status = bearer.status /\ Bare(b) /\ b.error = bearer.error
        /\ b.connection = bearer.connection /\ b.cancelled = bearer.cancelled
        /\ b.cancellable = bearer.cancellable
    BY <1>1 DEF BearerType, Bare
  <2>2. CheckedConnect(b, k)
    OBVIOUS
  <2> HIDE DEF b
  <2> QED
    BY <1>1, <2>1, <2>2, CheckedConnectSteps
<1>3. CASE CheckedConnect(bearer, k)
  BY <1>1, <1>3, CheckedConnectSteps
<1>4. CASE bearer' = ConnectFailed(bearer, FALSE) \/ bearer' = ConnectFailed(bearer, TRUE)
  BY <1>1, <1>4, FailedKeeps
<1>5. CASE bearer' = bearer
  BY <1>5 DEF Kept
<1> QED
  BY <1>2, <1>3, <1>4, <1>5 DEF ConnectReady, Becomes

LEMMA Steps ==
  ASSUME IInv, [Next]_<<vars, history>>
  PROVE  Kept \/ Established
<1>1. bearer \in BearerType /\ "user" \in Leavers
  BY Alone DEF Leavers
<1>2. CASE bearer' = bearer
  BY <1>2 DEF Kept
<1>3. CASE Connect
  <2> DEFINE u == UpdateStatus(bearer, "connecting")
  <2>1. u \in BearerType /\ u.connection = bearer.connection /\ u.status = "connecting"
    BY <1>1, UpdateStatusType, UpdateStatusEffect DEF Statuses
  <2>2. bearer' = [u EXCEPT !.attempts = bearer.attempts + 1, !.rx = 0, !.error = FALSE,
                            !.cancellable = bearer.attempts + 1]
        /\ bearer.status = "disconnected"
    BY <1>3 DEF Connect
  <2> HIDE DEF u
  <2> QED
    BY <2>1, <2>2 DEF Kept, BearerType
<1>4. CASE DisconnectConnecting
  <2> DEFINE u == UpdateStatus(bearer, "disconnecting")
  <2>1. u \in BearerType /\ u.connection = bearer.connection /\ u.status = "disconnecting"
    BY <1>1, UpdateStatusType, UpdateStatusEffect DEF Statuses
  <2>2. bearer' = [Cancel(u) EXCEPT !.waiter = TRUE] /\ bearer.status = "connecting"
    BY <1>4 DEF DisconnectConnecting, Becomes
  <2> HIDE DEF u
  <2> QED
    BY <2>1, <2>2 DEF Kept, Cancel, BearerType
<1>5. CASE DisconnectConnected
  <2>1. UpdateStatus(bearer, "disconnecting").connection = bearer.connection
        /\ UpdateStatus(bearer, "disconnecting").status = "disconnecting"
    BY <1>1, UpdateStatusEffect DEF Statuses
  <2>2. leaving'["user"] = leaving["user"] + 1 /\ leaving["user"] \in Nat
    BY <1>1, <1>5 DEF DisconnectConnected, Becomes, IInv, StateType
  <2>3. leaving'["user"] > leaving["user"]
    BY <2>2, BaseBearerAssumption
  <2> QED
    BY <1>5, <2>1, <2>3 DEF Kept, DisconnectConnected, Becomes
<1>6. CASE DisconnectReady
  <2>1. bearer.status = "disconnecting" /\ leaving["user"] = 1
    BY <1>1, <1>6 DEF DisconnectReady, IInv, LeaverAlone
  <2>2. leaving' # leaving
    BY <1>1, <1>6, <2>1 DEF DisconnectReady, Left, IInv, StateType
  <2>3. bearer' = UpdateStatus(bearer, "disconnected") \/ bearer' = UpdateStatus(bearer, "connected")
    BY <1>6 DEF DisconnectReady
  <2>4. bearer'.connection = bearer.connection
    BY <1>1, <2>3, UpdateStatusEffect DEF Statuses
  <2> QED
    BY <2>1, <2>2, <2>4 DEF Kept
<1>7. CASE \E w \in Leavers : DisconnectForceReady(w)
  <2>1. bearer.status = "disconnecting" /\ bearer' = Report(bearer)
    BY <1>7 DEF DisconnectForceReady, IInv, StateType, LeaverAlone
  <2> QED
    BY <2>1, ReportKeeps
<1>8. CASE BeReported
  <2>1. bearer' = Report(bearer)
    BY <1>8 DEF BeReported, UnsolicitedReport, FoundDisconnected, Becomes
  <2> QED
    BY <2>1, ReportKeeps
<1>9. CASE \E k \in Attempts : MonitorUnsupported(k)
  BY <1>1, <1>9 DEF MonitorUnsupported, Becomes, Kept, BearerType
<1>10. CASE \E k \in Attempts : ReloadStatsReady(k)
  <2> PICK k \in Attempts : bearer' = SetOngoingStats(bearer, bytes[k])
    BY <1>10 DEF ReloadStatsReady, Becomes
  <2> QED
    BY <1>1 DEF SetOngoingStats, Kept, BearerType
<1>11. CASE DisconnectForce(bearer)
  BY <1>11, ForceKeeps
<1>12. CASE \E k \in Attempts : ConnectReady(k) \/ ReloadStatsSupportedReady(k)
  BY <1>12, ConnectReadySteps
<1> QED
  <2>1. DisconnectDone \/ Traffic => bearer' = bearer
    BY DEF DisconnectDone, Traffic
  <2>2. \A kind, k : Ask(kind) \/ NoNews(kind, k) => bearer' = bearer
    BY DEF Ask, NoNews
  <2>3. \A t, r : RegistrationChanged(t, r) => bearer' = bearer \/ DisconnectForce(bearer)
    BY DEF RegistrationChanged
  <2>4. \A t : DeferredUnregistration(t) => DisconnectForce(bearer)
    BY DEF DeferredUnregistration
  <2>5. UNCHANGED <<vars, history>> => bearer' = bearer
    BY DEF vars
  <2> QED
    BY <1>2, <1>3, <1>4, <1>5, <1>6, <1>7, <1>8, <1>9, <1>10, <1>11, <1>12,
       <2>1, <2>2, <2>3, <2>4, <2>5 DEF Next, Act, Answer

----------------------------------------------------------------------------
(* The theorems, in any environment                                          *)

(* The types of the bearer, of what the plugin is asked for, of the timers and  *)
(* of the history.                                                           *)
THEOREM SpecTypeOK == Spec => []TypeOK
BY SpecInv, PTL

(* No assert fails: the timers of a connection are never started over those of  *)
(* another one (bearer_stats_start, connection_monitor_start), whatever reports  *)
(* and answers come, unless a report met the bearer on its way and it was not   *)
(* at rest since.                                                            *)
THEOREM SpecAssertsHold == Spec => []AssertsHold
<1>1. Orderly => AssertsHold
  BY DEF Orderly, IInv, AssertsHold
<1> QED
  BY <1>1, SpecInv, PTL

(* A disconnected bearer has nothing of a connection in any state; a connected  *)
(* one that is not disturbed is whole, and a connecting one bare.              *)
THEOREM SpecStatusIsWhole == Spec => []StatusIsWhole
<1>1. Base /\ Orderly => StatusIsWhole
  BY DEF Base, Sound, Orderly, IInv, WholeOrBare, Whole, Bare, StatusIsWhole, ConnectedIsWhole
<1> QED
  BY <1>1, SpecInv, PTL

(* A Disconnect that succeeded lasts until a connection is asked for, whichever  *)
(* answers to polls are on their way, while the bearer is not disturbed.        *)
THEOREM SpecDisconnectSticks == Spec => []DisconnectSticks
<1>1. Orderly => DisconnectSticks
  BY DEF Orderly, IInv, ReleasedIsDisconnected, DisconnectSticks
<1> QED
  BY <1>1, SpecInv, PTL

(* A cancelled attempt never becomes the connection.                          *)
THEOREM SpecCancelledNeverConnects == Spec => CancelledNeverConnects
<1>1. Orderly /\ [Next]_<<vars, history>> =>
        [~disturbed => \A k \in bearer.cancelled :
                         bearer.connection # k => bearer'.connection # k]_vars
  BY Steps DEF Kept, Established, Orderly
<1> QED
  BY <1>1, SpecInv, PTL DEF Spec, CancelledNeverConnects

(* Roaming at the moment of success, and not only at the request, forbids the  *)
(* connection.                                                                *)
THEOREM SpecRoamingNeverConnects == Spec => RoamingNeverConnects
<1>1. Orderly /\ [Next]_<<vars, history>> =>
        [~disturbed /\ bearer.status # "connected" /\ bearer'.status = "connected" /\ leaving' = leaving
           => ~(/\ \E t \in Techs : reason[t] = "roaming"
                /\ \A t \in Techs : reason[t] # "none")]_vars
  BY Steps DEF Kept, Established, Permitted, Orderly
<1> QED
  BY <1>1, SpecInv, PTL DEF Spec, RoamingNeverConnects

(* Nothing but a Disconnect takes a PPP connection down.                      *)
THEOREM SpecPppStays == Spec => PppStays
<1>1. Orderly /\ [Next]_<<vars, history>> =>
        [~disturbed /\ bearer.ignore /\ bearer.status = "connected" /\ bearer'.status # "connected"
           => leaving'["user"] > leaving["user"]]_vars
  BY Steps DEF Kept, Established, Orderly
<1> QED
  BY <1>1, SpecInv, PTL DEF Spec, PppStays

(* A deferred unregistration is waited for only while the reason it is about   *)
(* holds, whatever the plugin and the device do.                              *)
THEOREM SpecDeferredIsDue == Spec => []DeferredIsDue
<1>1. Base => DeferredIsDue
  BY DEF Base
<1> QED
  BY <1>1, SpecInv, PTL

----------------------------------------------------------------------------
(* Sums of functions.  SumFunction is a recursion over the set of indices; that *)
(* it has a solution, and what is true of every sum, is shown by a smallest set *)
(* of indices for which it would fail.                                         *)

(* A nonempty set of naturals has a least element.                            *)
LEMMA LeastElement ==
  ASSUME NEW T \in SUBSET Nat, T # {}
  PROVE  \E i \in T : \A j \in T : ~(j < i)
<1> DEFINE Segments == {0 .. i : i \in T}
<1>1. Segments \subseteq FiniteSubsetsOf(Nat)
  <2>1. \A i \in T : IsFiniteSet(0 .. i)
    BY FS_Interval
  <2> QED BY <2>1 DEF FiniteSubsetsOf
<1>2. Segments # {}
  OBVIOUS
<1>3. PICK m \in Segments : \A y \in Segments : ~(<<y, m>> \in StrictSubsetOrdering(Nat))
  <2> HIDE DEF Segments
  <2> QED BY <1>1, <1>2, FS_StrictSubsetOrderingWellFounded, WFMin
<1>4. PICK i \in T : m = 0 .. i
  OBVIOUS
<1>5. ASSUME NEW j \in T, j < i PROVE FALSE
  <2>1. 0 .. j \in SUBSET Nat /\ 0 .. i \in SUBSET Nat
    OBVIOUS
  <2>2. 0 .. j \subseteq 0 .. i
    BY <1>5
  <2>3. i \in 0 .. i /\ i \notin 0 .. j
    BY <1>5
  <2>4. <<0 .. j, 0 .. i>> \in StrictSubsetOrdering(Nat)
    BY <2>1, <2>2, <2>3 DEF StrictSubsetOrdering
  <2> QED BY <1>3, <1>4, <2>4
<1> QED BY <1>5

(* The sum g[s] of f over the indices s, by the recursion of MapThenFoldSet.    *)
Chosen(s) == CHOOSE x \in s : TRUE
SumStep(g, f, s) == IF s = {} THEN 0 ELSE f[Chosen(s)] + g[s \ {Chosen(s)}]
IsSum(g, f, D) == g = [s \in D |-> SumStep(g, f, s)]
PartialSum(f) == CHOOSE g : IsSum(g, f, SUBSET DOMAIN f)

LEMMA FoldIsPartialSum ==
  ASSUME NEW f
  PROVE SumFunction(f) = PartialSum(f)[DOMAIN f]
BY Zenon DEF SumFunction, SumFunctionOnSet, FoldFunctionOnSet, MapThenFoldSet, PartialSum, IsSum,
             SumStep, Chosen

(* The recursion has a solution: on the sets with at most n elements, for   *)
(* every n, and so on all of them.                                           *)
Small(S, n) == {s \in SUBSET S : Cardinality(s) <= n}
Solvable(f, S) == {n \in Nat : \E g : IsSum(g, f, Small(S, n))}

LEMMA SmallerIsSmall ==
  ASSUME NEW S, IsFiniteSet(S), NEW n \in Nat, NEW s \in Small(S, n + 1), s # {}
  PROVE  s \ {Chosen(s)} \in Small(S, n)
<1>1. Chosen(s) \in s /\ s \in SUBSET S /\ Cardinality(s) <= n + 1
  BY DEF Chosen, Small
<1>2. IsFiniteSet(s)
  BY <1>1, FS_Subset
<1>3. Cardinality(s \ {Chosen(s)}) = Cardinality(s) - 1 /\ Cardinality(s) \in Nat
  BY <1>1, <1>2, FS_RemoveElement, FS_CardinalityType
<1>4. Cardinality(s \ {Chosen(s)}) <= n
  BY <1>1, <1>3
<1> QED
  BY <1>1, <1>4 DEF Small

LEMMA EveryStepSolvable ==
  ASSUME NEW f, NEW S, IsFiniteSet(S), NEW n \in Nat
  PROVE  n \in Solvable(f, S)
<1>1. 0 \in Solvable(f, S)
  <2> DEFINE g == [s \in Small(S, 0) |-> 0]
  <2>1. \A s \in Small(S, 0) : s = {}
    <3> SUFFICES ASSUME NEW s \in Small(S, 0) PROVE s = {}
      OBVIOUS
    <3>1. s \in SUBSET S /\ Cardinality(s) <= 0
      BY DEF Small
    <3>2. IsFiniteSet(s)
      BY <3>1, FS_Subset
    <3> QED BY <3>1, <3>2, FS_CardinalityType, FS_EmptySet
  <2>2. \A s \in Small(S, 0) : SumStep(g, f, s) = 0
    BY <2>1 DEF SumStep
  <2>3. IsSum(g, f, Small(S, 0))
    BY <2>2 DEF IsSum
  <2> QED BY <2>3 DEF Solvable
<1>2. ASSUME NEW m \in Nat, m \in Solvable(f, S) PROVE m + 1 \in Solvable(f, S)
  <2>1. PICK g : IsSum(g, f, Small(S, m))
    BY <1>2 DEF Solvable
  <2> DEFINE h == [s \in Small(S, m + 1) |-> SumStep(g, f, s)]
  <2>2. \A s \in Small(S, m) : s \in Small(S, m + 1) /\ h[s] = g[s]
    <3> SUFFICES ASSUME NEW s \in Small(S, m)
                 PROVE  s \in Small(S, m + 1) /\ h[s] = g[s]
      OBVIOUS
    <3>1. s \in SUBSET S /\ Cardinality(s) <= m
      BY DEF Small
    <3>2. Cardinality(s) \in Nat
      BY <3>1, FS_Subset, FS_CardinalityType
    <3>3. s \in Small(S, m + 1)
      BY <3>1, <3>2 DEF Small
    <3>4. g[s] = SumStep(g, f, s)
      BY <2>1 DEF IsSum
    <3> QED BY <3>3, <3>4
  <2>3. ASSUME NEW s \in Small(S, m + 1) PROVE SumStep(g, f, s) = SumStep(h, f, s)
    <3>1. CASE s = {}
      BY <3>1 DEF SumStep
    <3>2. CASE s # {}
      <4>1. s \ {Chosen(s)} \in Small(S, m)
        BY <3>2, SmallerIsSmall
      <4>2. h[s \ {Chosen(s)}] = g[s \ {Chosen(s)}]
        BY <2>2, <4>1
      <4> HIDE DEF h
      <4> QED BY <3>2, <4>2 DEF SumStep
    <3> QED BY <3>1, <3>2
  <2>4. IsSum(h, f, Small(S, m + 1))
    <3>1. [s \in Small(S, m + 1) |-> SumStep(g, f, s)] = [s \in Small(S, m + 1) |-> SumStep(h, f, s)]
      BY <2>3
    <3> QED BY <3>1 DEF IsSum
  <2> QED BY <2>4 DEF Solvable
<1> DEFINE T == Nat \ Solvable(f, S)
<1>3. CASE T # {}
  <2>1. PICK i \in T : \A j \in T : ~(j < i)
    BY <1>3, LeastElement
  <2>2. i # 0 /\ i - 1 \in Nat /\ i - 1 < i /\ (i - 1) + 1 = i
    BY <1>1, <2>1
  <2>3. i - 1 \in Solvable(f, S)
    BY <2>1, <2>2
  <2> QED BY <1>2, <2>1, <2>2, <2>3
<1> QED BY <1>3

LEMMA PartialSumIsSum ==
  ASSUME NEW f, IsFiniteSet(DOMAIN f)
  PROVE  IsSum(PartialSum(f), f, SUBSET DOMAIN f)
<1> DEFINE S == DOMAIN f
           n == Cardinality(S)
<1>1. n \in Nat /\ n \in Solvable(f, S)
  BY FS_CardinalityType, EveryStepSolvable
<1>2. Small(S, n) = SUBSET S
  <2>1. \A s \in SUBSET S : Cardinality(s) <= n
    BY FS_Subset
  <2> QED BY <2>1 DEF Small
<1>3. \E g : IsSum(g, f, SUBSET S)
  BY <1>1, <1>2 DEF Solvable
<1> QED BY <1>3, Zenon DEF PartialSum

LEMMA PartialSumEquation ==
  ASSUME NEW f, IsFiniteSet(DOMAIN f), NEW s \in SUBSET DOMAIN f
  PROVE  PartialSum(f)[s] = SumStep(PartialSum(f), f, s)
<1> DEFINE g == PartialSum(f)
<1>1. g = [t \in SUBSET DOMAIN f |-> SumStep(g, f, t)]
  BY PartialSumIsSum DEF IsSum
<1> HIDE DEF g
<1>2. g[s] = SumStep(g, f, s)
  BY <1>1
<1> QED BY <1>2 DEF g

(* To show something of the sum over every set of indices, it is enough to    *)
(* show it of no indices, and of any if it holds with the chosen one removed. *)
LEMMA IndexInduction ==
  ASSUME NEW S, IsFiniteSet(S), NEW P \in SUBSET SUBSET S, {} \in P,
         \A s \in SUBSET S : s # {} /\ s \ {Chosen(s)} \in P => s \in P
  PROVE  P = SUBSET S
<1> DEFINE T == (SUBSET S) \ P
<1>1. ASSUME T # {} PROVE FALSE
  <2>1. T \subseteq FiniteSubsetsOf(S)
    BY FS_Subset DEF FiniteSubsetsOf
  <2>2. PICK m \in T : \A y \in T : ~(<<y, m>> \in StrictSubsetOrdering(S))
    <3> HIDE DEF T
    <3> QED BY <1>1, <2>1, FS_StrictSubsetOrderingWellFounded, WFMin
  <2>3. m # {} /\ m \in SUBSET S /\ Chosen(m) \in m
    <3>1. m # {}
      OBVIOUS
    <3>2. \E x \in m : TRUE
      BY <3>1
    <3> QED BY <3>1, <3>2, Zenon DEF Chosen
  <2>4. m \ {Chosen(m)} \in T
    BY <2>2, <2>3
  <2>5. <<m \ {Chosen(m)}, m>> \in StrictSubsetOrdering(S)
    BY <2>3 DEF StrictSubsetOrdering
  <2> QED BY <2>2, <2>4, <2>5
<1> QED BY <1>1

LEMMA PartialSumType ==
  ASSUME NEW S, IsFiniteSet(S), NEW f \in [S -> Nat]
  PROVE  \A s \in SUBSET S : PartialSum(f)[s] \in Nat
<1> DEFINE g == PartialSum(f)
           P == {s \in SUBSET S : g[s] \in Nat}
<1>1. \A s \in SUBSET S : g[s] = SumStep(g, f, s)
  BY PartialSumEquation
<1> HIDE DEF g
<1>2. {} \in P
  <2>1. {} \in SUBSET S
    OBVIOUS
  <2>2. g[{}] = 0
    BY <1>1, <2>1 DEF SumStep
  <2> QED BY <2>1, <2>2
<1>3. ASSUME NEW s \in SUBSET S, s # {}, s \ {Chosen(s)} \in P
      PROVE  s \in P
  <2>1. Chosen(s) \in S
    BY <1>3 DEF Chosen
  <2>2. f[Chosen(s)] \in Nat /\ g[s \ {Chosen(s)}] \in Nat
    BY <1>3, <2>1
  <2>3. g[s] = f[Chosen(s)] + g[s \ {Chosen(s)}]
    BY <1>1, <1>3 DEF SumStep
  <2>4. g[s] \in Nat
    BY <2>2, <2>3
  <2> QED BY <2>4
<1>4. P = SUBSET S
  <2> HIDE DEF P
  <2>1. P \in SUBSET SUBSET S
    BY DEF P
  <2> QED BY <1>2, <1>3, <2>1, IndexInduction
<1> QED BY <1>4 DEF g

LEMMA PartialSumIncrement ==
  ASSUME NEW S, IsFiniteSet(S), NEW f \in [S -> Nat], NEW i \in S,
         NEW h, h = [f EXCEPT ![i] = @ + 1]
  PROVE  PartialSum(h)[S] = PartialSum(f)[S] + 1
<1> DEFINE g == PartialSum(f)
           e == PartialSum(h)
           P == {s \in SUBSET S : e[s] = g[s] + (IF i \in s THEN 1 ELSE 0)}
<1>1. \A s \in SUBSET S : g[s] = SumStep(g, f, s) /\ g[s] \in Nat
  BY PartialSumEquation, PartialSumType
<1>2. h \in [S -> Nat]
  OBVIOUS
<1>3. \A s \in SUBSET S : e[s] = SumStep(e, h, s)
  BY <1>2, PartialSumEquation
<1> HIDE DEF g, e
<1>4. {} \in P
  BY <1>1, <1>3 DEF SumStep
<1>5. ASSUME NEW s \in SUBSET S, s # {}, s \ {Chosen(s)} \in P
      PROVE  s \in P
  <2> DEFINE x == Chosen(s)
  <2>1. x \in s /\ x \in S
    BY <1>5 DEF Chosen
  <2>2. g[s] = f[x] + g[s \ {x}] /\ e[s] = h[x] + e[s \ {x}]
    BY <1>1, <1>3, <1>5 DEF SumStep
  <2>3. e[s \ {x}] = g[s \ {x}] + (IF i \in s \ {x} THEN 1 ELSE 0)
    BY <1>5
  <2>4. f[x] \in Nat /\ g[s \ {x}] \in Nat
    BY <1>1, <2>1
  <2> HIDE DEF x
  <2>5. CASE x = i
    <3>1. h[x] = f[x] + 1 /\ i \in s /\ i \notin s \ {x}
      BY <2>1, <2>5
    <3> QED BY <2>2, <2>3, <2>4, <3>1
  <2>6. CASE x # i
    <3>1. h[x] = f[x] /\ (i \in s <=> i \in s \ {x})
      BY <2>1, <2>6
    <3> QED BY <2>2, <2>3, <2>4, <3>1
  <2> QED BY <2>5, <2>6
<1>6. P = SUBSET S
  <2> HIDE DEF P
  <2>1. P \in SUBSET SUBSET S
    BY DEF P
  <2> QED BY <1>4, <1>5, <2>1, IndexInduction
<1>7. S \in P
  BY <1>6
<1> QED BY <1>7 DEF g, e

(* What the sum of a function of naturals is, and how it follows one of them. *)
LEMMA SumType ==
  ASSUME NEW S, IsFiniteSet(S), NEW f \in [S -> Nat]
  PROVE  SumFunction(f) \in Nat
BY FoldIsPartialSum, PartialSumType

LEMMA SumIncrement ==
  ASSUME NEW S, IsFiniteSet(S), NEW f \in [S -> Nat], NEW i \in S,
         NEW h, h = [f EXCEPT ![i] = @ + 1]
  PROVE  SumFunction(h) = SumFunction(f) + 1
<1>1. DOMAIN f = S /\ DOMAIN h = S
  OBVIOUS
<1>2. PartialSum(h)[S] = PartialSum(f)[S] + 1
  BY PartialSumIncrement
<1> QED BY <1>1, <1>2, FoldIsPartialSum


----------------------------------------------------------------------------
(* The received bytes: who follows them, and which steps have a part in it     *)

Books(b) == <<b.total, b.rx, b.attempts, b.connection>>

(* A step that neither receives nor counts, and begins no attempt; the          *)
(* connection is what it was, or the one that an attempt made.                 *)
Still ==
  /\ bearer'.total = bearer.total /\ bearer'.rx = bearer.rx /\ bearer'.attempts = bearer.attempts
  /\ bytes' = bytes
  /\ bearer'.connection = bearer.connection \/ bearer'.connection <= bearer.attempts
  /\ \A k \in Attempts : dialing'[k] # "no" => dialing[k] # "no"

LEMMA StillCarried ==
  ASSUME Carried, Still, again' = again
  PROVE  Carried'
BY DEF Carried, Still, Received

LEMMA BooksStill ==
  ASSUME Books(bearer') = Books(bearer), UNCHANGED <<dialing, bytes>>
  PROVE  Still
BY DEF Books, Still

LEMMA BookEntries ==
  ASSUME Base
  PROVE  /\ bearer \in BearerType /\ dialing \in DialingType
         /\ bytes \in [Attempts -> Nat] /\ IsFiniteSet(Attempts) /\ Received \in Nat
         /\ bearer.total \in Nat /\ bearer.rx \in Nat /\ bearer.attempts \in Nat
         /\ bearer.connection \in Nat
<1>1. bearer \in BearerType /\ dialing \in DialingType
  BY BaseFacts DEF RestTyped
<1>2. bytes \in [Attempts -> Nat]
  BY BaseFacts, BaseBearerAssumption DEF RestTyped
<1>3. IsFiniteSet(Attempts)
  BY BaseBearerAssumption, FS_Interval DEF Attempts
<1>4. Received \in Nat
  BY <1>2, <1>3, SumType DEF Received
<1>5. /\ bearer.total \in Nat /\ bearer.rx \in Nat /\ bearer.attempts \in Nat
      /\ bearer.connection \in Nat
  BY <1>1, BaseBearerAssumption DEF BearerType
<1> QED
  BY <1>1, <1>2, <1>3, <1>4, <1>5

LEMMA UpdateStatusBooks ==
  ASSUME NEW b \in BearerType, NEW s \in Statuses
  PROVE  Books(UpdateStatus(b, s)) = Books(b)
BY UpdateStatusEffect DEF Books

LEMMA ReportBooks ==
  ASSUME NEW b \in BearerType
  PROVE  Books(Report(b)) = Books(b)
<1> DEFINE e == [b EXCEPT !.error = TRUE]
<1>1. e \in BearerType /\ Books(e) = Books(b)
  BY DEF BearerType, Books
<1>2. Report(b) = b \/ Report(b) = UpdateStatus(e, "disconnected")
  BY DEF Report
<1> HIDE DEF e
<1> QED
  BY <1>1, <1>2, UpdateStatusBooks DEF Statuses

LEMMA ConnectFailedBooks ==
  ASSUME NEW b \in BearerType, NEW c \in BOOLEAN
  PROVE  Books(ConnectFailed(b, c)) = Books(b)
<1> DEFINE e == [b EXCEPT !.error = TRUE]
           s == IF c THEN "disconnecting" ELSE "disconnected"
           u == UpdateStatus(e, s)
<1>1. e \in BearerType /\ Books(e) = Books(b) /\ s \in Statuses
  BY DEF BearerType, Books, Statuses
<1>2. ConnectFailed(b, c) = [u EXCEPT !.cancellable = 0]
  BY DEF ConnectFailed
<1> HIDE DEF e, s
<1>3. u \in BearerType /\ Books(u) = Books(b)
  BY <1>1, UpdateStatusType, UpdateStatusBooks
<1> HIDE DEF u
<1> QED
  BY <1>2, <1>3 DEF BearerType, Books

LEMMA ForceBooks ==
  ASSUME Base, DisconnectForce(bearer)
  PROVE  Books(bearer') = Books(bearer)
<1>1. bearer \in BearerType
  BY BookEntries
<1>2. CASE bearer' = bearer
  BY <1>2
<1>3. CASE bearer' = [bearer EXCEPT !.request = TRUE]
  BY <1>1, <1>3 DEF Books, BearerType
<1>4. CASE bearer' = Cancel(bearer)
  BY <1>1, <1>4 DEF Books, Cancel, BearerType
<1>5. CASE bearer' = UpdateStatus(bearer, "disconnecting")
  BY <1>1, <1>5, UpdateStatusBooks DEF Statuses
<1> QED
  BY <1>2, <1>3, <1>4, <1>5, Zenon DEF DisconnectForce, Becomes

(* An attempt that ends, or goes on to the probe of the statistics.            *)
LEMMA CheckedConnectStill ==
  ASSUME Base, Carried, NEW k \in Attempts, dialing[k] # "no",
         dialing' = [dialing EXCEPT ![k] = "no"],
         NEW b \in BearerType, Books(b) = Books(bearer), CheckedConnect(b, k), bytes' = bytes
  PROVE  Still
<1>1. \A j \in Attempts : dialing'[j] # "no" => dialing[j] # "no"
  BY BookEntries DEF DialingType
<1>2. CASE bearer' = ConnectFailed(b, TRUE)
  <2>1. Books(bearer') = Books(bearer)
    BY <1>2, ConnectFailedBooks
  <2> QED
    BY <1>1, <2>1 DEF Still, Books
<1>3. CASE \E m \in Methods : bearer' = ConnectSucceeded(b, k, m)
  <2>1. k <= bearer.attempts
    BY BookEntries DEF Carried, Attempts
  <2>2. /\ bearer'.total = b.total /\ bearer'.rx = b.rx /\ bearer'.attempts = b.attempts
        /\ bearer'.connection = k
    BY <1>3 DEF ConnectSucceeded, BearerType
  <2> QED
    BY <1>1, <2>1, <2>2 DEF Still, Books
<1> QED
  BY <1>2, <1>3 DEF CheckedConnect, Becomes

LEMMA ConnectReadyStill ==
  ASSUME Base, Carried, NEW k \in Attempts, ConnectReady(k) \/ ReloadStatsSupportedReady(k)
  PROVE  Still
<1>1. bearer \in BearerType /\ dialing \in DialingType /\ dialing[k] # "no" /\ bytes' = bytes
  BY BookEntries DEF ConnectReady, ReloadStatsSupportedReady
<1>2. CASE ReloadStatsSupportedReady(k)
  <2> PICK supported \in BOOLEAN :
        CheckedConnect([bearer EXCEPT !.statsSupported = @ \/ supported], k)
    BY <1>2 DEF ReloadStatsSupportedReady
  <2> DEFINE b == [bearer EXCEPT !.statsSupported = @ \/ supported]
  <2>1. b \in BearerType /\ Books(b) = Books(bearer)
    BY <1>1 DEF BearerType, Books
  <2>2. CheckedConnect(b, k) /\ dialing' = [dialing EXCEPT ![k] = "no"]
    BY <1>2 DEF ReloadStatsSupportedReady
  <2> HIDE DEF b
  <2> QED
    BY <1>1, <2>1, <2>2, CheckedConnectStill
<1>3. CASE CheckedConnect(bearer, k) /\ dialing' = [dialing EXCEPT ![k] = "no"]
  BY <1>1, <1>3, CheckedConnectStill
<1>4. CASE /\ bearer' = ConnectFailed(bearer, FALSE) \/ bearer' = ConnectFailed(bearer, TRUE)
           /\ dialing' = [dialing EXCEPT ![k] = "no"]
  <2>1. Books(bearer') = Books(bearer)
    BY <1>1, <1>4, ConnectFailedBooks
  <2>2. \A j \in Attempts : dialing'[j] # "no" => dialing[j] # "no"
    BY <1>1, <1>4 DEF DialingType
  <2> QED
    BY <1>1, <2>1, <2>2 DEF Still, Books
<1>5. CASE bearer' = bearer /\ dialing' = [dialing EXCEPT ![k] = "probing"]
  <2>1. \A j \in Attempts : dialing'[j] # "no" => dialing[j] # "no"
    BY <1>1, <1>5 DEF DialingType
  <2> QED
    BY <1>1, <1>5, <2>1 DEF Still
<1> QED
  BY <1>2, <1>3, <1>4, <1>5 DEF ConnectReady, Becomes

LEMMA DisconnectsStill ==
  ASSUME Base, \/ DisconnectConnecting \/ DisconnectConnected \/ DisconnectReady
               \/ \E w \in Leavers : DisconnectForceReady(w)
  PROVE  Still
<1>1. bearer \in BearerType /\ UNCHANGED <<dialing, bytes>>
  BY BookEntries
     DEF DisconnectConnecting, DisconnectConnected, DisconnectReady, DisconnectForceReady
<1>2. CASE DisconnectConnecting
  <2> DEFINE u == UpdateStatus(bearer, "disconnecting")
  <2>1. u \in BearerType /\ Books(u) = Books(bearer)
    BY <1>1, UpdateStatusType, UpdateStatusBooks DEF Statuses
  <2>2. bearer' = [Cancel(u) EXCEPT !.waiter = TRUE]
    BY <1>2 DEF DisconnectConnecting, Becomes
  <2> HIDE DEF u
  <2>3. Books(bearer') = Books(bearer)
    BY <2>1, <2>2 DEF Cancel, Books, BearerType
  <2> QED
    BY <1>1, <2>3, BooksStill
<1>3. CASE \E s \in Statuses : bearer' = UpdateStatus(bearer, s)
  BY <1>1, <1>3, UpdateStatusBooks, BooksStill
<1>4. CASE bearer' = Report(bearer)
  BY <1>1, <1>4, ReportBooks, BooksStill
<1> QED
  BY <1>2, <1>3, <1>4
     DEF DisconnectConnected, DisconnectReady, DisconnectForceReady, Becomes, Statuses

LEMMA BeReportedStill ==
  ASSUME Base, BeReported
  PROVE  Still
<1>1. bearer \in BearerType /\ bearer' = Report(bearer) /\ UNCHANGED <<dialing, bytes>>
  BY BookEntries DEF BeReported, UnsolicitedReport, FoundDisconnected, Answered, Becomes
<1> QED
  BY <1>1, ReportBooks, BooksStill

(* A new attempt has received nothing yet, and nothing is counted of it.       *)
LEMMA ConnectCarried ==
  ASSUME Base, Carried, Connect, again' = again
  PROVE  Carried'
<1> DEFINE k == bearer.attempts + 1
           u == UpdateStatus(bearer, "connecting")
<1>1. bearer \in BearerType /\ k \in Attempts
  BY BookEntries DEF Connect
<1>2. u \in BearerType /\ Books(u) = Books(bearer)
  BY <1>1, UpdateStatusType, UpdateStatusBooks DEF Statuses
<1>3. bearer' = [u EXCEPT !.attempts = k, !.rx = 0, !.error = FALSE, !.cancellable = k]
  BY DEF Connect
<1>4. dialing' = [dialing EXCEPT ![k] = "dialing"] /\ bytes' = bytes
  BY DEF Connect
<1> HIDE DEF u
<1>5. /\ bearer'.attempts = k /\ bearer'.rx = 0
      /\ bearer'.total = bearer.total /\ bearer'.connection = bearer.connection
  BY <1>2, <1>3 DEF BearerType, Books
<1>6. Received' = Received
  BY <1>4 DEF Received
<1>7. \A j \in Attempts : j >= k => bytes[j] = 0
  BY BookEntries DEF Carried, Attempts
<1>8. \A j \in Attempts : j > k => dialing'[j] = "no"
  BY <1>4, BookEntries DEF Carried, Attempts, DialingType
<1>9. bearer.total <= Received + again /\ bearer.connection <= bearer.attempts
  BY DEF Carried
<1>10. bearer'.total + (bytes'[k] - bearer'.rx) <= Received' + again'
  BY <1>1, <1>4, <1>5, <1>6, <1>7, <1>9, BookEntries
<1>11. bearer'.connection <= bearer'.attempts
  BY <1>5, <1>9, BookEntries
<1>12. \A j \in Attempts : j > bearer'.attempts => bytes'[j] = 0 /\ dialing'[j] = "no"
  BY <1>1, <1>4, <1>5, <1>7, <1>8, BookEntries DEF Attempts
<1>13. bearer'.total <= Received' + again'
  BY <1>5, <1>6, <1>9
<1> QED
  BY <1>5, <1>10, <1>11, <1>12, <1>13 DEF Carried

(* What a connection receives is one more than is known so far.               *)
LEMMA TrafficCarried ==
  ASSUME TypeOK, Base, Carried, Traffic, again' = again
  PROVE  Carried'
<1> DEFINE c == bearer.connection
           a == bearer.attempts
<1>1. c \in Attempts /\ bytes' = [bytes EXCEPT ![c] = @ + 1] /\ UNCHANGED <<bearer, dialing>>
  BY DEF Traffic
<1>2. Received' = Received + 1 /\ again \in Nat
  BY <1>1, BookEntries, SumIncrement DEF Received, TypeOK
<1>3. bytes'[c] = bytes[c] + 1 /\ \A k \in Attempts \ {c} : bytes'[k] = bytes[k]
  BY <1>1, BookEntries
<1>4. bearer.total <= Received + again /\ c <= a
  BY DEF Carried
<1>5. \A k \in Attempts : k > a => bytes'[k] = 0 /\ dialing'[k] = "no"
  <2> SUFFICES ASSUME NEW k \in Attempts, k > a PROVE bytes'[k] = 0 /\ dialing'[k] = "no"
    OBVIOUS
  <2>1. k # c
    BY <1>4, BookEntries DEF Attempts
  <2> QED
    BY <1>1, <1>3, <2>1 DEF Carried
<1>6. ASSUME a \in Attempts PROVE bearer.total + (bytes'[a] - bearer.rx) <= Received' + again
  <2>1. bearer.total + (bytes[a] - bearer.rx) <= Received + again /\ bytes[a] \in Nat
    BY <1>6, BookEntries DEF Carried
  <2>2. bytes'[a] = bytes[a] \/ bytes'[a] = bytes[a] + 1
    BY <1>3, <1>6
  <2> QED
    BY <1>2, <2>1, <2>2, BookEntries
<1> QED
  BY <1>1, <1>2, <1>4, <1>5, <1>6, BookEntries DEF Carried

(* The answer about the latest connection moves the total as far as the count   *)
(* of it; one about a former connection moves what is counted again, too.      *)
LEMMA ReloadStatsReadyCarried ==
  ASSUME TypeOK, Base, Carried, NEW k \in Attempts, ReloadStatsReady(k),
         again' = again + (IF k = bearer.attempts THEN 0 ELSE bearer'.total - bearer.total)
  PROVE  Carried'
<1> DEFINE a == bearer.attempts
           n == bytes[k]
<1>1. bearer' = SetOngoingStats(bearer, n) /\ bytes' = bytes /\ dialing' = dialing
  BY DEF ReloadStatsReady, Answered, Becomes
<1>2. bearer \in BearerType /\ n \in Nat /\ again \in Nat /\ Received' = Received
  BY <1>1, BookEntries DEF TypeOK, Received
<1>3. CASE n > bearer.rx
  <2>1. bearer' = [bearer EXCEPT !.rx = n, !.total = @ + (n - bearer.rx)]
    BY <1>1, <1>3 DEF SetOngoingStats
  <2> HIDE DEF n
  <2>2. /\ bearer'.rx = n /\ bearer'.total = bearer.total + (n - bearer.rx)
        /\ bearer'.attempts = a /\ bearer'.connection = bearer.connection
    BY <1>2, <2>1 DEF BearerType
  <2>3. /\ bearer.total <= Received + again /\ bearer.connection <= a
        /\ \A j \in Attempts : j > a => bytes[j] = 0 /\ dialing[j] = "no"
        /\ a \in Attempts => bearer.total + (bytes[a] - bearer.rx) <= Received + again
    BY DEF Carried
  <2>4. bearer'.total <= Received' + again'
    <3>1. CASE k = a
      BY <1>2, <2>2, <2>3, <3>1, BookEntries DEF n
    <3>2. CASE k # a
      BY <1>2, <2>2, <2>3, <3>2, BookEntries
    <3> QED
      BY <3>1, <3>2
  <2>5. ASSUME a \in Attempts
        PROVE  bearer'.total + (bytes'[a] - bearer'.rx) <= Received' + again'
    <3>1. bytes[a] \in Nat /\ bytes'[a] = bytes[a]
      BY <1>1, <2>5, BookEntries
    <3>2. bearer'.total + (bytes'[a] - bearer'.rx) = bearer.total + (bytes[a] - bearer.rx)
      BY <1>2, <2>2, <3>1, BookEntries
    <3>3. again' >= again /\ again' \in Int
      BY <1>2, <1>3, <2>2, BookEntries DEF n
    <3>4. bearer.total + (bytes[a] - bearer.rx) <= Received + again
      BY <2>3, <2>5
    <3> QED
      BY <1>2, <3>1, <3>2, <3>3, <3>4, BookEntries
  <2> QED
    BY <1>1, <2>2, <2>3, <2>4, <2>5 DEF Carried
<1>4. CASE ~(n > bearer.rx)
  <2>1. bearer' = bearer /\ again' = again
    BY <1>1, <1>2, <1>4, BookEntries DEF SetOngoingStats
  <2> QED
    BY <1>1, <2>1, StillCarried DEF Still
<1> QED
  BY <1>3, <1>4

LEMMA ActCarried ==
  ASSUME TypeOK, Base, Carried, Act, again' = again
  PROVE  Carried'
<1>1. CASE Connect
  BY <1>1, ConnectCarried
<1>2. CASE \E k \in Attempts : ConnectReady(k) \/ ReloadStatsSupportedReady(k)
  BY <1>2, ConnectReadyStill, StillCarried
<1>3. CASE \/ DisconnectConnecting \/ DisconnectConnected \/ DisconnectReady
           \/ \E w \in Leavers : DisconnectForceReady(w)
  BY <1>3, DisconnectsStill, StillCarried
<1>4. CASE Traffic
  BY <1>4, TrafficCarried
<1>5. CASE \/ DisconnectDone
           \/ \E kind \in {"stats", "monitor", "sync"} :
                Ask(kind) \/ \E k \in Attempts : NoNews(kind, k)
  BY <1>5, StillCarried DEF DisconnectDone, Ask, NoNews, Answered, Still
<1>6. CASE \E k \in Attempts : MonitorUnsupported(k)
  <2>1. bearer' = [bearer EXCEPT !.unsupported = TRUE, !.monitor = FALSE]
        /\ UNCHANGED <<dialing, bytes>>
    BY <1>6 DEF MonitorUnsupported, Answered, Becomes
  <2>2. Books(bearer') = Books(bearer)
    BY <2>1, BookEntries DEF Books, BearerType
  <2> QED
    BY <2>1, <2>2, BooksStill, StillCarried
<1>7. CASE \E t \in Techs : \/ \E r \in ReasonsOf(t) : RegistrationChanged(t, r)
                            \/ DeferredUnregistration(t)
  <2>1. UNCHANGED <<dialing, bytes>> /\ (bearer' = bearer \/ DisconnectForce(bearer))
    BY <1>7 DEF RegistrationChanged, DeferredUnregistration
  <2> QED
    BY <2>1, ForceBooks, BooksStill, StillCarried
<1> QED
  BY <1>1, <1>2, <1>3, <1>4, <1>5, <1>6, <1>7 DEF Act, Answer

LEMMA NextCarries ==
  ASSUME TypeOK, Base, Carried, [Next]_<<vars, history>>
  PROVE  Carried'
<1>1. again \in Nat
  BY DEF TypeOK
<1>2. CASE Act /\ Remember(FALSE, 0)
  BY <1>1, <1>2, ActCarried DEF Remember
<1>3. CASE BeReported /\ Remember(bearer.status \in {"connecting", "disconnecting"}, 0)
  BY <1>1, <1>3, BeReportedStill, StillCarried DEF Remember
<1>4. CASE \E k \in Attempts :
             /\ ReloadStatsReady(k)
             /\ Remember(FALSE, IF k = bearer.attempts THEN 0 ELSE bearer'.total - bearer.total)
  BY <1>4, ReloadStatsReadyCarried DEF Remember
<1>5. CASE UNCHANGED <<vars, history>>
  BY <1>5, StillCarried DEF vars, history, Still
<1> QED
  BY <1>2, <1>3, <1>4, <1>5 DEF Next

LEMMA InitCarries ==
  Init => Carried
<1> SUFFICES ASSUME Init PROVE Carried
  OBVIOUS
<1>1. Received \in Nat
  BY InitOrderly, BookEntries
<1>2. /\ bearer.total = 0 /\ bearer.connection = 0 /\ bearer.attempts = 0 /\ again = 0
      /\ \A k \in Attempts : bytes[k] = 0 /\ dialing[k] = "no"
  BY DEF Init
<1>3. bearer.attempts \notin Attempts
  BY <1>2 DEF Attempts
<1> QED
  BY <1>1, <1>2, <1>3 DEF Carried

(* bearer.total never exceeds the traffic of all connections and what late       *)
(* answers about a former connection counted again: the total that               *)
(* reload_stats_ready adds to (mm-base-bearer.c) counts nothing else twice, over *)
(* any number of connections, failed disconnects, reports on the way and        *)
(* statistics in any order.                                                    *)
THEOREM SpecTotalIsCarried == Spec => []TotalIsCarried
<1>1. Carried => TotalIsCarried
  BY DEF Carried, TotalIsCarried
<1> QED
  BY <1>1, SpecInv, InitCarries, NextCarries, PTL DEF Spec

=============================================================================
