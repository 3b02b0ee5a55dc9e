------------------------- MODULE ModemOpLockProofs -------------------------
(***************************************************************************)
(* Proofs about ModemOpLock for any number of requests and overrides and   *)
(* any wrap-around point of the operation ids.  The argument: the only     *)
(* entry of scheduled_operations without a wait_task is its head, and the  *)
(* phases of the callers say what the list says (IInv).  Every step first  *)
(* brings the list into a state that may lack a running head (Ready), and  *)
(* base_modem_operation_run turns that back into Core.                     *)
(***************************************************************************)
EXTENDS ModemOpLock, TLAPS

HoldersIn(ph) == {r \in Requests : ph[r] \in {"granted", "running"}}

(* What holds of a list l, phases ph and ids hl before the head is run.      *)
Ready(l, ph, hl) ==
  /\ l \in Seq(Operation) /\ ph \in [Requests -> Phases] /\ hl \in [Requests -> -1 .. MaxId]
  /\ \A i \in 2 .. Len(l) : l[i].waiting
  /\ \A i, j \in 1 .. Len(l) : l[i].req = l[j].req => i = j
  /\ \A i \in 1 .. Len(l) : l[i].waiting => ph[l[i].req] = "waiting"
  /\ \A r \in Requests :
       ph[r] = "waiting" => \E i \in 1 .. Len(l) : l[i].req = r /\ l[i].waiting
  /\ Len(l) > 0 /\ ~l[1].waiting => l[1].req \in HoldersIn(ph) /\ hl[l[1].req] = l[1].id
  /\ \A r \in HoldersIn(ph) : Len(l) > 0 /\ ~l[1].waiting /\ l[1].req = r

(* The part of IInv about the list, the phases and the ids.                  *)
Core(l, ph, hl) ==
  /\ l \in Seq(Operation) /\ ph \in [Requests -> Phases] /\ hl \in [Requests -> -1 .. MaxId]
  /\ \A i \in 1 .. Len(l) : l[i].waiting <=> i > 1
  /\ \A i, j \in 1 .. Len(l) : l[i].req = l[j].req => i = j
  /\ \A i \in 2 .. Len(l) : ph[l[i].req] = "waiting"
  /\ \A r \in Requests : ph[r] = "waiting" => \E i \in 2 .. Len(l) : l[i].req = r
  /\ Len(l) > 0 => l[1].req \in HoldersIn(ph) /\ hl[l[1].req] = l[1].id
  /\ \A r \in HoldersIn(ph) : Len(l) > 0 /\ l[1].req = r

Rest ==
  /\ forbidden \in BOOLEAN /\ nextId \in 0 .. MaxId /\ failed = FALSE
  /\ forbidden => \A i \in 2 .. Len(ops) : ops[i].req \in Override

(* The invariant is its two parts.                                           *)
LEMMA IInvParts == IInv <=> Core(ops, phase, held) /\ Rest
BY DEF IInv, TypeOK, AssertsHold, Core, Rest, Holders, HoldersIn

(* The same split of the invariant in the next state.                     *)
LEMMA IInvPartsNext == IInv' <=> Core(ops', phase', held') /\ Rest'
BY DEF IInv, TypeOK, AssertsHold, Core, Rest, Holders, HoldersIn

(* A running list with its head's wait_task cleared is a list that is ready.  *)
LEMMA CoreReady ==
  ASSUME NEW l, NEW ph, NEW hl, Core(l, ph, hl)
  PROVE  Ready(l, ph, hl)
<1>1. l \in Seq(Operation) BY DEF Core
<1>2. \A i \in 2 .. Len(l) : i \in 1 .. Len(l) BY <1>1
<1>3. Len(l) > 0 => 1 \in 1 .. Len(l) BY <1>1
<1> QED BY <1>1, <1>2, <1>3 DEF Core, Ready

(* base_modem_operation_run makes the head of a list that is ready run.       *)
LEMMA RunEffect ==
  ASSUME NEW l, NEW ph, Ready(l, ph, held), OperationRun(l, ph)
  PROVE  /\ Core(ops', phase', held')
         /\ Len(ops') = Len(l)
         /\ \A i \in 1 .. Len(l) : ops'[i].req = l[i].req
<1>1. l \in Seq(Operation) BY DEF Ready
<1>2. Len(l) \in Nat /\ \A i \in 1 .. Len(l) : l[i] \in Operation BY <1>1
<1>3. CASE l # <<>> /\ l[1].waiting
  <2>1. Len(l) > 0 /\ 1 \in 1 .. Len(l) /\ l[1] \in Operation BY <1>1, <1>2, <1>3
  <2>2. PICK h : h = l[1] OBVIOUS
  <2>3. h.req \in Requests /\ h.id \in 0 .. MaxId BY <2>1, <2>2 DEF Operation
  <2>4. /\ ops' = [l EXCEPT ![1].waiting = FALSE]
        /\ phase' = [ph EXCEPT ![h.req] = "granted"]
        /\ held' = [held EXCEPT ![h.req] = h.id]
    BY <1>3, <2>2 DEF OperationRun
  <2>5. [h EXCEPT !.waiting = FALSE] \in Operation
        /\ [h EXCEPT !.waiting = FALSE].req = h.req
        /\ [h EXCEPT !.waiting = FALSE].id = h.id
        /\ [h EXCEPT !.waiting = FALSE].waiting = FALSE
    BY <2>1, <2>2 DEF Operation
  <2>6. PICK g : g = [h EXCEPT !.waiting = FALSE] OBVIOUS
  <2>7. ops' = [l EXCEPT ![1] = g] BY <2>4, <2>2, <2>6
  <2>8. /\ ops' \in Seq(Operation) /\ Len(ops') = Len(l)
        /\ ops'[1] = g /\ \A i \in 2 .. Len(l) : ops'[i] = l[i]
    BY <2>7, <2>5, <2>6, <2>1, <1>1, <1>2
  <2>9. \A i \in 1 .. Len(l) : ops'[i].req = l[i].req
    <3> SUFFICES ASSUME NEW i \in 1 .. Len(l) PROVE ops'[i].req = l[i].req OBVIOUS
    <3>1. CASE i = 1 BY <3>1, <2>8, <2>5, <2>6, <2>2
    <3>2. CASE i # 1
      <4>1. i \in 2 .. Len(l) BY <3>2, <1>2
      <4> QED BY <4>1, <2>8
    <3> QED BY <3>1, <3>2
  <2>10. HoldersIn(ph) = {}
    BY <1>3 DEF Ready, HoldersIn
  <2>11. Core(ops', phase', held')
    <3>1. phase' \in [Requests -> Phases] /\ held' \in [Requests -> -1 .. MaxId]
      BY <2>3, <2>4 DEF Ready, Phases
    <3>2. \A i \in 1 .. Len(ops') : ops'[i].waiting <=> i > 1
      <4> SUFFICES ASSUME NEW i \in 1 .. Len(ops') PROVE ops'[i].waiting <=> i > 1 OBVIOUS
      <4>1. CASE i = 1 BY <4>1, <2>8, <2>5, <2>6
      <4>2. CASE i # 1
        <5>1. i \in 2 .. Len(l) BY <4>2, <2>8, <1>2
        <5>2. l[i].waiting BY <5>1 DEF Ready
        <5> QED BY <5>1, <5>2, <2>8
      <4> QED BY <4>1, <4>2
    <3>3. \A i, j \in 1 .. Len(ops') : ops'[i].req = ops'[j].req => i = j
      BY <2>8, <2>9 DEF Ready
    <3>4. \A i \in 2 .. Len(ops') : phase'[ops'[i].req] = "waiting"
      <4> SUFFICES ASSUME NEW i \in 2 .. Len(ops') PROVE phase'[ops'[i].req] = "waiting" OBVIOUS
      <4>1. i \in 2 .. Len(l) /\ i \in 1 .. Len(l) /\ i # 1 BY <2>8, <1>2
      <4>2. ops'[i].req = l[i].req /\ l[i].req # h.req /\ l[i].req \in Requests
        BY <4>1, <2>1, <2>2, <2>9, <1>2 DEF Ready, Operation
      <4>3. ph[l[i].req] = "waiting" BY <4>1 DEF Ready
      <4> QED BY <4>2, <4>3, <2>4 DEF Ready
    <3>5. \A r \in Requests : phase'[r] = "waiting" => \E i \in 2 .. Len(ops') : ops'[i].req = r
      <4> SUFFICES ASSUME NEW r \in Requests, phase'[r] = "waiting"
                   PROVE  \E i \in 2 .. Len(ops') : ops'[i].req = r
        OBVIOUS
      <4>1. r # h.req /\ ph[r] = "waiting" BY <2>3, <2>4 DEF Ready
      <4>2. PICK i \in 1 .. Len(l) : l[i].req = r BY <4>1 DEF Ready
      <4>3. i # 1 /\ i \in 2 .. Len(l) BY <4>1, <4>2, <2>2, <1>2
      <4> QED BY <4>2, <4>3, <2>8, <2>9
    <3>6. ops'[1].req \in HoldersIn(phase') /\ held'[ops'[1].req] = ops'[1].id
      <4>1. phase'[h.req] = "granted" /\ held'[h.req] = h.id BY <2>3, <2>4 DEF Ready
      <4>2. ops'[1].req = h.req /\ ops'[1].id = h.id BY <2>5, <2>6, <2>8
      <4> QED BY <4>1, <4>2, <2>3 DEF HoldersIn
    <3>7. \A r \in HoldersIn(phase') : Len(ops') > 0 /\ ops'[1].req = r
      <4> SUFFICES ASSUME NEW r \in HoldersIn(phase') PROVE r = h.req
        BY <2>1, <2>5, <2>6, <2>8
      <4> QED BY <2>3, <2>4, <2>10 DEF HoldersIn, Ready
    <3> QED BY <2>8, <3>1, <3>2, <3>3, <3>4, <3>5, <3>6, <3>7 DEF Core
  <2> QED BY <2>8, <2>9, <2>11
<1>4. CASE ~(l # <<>> /\ l[1].waiting)
  <2>1. ops' = l /\ phase' = ph /\ held' = held BY <1>4 DEF OperationRun
  <2>2. Len(l) > 0 => ~l[1].waiting BY <1>1, <1>4
  <2>3. \A i \in 1 .. Len(l) : l[i].waiting <=> i > 1
    <3> SUFFICES ASSUME NEW i \in 1 .. Len(l) PROVE l[i].waiting <=> i > 1 OBVIOUS
    <3>1. CASE i = 1 BY <3>1, <2>2, <1>2
    <3>2. CASE i # 1
      <4>1. i \in 2 .. Len(l) BY <3>2, <1>2
      <4> QED BY <4>1 DEF Ready
    <3> QED BY <3>1, <3>2
  <2>4. \A i \in 2 .. Len(l) : i \in 1 .. Len(l) /\ l[i].waiting BY <1>2 DEF Ready
  <2>5. \A r \in Requests : ph[r] = "waiting" => \E i \in 2 .. Len(l) : l[i].req = r
    <3> SUFFICES ASSUME NEW r \in Requests, ph[r] = "waiting"
                 PROVE  \E i \in 2 .. Len(l) : l[i].req = r
      OBVIOUS
    <3>1. PICK i \in 1 .. Len(l) : l[i].req = r /\ l[i].waiting BY DEF Ready
    <3>2. i \in 2 .. Len(l) BY <3>1, <2>3, <1>2
    <3> QED BY <3>1, <3>2
  <2>6. Core(l, ph, held) BY <2>2, <2>3, <2>4, <2>5 DEF Ready, Core
  <2> QED BY <2>1, <2>6
<1> QED BY <1>3, <1>4

----------------------------------------------------------------------------
(* A step that leaves the list alone and moves r between phases outside the   *)
(* list keeps Core.                                                          *)
LEMMA OutsideStep ==
  ASSUME Core(ops, phase, held), NEW r \in Requests, NEW to \in {"idle", "authorizing", "aborting"},
         phase[r] \notin {"waiting", "granted", "running"},
         phase' = [phase EXCEPT ![r] = to], UNCHANGED <<ops, held>>
  PROVE  Core(ops', phase', held')
<1>1. \A i \in 1 .. Len(ops) : ops[i].req # r
  <2> SUFFICES ASSUME NEW i \in 1 .. Len(ops), ops[i].req = r PROVE FALSE OBVIOUS
  <2>1. CASE i = 1 BY <2>1 DEF Core, HoldersIn
  <2>2. CASE i # 1
    <3>1. i \in 2 .. Len(ops) BY <2>2 DEF Core
    <3> QED BY <3>1 DEF Core
  <2> QED BY <2>1, <2>2
<1>2. ops' = ops /\ held' = held OBVIOUS
<1>3. phase' \in [Requests -> Phases] /\ \A q \in Requests \ {r} : phase'[q] = phase[q]
  BY DEF Core, Phases
<1>4. phase'[r] = to BY DEF Core
<1>5. HoldersIn(phase') = HoldersIn(phase) BY <1>3, <1>4 DEF HoldersIn
<1>6. ops \in Seq(Operation) /\ \A i \in 2 .. Len(ops) : i \in 1 .. Len(ops) /\ ops[i].req \in Requests
  <2>1. ops \in Seq(Operation) BY DEF Core
  <2>2. \A i \in 1 .. Len(ops) : ops[i] \in Operation BY <2>1
  <2>3. \A i \in 2 .. Len(ops) : i \in 1 .. Len(ops) BY <2>1
  <2> QED BY <2>1, <2>2, <2>3 DEF Operation
<1>7. \A i \in 2 .. Len(ops) : phase'[ops[i].req] = "waiting"
  BY <1>1, <1>3, <1>6 DEF Core
<1>8. \A q \in Requests : phase'[q] = "waiting" => \E i \in 2 .. Len(ops) : ops[i].req = q
  BY <1>3, <1>4 DEF Core
<1>9. ASSUME NEW ph, ph = phase' PROVE Core(ops, ph, held)
  BY <1>3, <1>5, <1>7, <1>8, <1>9 DEF Core
<1> QED BY <1>2, <1>9

(* A new entry at the end of a list that is ready.                           *)
LEMMA AppendReady ==
  ASSUME NEW l, NEW ph, NEW r \in Requests, NEW id \in 0 .. MaxId,
         Ready(l, ph, held), ph[r] \notin {"waiting", "granted", "running"}
  PROVE  LET m == Append(l, [req |-> r, id |-> id, waiting |-> TRUE])
         IN  /\ Ready(m, [ph EXCEPT ![r] = "waiting"], held)
             /\ Len(m) = Len(l) + 1 /\ m[Len(l) + 1].req = r
<1>0. PICK e, m, qh : /\ e = [req |-> r, id |-> id, waiting |-> TRUE]
                      /\ m = Append(l, e)
                      /\ qh = [ph EXCEPT ![r] = "waiting"]
  OBVIOUS
<1>1. e \in Operation /\ e.req = r /\ e.id = id /\ e.waiting = TRUE BY <1>0 DEF Operation
<1>2. l \in Seq(Operation) /\ Len(l) \in Nat BY DEF Ready
<1>3. /\ m \in Seq(Operation) /\ Len(m) = Len(l) + 1 /\ m[Len(l) + 1] = e
      /\ \A i \in 1 .. Len(l) : m[i] = l[i]
  BY <1>0, <1>1, <1>2
<1>4. \A i \in 1 .. Len(l) : l[i].req \in Requests
  <2>1. \A i \in 1 .. Len(l) : l[i] \in Operation BY <1>2
  <2> QED BY <2>1 DEF Operation
<1>5. \A i \in 1 .. Len(l) : l[i].req # r
  <2> SUFFICES ASSUME NEW i \in 1 .. Len(l), l[i].req = r PROVE FALSE OBVIOUS
  <2>1. CASE i = 1 /\ ~l[1].waiting
    <3>1. Len(l) > 0 BY <2>1, <1>2
    <3>2. l[1].req \in HoldersIn(ph) BY <2>1, <3>1 DEF Ready
    <3> QED BY <3>2, <2>1 DEF HoldersIn
  <2>2. CASE l[i].waiting BY <2>2 DEF Ready
  <2>3. CASE i # 1
    <3>1. i \in 2 .. Len(l) BY <2>3, <1>2
    <3>2. l[i].waiting BY <3>1 DEF Ready
    <3> QED BY <3>2 DEF Ready
  <2> QED BY <2>1, <2>2, <2>3
<1>6. \A i \in 1 .. Len(m) : i \in 1 .. Len(l) \/ i = Len(l) + 1 BY <1>2, <1>3
<1>7. qh \in [Requests -> Phases] /\ qh[r] = "waiting" /\ \A q \in Requests \ {r} : qh[q] = ph[q]
  BY <1>0 DEF Ready, Phases
<1>8. HoldersIn(qh) = HoldersIn(ph) BY <1>7 DEF HoldersIn, Ready
<1>9. \A i \in 2 .. Len(m) : m[i].waiting
  <2> SUFFICES ASSUME NEW i \in 2 .. Len(m) PROVE m[i].waiting OBVIOUS
  <2>1. CASE i = Len(l) + 1 BY <2>1, <1>3, <1>1
  <2>2. CASE i # Len(l) + 1
    <3>1. i \in 2 .. Len(l) /\ i \in 1 .. Len(l) BY <2>2, <1>2, <1>3
    <3> QED BY <3>1, <1>3 DEF Ready
  <2> QED BY <2>1, <2>2
<1>10. \A i, j \in 1 .. Len(m) : m[i].req = m[j].req => i = j
  BY <1>1, <1>3, <1>5, <1>6 DEF Ready
<1>11. \A i \in 1 .. Len(m) : m[i].waiting => qh[m[i].req] = "waiting"
  BY <1>1, <1>3, <1>4, <1>5, <1>6, <1>7 DEF Ready
<1>12. \A q \in Requests :
         qh[q] = "waiting" => \E i \in 1 .. Len(m) : m[i].req = q /\ m[i].waiting
  <2> SUFFICES ASSUME NEW q \in Requests, qh[q] = "waiting"
               PROVE  \E i \in 1 .. Len(m) : m[i].req = q /\ m[i].waiting
    OBVIOUS
  <2>1. CASE q = r
    <3>1. Len(l) + 1 \in 1 .. Len(m) BY <1>2, <1>3
    <3> QED BY <3>1, <2>1, <1>1, <1>3
  <2>2. CASE q # r
    <3>1. PICK i \in 1 .. Len(l) : l[i].req = q /\ l[i].waiting BY <2>2, <1>7 DEF Ready
    <3>2. i \in 1 .. Len(m) BY <1>2, <1>3
    <3> QED BY <3>1, <3>2, <1>3
  <2> QED BY <2>1, <2>2
<1>13. Len(l) = 0 => m[1].waiting BY <1>1, <1>3
<1>14. Len(l) > 0 => 1 \in 1 .. Len(l) /\ m[1] = l[1] BY <1>2, <1>3
<1>15. Len(m) > 0 /\ ~m[1].waiting => m[1].req \in HoldersIn(qh) /\ held[m[1].req] = m[1].id
  BY <1>2, <1>8, <1>13, <1>14 DEF Ready
<1>16. \A q \in HoldersIn(qh) : Len(m) > 0 /\ ~m[1].waiting /\ m[1].req = q
  BY <1>2, <1>3, <1>8, <1>14 DEF Ready
<1>17. held \in [Requests -> -1 .. MaxId] BY DEF Ready
<1>18. Ready(m, qh, held)
  BY <1>3, <1>7, <1>9, <1>10, <1>11, <1>12, <1>15, <1>16, <1>17 DEF Ready
<1> QED BY <1>0, <1>1, <1>3, <1>18

(* abort_pending_operations keeps just the running head, if there is one.     *)
LEMMA KeptIsHead ==
  ASSUME NEW l, NEW ph, Core(l, ph, held)
  PROVE  /\ Len(l) = 0 => Kept(l) = <<>> /\ Aborted(l) = {}
         /\ Len(l) > 0 => Kept(l) = <<l[1]>> /\ Aborted(l) = {l[i].req : i \in 2 .. Len(l)}
         /\ \A i, j \in Running(l) : i = j
<1>1. l \in Seq(Operation) /\ Len(l) \in Nat /\ DOMAIN l = 1 .. Len(l) BY DEF Core
<1>2. Len(l) = 0 => Running(l) = {} BY <1>1 DEF Running
<1>3. Len(l) > 0 => Running(l) = {1} BY <1>1 DEF Running, Core
<1>4. Len(l) > 0 => DOMAIN l \ Running(l) = 2 .. Len(l) BY <1>1, <1>3
<1>5. Len(l) = 0 => Aborted(l) = {} BY <1>1 DEF Aborted
<1>6. Len(l) > 0 => Aborted(l) = {l[i].req : i \in 2 .. Len(l)}
  BY <1>4, Zenon DEF Aborted
<1> QED BY <1>2, <1>3, <1>5, <1>6 DEF Kept

(* The list an override request leaves behind, once it is appended: the   *)
(* running operation stays in front and nobody else waits.                *)
LEMMA AbortedListReady ==
  ASSUME Core(ops, phase, held), NEW l, NEW ph,
         l = Kept(ops), ph = [q \in Requests |-> IF q \in Aborted(ops) THEN "aborting" ELSE phase[q]]
  PROVE  /\ Ready(l, ph, held)
         /\ Len(l) \in {0, 1}
<1>1. /\ ops \in Seq(Operation) /\ Len(ops) \in Nat
      /\ \A i \in 1 .. Len(ops) : ops[i] \in Operation /\ ops[i].req \in Requests
  <2>1. ops \in Seq(Operation) /\ Len(ops) \in Nat BY DEF Core
  <2>2. \A i \in 1 .. Len(ops) : ops[i] \in Operation BY <2>1
  <2> QED BY <2>1, <2>2 DEF Operation
<1>2. ph \in [Requests -> Phases] BY DEF Core, Phases
<1>3. CASE Len(ops) = 0
  <2>1. l = <<>> /\ Aborted(ops) = {} BY <1>3, KeptIsHead
  <2>2. l \in Seq(Operation) /\ Len(l) = 0 BY <2>1
  <2>3. \A q \in Requests : ph[q] = phase[q] BY <2>1
  <2>4. HoldersIn(ph) = {}
    <3>1. HoldersIn(phase) = {} BY <1>3 DEF Core
    <3> QED BY <2>3, <3>1 DEF HoldersIn
  <2>5. \A q \in Requests : ph[q] # "waiting"
    <3> SUFFICES ASSUME NEW q \in Requests, ph[q] = "waiting" PROVE FALSE OBVIOUS
    <3>1. PICK i \in 2 .. Len(ops) : ops[i].req = q BY <2>3 DEF Core
    <3> QED BY <3>1, <1>3
  <2>6. held \in [Requests -> -1 .. MaxId] BY DEF Core
  <2>7. ~(Len(l) > 0) /\ (\A i \in 2 .. Len(l) : FALSE) /\ (\A i \in 1 .. Len(l) : FALSE) BY <2>2
  <2>8. l \in Seq(Operation) BY <2>2
  <2> QED BY <1>2, <2>2, <2>4, <2>5, <2>6, <2>7, <2>8 DEF Ready
<1>4. CASE Len(ops) > 0
  <2>1. PICK h : h = ops[1] OBVIOUS
  <2>2. 1 \in 1 .. Len(ops) BY <1>1, <1>4
  <2>3. h \in Operation /\ h.req \in Requests /\ ~h.waiting BY <1>1, <2>1, <2>2 DEF Core
  <2>4. l = <<h>> /\ Aborted(ops) = {ops[i].req : i \in 2 .. Len(ops)}
    BY <1>4, <2>1, KeptIsHead
  <2>5. l \in Seq(Operation) /\ Len(l) = 1 /\ l[1] = h BY <2>3, <2>4
  <2>6. h.req \notin Aborted(ops)
    <3> SUFFICES ASSUME h.req \in Aborted(ops) PROVE FALSE OBVIOUS
    <3>1. PICK i \in 2 .. Len(ops) : ops[i].req = h.req BY <2>4
    <3>2. i \in 1 .. Len(ops) /\ i # 1 BY <1>1
    <3> QED BY <2>1, <2>2, <3>1, <3>2 DEF Core
  <2>7. h.req \in HoldersIn(phase) /\ held[h.req] = h.id BY <1>4, <2>1 DEF Core
  <2>8. ph[h.req] = phase[h.req] BY <2>3, <2>6
  <2>9. h.req \in HoldersIn(ph) BY <2>7, <2>8 DEF HoldersIn
  <2>10. \A q \in HoldersIn(ph) : q = h.req
    <3> SUFFICES ASSUME NEW q \in HoldersIn(ph) PROVE q = h.req OBVIOUS
    <3>1. q \in HoldersIn(phase) BY DEF HoldersIn
    <3> QED BY <3>1, <2>1 DEF Core
  <2>11. \A q \in Requests : ph[q] # "waiting"
    <3> SUFFICES ASSUME NEW q \in Requests, ph[q] = "waiting" PROVE FALSE OBVIOUS
    <3>1. q \notin Aborted(ops) /\ phase[q] = "waiting" OBVIOUS
    <3>2. PICK i \in 2 .. Len(ops) : ops[i].req = q BY <3>1 DEF Core
    <3> QED BY <3>1, <3>2, <2>4
  <2>12. held \in [Requests -> -1 .. MaxId] BY DEF Core
  <2>13. /\ \A i \in 2 .. Len(l) : l[i].waiting
         /\ \A i, j \in 1 .. Len(l) : l[i].req = l[j].req => i = j
         /\ \A i \in 1 .. Len(l) : ~l[i].waiting
    BY <2>3, <2>5
  <2>14. /\ Len(l) > 0 /\ ~l[1].waiting => l[1].req \in HoldersIn(ph) /\ held[l[1].req] = l[1].id
         /\ \A q \in HoldersIn(ph) : Len(l) > 0 /\ ~l[1].waiting /\ l[1].req = q
    <3>1. l[1].req = h.req /\ l[1].id = h.id /\ ~l[1].waiting BY <2>3, <2>5
    <3>2. Len(l) > 0 BY <2>5
    <3> QED BY <2>7, <2>9, <2>10, <3>1, <3>2
  <2>15. l \in Seq(Operation) BY <2>5
  <2> QED BY <1>2, <2>5, <2>11, <2>12, <2>13, <2>14, <2>15 DEF Ready
<1> QED BY <1>1, <1>3, <1>4

----------------------------------------------------------------------------
(* mm_base_modem_operation_lock preserves the invariant.                      *)
LEMMA LockPreserves ==
  ASSUME IInv, NEW r \in Requests, phase[r] \in {"idle", "authorizing"}, OperationLock(r)
  PROVE  IInv'
<1>1. Core(ops, phase, held) /\ Rest BY IInvParts
<1>2. PICK info : info = [req |-> r, id |-> nextId, waiting |-> TRUE] OBVIOUS
<1>3. nextId \in 0 .. MaxId BY <1>1 DEF Rest
<1>4. IdAfter(nextId) \in 0 .. MaxId BY <1>3, ModemOpLockAssumption DEF IdAfter
<1>5. Ready(ops, phase, held) BY <1>1, CoreReady
<1>6. CASE forbidden
  <2>1. phase' = [phase EXCEPT ![r] = "aborting"] /\ UNCHANGED <<ops, forbidden, nextId, held, failed>>
    BY <1>6 DEF OperationLock
  <2>2. Core(ops', phase', held') BY <1>1, <2>1, OutsideStep
  <2>3. Rest' BY <1>1, <2>1 DEF Rest
  <2> QED BY <2>2, <2>3, IInvPartsNext
<1>7. CASE ~forbidden /\ r \notin Override
  <2>1. PICK m, qh : m = Append(ops, info) /\ qh = [phase EXCEPT ![r] = "waiting"] OBVIOUS
  <2>2. OperationRun(m, qh) /\ nextId' = IdAfter(nextId) /\ UNCHANGED <<forbidden, failed>>
    BY <1>2, <1>7, <2>1 DEF OperationLock
  <2>3. Ready(m, qh, held)
    <3>1. phase[r] \notin {"waiting", "granted", "running"} OBVIOUS
    <3> QED BY <1>2, <1>3, <1>5, <2>1, <3>1, AppendReady
  <2>4. Core(ops', phase', held') BY <2>2, <2>3, RunEffect
  <2>5. Rest' BY <1>1, <1>4, <1>7, <2>2 DEF Rest
  <2> QED BY <2>4, <2>5, IInvPartsNext
<1>8. CASE ~forbidden /\ r \in Override
  <2>1. PICK l, ph : /\ l = Kept(ops)
                     /\ ph = [q \in Requests |-> IF q \in Aborted(ops) THEN "aborting" ELSE phase[q]]
    OBVIOUS
  <2>2. Ready(l, ph, held) /\ Len(l) \in {0, 1} BY <1>1, <2>1, AbortedListReady
  <2>3. r \notin Aborted(ops)
    <3> SUFFICES ASSUME r \in Aborted(ops) PROVE FALSE OBVIOUS
    <3>1. Len(ops) \in Nat BY <1>1 DEF Core
    <3>2. Len(ops) > 0 BY <1>1, <3>1, KeptIsHead
    <3>3. PICK i \in 2 .. Len(ops) : ops[i].req = r BY <1>1, <3>2, KeptIsHead
    <3>4. phase[r] = "waiting" BY <1>1, <3>3 DEF Core
    <3> QED BY <3>4
  <2>4. PICK m, qh : m = Append(l, info) /\ qh = [ph EXCEPT ![r] = "waiting"] OBVIOUS
  <2>5. qh = [q \in Requests |-> IF q \in Aborted(ops) THEN "aborting"
                                 ELSE [phase EXCEPT ![r] = "waiting"][q]]
    <3>1. phase \in [Requests -> Phases] BY <1>1 DEF Core
    <3>2. ph \in [Requests -> Phases] BY <2>1, <3>1 DEF Phases
    <3>3. qh \in [Requests -> Phases] BY <2>4, <3>2 DEF Phases
    <3>4. ASSUME NEW q \in Requests
          PROVE  qh[q] = IF q \in Aborted(ops) THEN "aborting"
                         ELSE [phase EXCEPT ![r] = "waiting"][q]
      <4>1. CASE q = r BY <2>3, <2>4, <3>1, <3>2, <4>1
      <4>2. CASE q # r BY <2>1, <2>4, <3>1, <3>2, <4>2
      <4> QED BY <4>1, <4>2
    <3> QED BY <3>3, <3>4
  <2>6. /\ OperationRun(m, qh) /\ nextId' = IdAfter(nextId) /\ forbidden' = TRUE
        /\ failed' = (failed \/ \E i, j \in Running(ops) : i # j)
    BY <1>2, <1>8, <2>1, <2>4, <2>5 DEF OperationLock
  <2>7. ph[r] \notin {"waiting", "granted", "running"} BY <2>1, <2>3
  <2>8. Ready(m, qh, held) /\ Len(m) = Len(l) + 1 /\ m[Len(l) + 1].req = r
    <3>1. Ready(m, qh, held) BY <1>2, <1>3, <2>2, <2>4, <2>7, AppendReady
    <3>2. Ready(l, ph, held) BY <2>2
    <3>3. l \in Seq(Operation) /\ Len(l) \in Nat BY <3>2 DEF Ready
    <3>4. info \in Operation /\ info.req = r BY <1>2, <1>3 DEF Operation
    <3>5. Len(m) = Len(l) + 1 /\ m[Len(l) + 1] = info BY <2>4, <3>3, <3>4
    <3> QED BY <3>1, <3>4, <3>5
  <2>9. /\ Core(ops', phase', held') /\ Len(ops') = Len(m)
        /\ \A i \in 1 .. Len(m) : ops'[i].req = m[i].req
    BY <2>6, <2>8, RunEffect
  <2>10. failed' = FALSE BY <1>1, <2>6, KeptIsHead DEF Rest
  <2>11. \A i \in 2 .. Len(ops') : ops'[i].req \in Override
    <3> SUFFICES ASSUME NEW i \in 2 .. Len(ops') PROVE ops'[i].req \in Override OBVIOUS
    <3>1. PICK n : n = Len(l) OBVIOUS
    <3>2. n \in {0, 1} /\ Len(ops') = n + 1 /\ Len(m) = n + 1 BY <2>2, <2>8, <2>9, <3>1
    <3>3. i = n + 1 /\ i \in 1 .. Len(m) BY <3>2
    <3>4. ops'[i].req = m[i].req BY <2>9, <3>3
    <3>5. m[i].req = r BY <2>8, <3>1, <3>3
    <3> QED BY <1>8, <3>4, <3>5
  <2>12. Rest' BY <1>4, <2>6, <2>10, <2>11 DEF Rest
  <2> QED BY <2>9, <2>12, IInvPartsNext
<1> QED BY <1>6, <1>7, <1>8

(* mm_base_modem_operation_unlock by the holder preserves the invariant.      *)
LEMMA UnlockPreserves ==
  ASSUME IInv, NEW r \in Requests, phase[r] = "running", Unlock(r), UNCHANGED <<forbidden, nextId>>
  PROVE  IInv' /\ UnlockAllowed(held[r])
<1>1. Core(ops, phase, held) /\ Rest BY IInvParts
<1>2. r \in HoldersIn(phase) BY DEF HoldersIn
<1>3. Len(ops) > 0 /\ ops[1].req = r /\ held[r] = ops[1].id BY <1>1, <1>2 DEF Core
<1>4. ops \in Seq(Operation) /\ Len(ops) \in Nat /\ ops # <<>> /\ 1 \in 1 .. Len(ops)
  BY <1>1, <1>3 DEF Core
<1>5. ~ops[1].waiting BY <1>1, <1>4 DEF Core
<1>6. UnlockAllowed(held[r]) BY <1>3, <1>4, <1>5 DEF UnlockAllowed
<1>7. PICK l, ph : l = Tail(ops) /\ ph = [phase EXCEPT ![r] = "idle"] OBVIOUS
<1>8. OperationRun(l, ph) /\ UNCHANGED failed BY <1>6, <1>7 DEF Unlock
<1>9. /\ l \in Seq(Operation) /\ Len(l) = Len(ops) - 1
      /\ \A i \in 1 .. Len(l) : l[i] = ops[i + 1] /\ i + 1 \in 2 .. Len(ops) /\ i + 1 \in 1 .. Len(ops)
  BY <1>4, <1>7
<1>10. \A i \in 1 .. Len(ops) : ops[i].req \in Requests
  <2>1. \A i \in 1 .. Len(ops) : ops[i] \in Operation BY <1>4
  <2> QED BY <2>1 DEF Operation
<1>11. Ready(l, ph, held)
  <2>1. ph \in [Requests -> Phases] /\ held \in [Requests -> -1 .. MaxId] BY <1>1, <1>7 DEF Core, Phases
  <2>2. ph[r] = "idle" /\ \A q \in Requests \ {r} : ph[q] = phase[q] BY <1>1, <1>7 DEF Core
  <2>3. \A i \in 1 .. Len(l) : l[i].waiting
    <3> SUFFICES ASSUME NEW i \in 1 .. Len(l) PROVE l[i].waiting OBVIOUS
    <3>1. i + 1 > 1 BY <1>9
    <3> QED BY <1>1, <1>9, <3>1 DEF Core
  <2>4. \A i, j \in 1 .. Len(l) : l[i].req = l[j].req => i = j
    <3> SUFFICES ASSUME NEW i \in 1 .. Len(l), NEW j \in 1 .. Len(l), l[i].req = l[j].req
                 PROVE  i = j
      OBVIOUS
    <3>1. l[i] = ops[i + 1] /\ l[j] = ops[j + 1] /\ i + 1 \in 1 .. Len(ops) /\ j + 1 \in 1 .. Len(ops)
      BY <1>9
    <3>2. \A a, b \in 1 .. Len(ops) : ops[a].req = ops[b].req => a = b BY <1>1 DEF Core
    <3>3. i + 1 = j + 1 BY <3>1, <3>2
    <3> QED BY <3>3
  <2>5. HoldersIn(ph) = {} BY <1>1, <1>3, <2>2 DEF HoldersIn, Core
  <2>6. \A i \in 1 .. Len(l) : ph[l[i].req] = "waiting"
    <3> SUFFICES ASSUME NEW i \in 1 .. Len(l) PROVE ph[l[i].req] = "waiting" OBVIOUS
    <3>0. l[i] = ops[i + 1] /\ i + 1 \in 2 .. Len(ops) /\ i + 1 \in 1 .. Len(ops) BY <1>9
    <3>a. \A k \in 2 .. Len(ops) : phase[ops[k].req] = "waiting" BY <1>1 DEF Core
    <3>1. l[i].req \in Requests /\ phase[l[i].req] = "waiting" BY <3>0, <3>a, <1>10
    <3> QED BY <2>2, <3>1
  <2>7. \A q \in Requests : ph[q] = "waiting" => \E i \in 1 .. Len(l) : l[i].req = q /\ l[i].waiting
    <3> SUFFICES ASSUME NEW q \in Requests, ph[q] = "waiting"
                 PROVE  \E i \in 1 .. Len(l) : l[i].req = q /\ l[i].waiting
      OBVIOUS
    <3>1. PICK i \in 2 .. Len(ops) : ops[i].req = q BY <1>1, <2>2 DEF Core
    <3>2. i - 1 \in 1 .. Len(l) /\ (i - 1) + 1 = i BY <1>4, <1>9
    <3>3. l[i - 1].req = q BY <1>9, <3>1, <3>2
    <3> QED BY <2>3, <3>2, <3>3
  <2>8. \A i \in 2 .. Len(l) : i \in 1 .. Len(l) BY <1>9, <1>4
  <2>9. Len(l) > 0 => l[1].waiting
    <3>1. Len(l) > 0 => 1 \in 1 .. Len(l) BY <1>9, <1>4
    <3> QED BY <2>3, <3>1
  <2> QED BY <1>9, <2>1, <2>3, <2>4, <2>5, <2>6, <2>7, <2>8, <2>9 DEF Ready
<1>12. /\ Core(ops', phase', held') /\ Len(ops') = Len(l)
       /\ \A i \in 1 .. Len(l) : ops'[i].req = l[i].req
  BY <1>8, <1>11, RunEffect
<1>13. forbidden => \A i \in 2 .. Len(ops') : ops'[i].req \in Override
  <2> SUFFICES ASSUME forbidden, NEW i \in 2 .. Len(ops') PROVE ops'[i].req \in Override OBVIOUS
  <2>1. i \in 1 .. Len(l) BY <1>4, <1>9, <1>12
  <2> QED BY <1>1, <1>9, <1>12, <2>1 DEF Rest
<1>14. Rest' BY <1>1, <1>8, <1>13 DEF Rest
<1> QED BY <1>6, <1>12, <1>14, IInvPartsNext

(* The caller takes the lock it has been granted: Core does not tell          *)
(* "granted" from "running".                                                  *)
LEMMA TakePreserves ==
  ASSUME Core(ops, phase, held), NEW r \in Requests, phase[r] = "granted",
         phase' = [phase EXCEPT ![r] = "running"], UNCHANGED <<ops, held>>
  PROVE  Core(ops', phase', held')
<1>1. PICK ph : ph = phase' OBVIOUS
<1>2. /\ ops' = ops /\ held' = held
      /\ ph \in [Requests -> Phases] /\ ph[r] = "running"
      /\ \A q \in Requests \ {r} : ph[q] = phase[q]
  BY <1>1 DEF Core, Phases
<1>3. HoldersIn(ph) = HoldersIn(phase) BY <1>2 DEF HoldersIn
<1>4. \A q \in Requests : ph[q] = "waiting" <=> phase[q] = "waiting" BY <1>2
<1>5. \A i \in 2 .. Len(ops) : ops[i].req \in Requests
  <2>1. ops \in Seq(Operation) BY DEF Core
  <2>2. \A i \in 2 .. Len(ops) : ops[i] \in Operation BY <2>1
  <2> QED BY <2>2 DEF Operation
<1>6. \A i \in 2 .. Len(ops) : ph[ops[i].req] = "waiting" BY <1>4, <1>5 DEF Core
<1>7. Core(ops, ph, held) BY <1>2, <1>3, <1>4, <1>6 DEF Core
<1> QED BY <1>1, <1>2, <1>7

(* Every step preserves the invariant.                                        *)
LEMMA StepPreserves ==
  ASSUME IInv, NEW r \in Requests, Step(r)
  PROVE  IInv'
<1>1. Core(ops, phase, held) /\ Rest BY IInvParts
<1>2. CASE AuthorizeAndLock(r)
  <2>1. Core(ops', phase', held')
    BY <1>1, <1>2, OutsideStep DEF AuthorizeAndLock
  <2>2. Rest' BY <1>1, <1>2 DEF AuthorizeAndLock, Rest
  <2> QED BY <2>1, <2>2, IInvPartsNext
<1>3. CASE Refused(r)
  <2>1. Core(ops', phase', held') BY <1>1, <1>3, OutsideStep DEF Refused
  <2>2. Rest' BY <1>1, <1>3 DEF Refused, Rest
  <2> QED BY <2>1, <2>2, IInvPartsNext
<1>4. CASE AbortReady(r)
  <2>1. Core(ops', phase', held') BY <1>1, <1>4, OutsideStep DEF AbortReady
  <2>2. Rest' BY <1>1, <1>4 DEF AbortReady, Rest
  <2> QED BY <2>1, <2>2, IInvPartsNext
<1>5. CASE LockReady(r)
  <2>1. Core(ops', phase', held') BY <1>1, <1>5, TakePreserves DEF LockReady
  <2>2. Rest' BY <1>1, <1>5 DEF LockReady, Rest
  <2> QED BY <2>1, <2>2, IInvPartsNext
<1>6. CASE Authorized(r) \/ StateOperation(r)
  BY <1>6, LockPreserves DEF Authorized, StateOperation
<1>7. CASE OperationDone(r) BY <1>7, UnlockPreserves DEF OperationDone
<1> QED BY <1>2, <1>3, <1>4, <1>5, <1>6, <1>7 DEF Step

(* Every step of the lock keeps the inductive invariant.                  *)
LEMMA NextPreserves == IInv /\ [Next]_vars => IInv'
<1> SUFFICES ASSUME IInv, [Next]_vars PROVE IInv' OBVIOUS
<1>1. CASE Next BY <1>1, StepPreserves DEF Next
<1>2. CASE UNCHANGED vars
  <2>1. Core(ops, phase, held) /\ Rest BY IInvParts
  <2>2. Core(ops', phase', held') BY <1>2, <2>1 DEF vars
  <2>3. Rest' BY <1>2, <2>1 DEF vars, Rest
  <2> QED BY <2>2, <2>3, IInvPartsNext
<1> QED BY <1>1, <1>2

(* The inductive invariant holds before the first request.                *)
LEMMA InitEstablishes == Init => IInv
<1> SUFFICES ASSUME Init PROVE IInv OBVIOUS
<1>1. ops \in Seq(Operation) /\ Len(ops) = 0 BY DEF Init
<1>2. /\ forbidden = FALSE /\ nextId \in 0 .. MaxId /\ failed = FALSE
      /\ phase \in [Requests -> Phases] /\ held \in [Requests -> -1 .. MaxId]
  BY ModemOpLockAssumption DEF Init, Phases
<1>3. \A r \in Requests : phase[r] = "idle" BY DEF Init
<1>4. HoldersIn(phase) = {} BY <1>3 DEF HoldersIn
<1>5. Core(ops, phase, held) BY <1>1, <1>2, <1>3, <1>4 DEF Core
<1>6. Rest BY <1>2 DEF Rest
<1> QED BY <1>5, <1>6, IInvParts

(* The head of the list is the one entry that is not waiting, and the callers *)
(* agree with the list, after every step.                                     *)
THEOREM Invariance == Spec => []IInv
BY InitEstablishes, NextPreserves, PTL DEF Spec

(* Every variable keeps its type, the ids within their wrap-around.           *)
THEOREM SpecTypeOK == Spec => []TypeOK
<1>1. IInv => TypeOK BY DEF IInv
<1> QED BY <1>1, Invariance, PTL

(* No two callers hold the operation lock.                                    *)
THEOREM SpecMutualExclusion == Spec => []MutualExclusion
<1>1. IInv => MutualExclusion BY DEF IInv, MutualExclusion
<1> QED BY <1>1, Invariance, PTL

(* None of the asserts of lock, abort and unlock fails.                       *)
THEOREM SpecAssertsHold == Spec => []AssertsHold
<1>1. IInv => AssertsHold BY DEF IInv
<1> QED BY <1>1, Invariance, PTL

(* Who waits is in the list, behind a head that holds the lock.               *)
THEOREM SpecNobodyForgotten == Spec => []NobodyForgotten
<1>1. ASSUME IInv PROVE NobodyForgotten
  <2>1. Core(ops, phase, held) BY <1>1, IInvParts
  <2> SUFFICES ASSUME NEW r \in Requests, phase[r] = "waiting"
               PROVE  \E i \in 2 .. Len(ops) : ops[i].req = r /\ ops[i].waiting /\ ops[1].req \in Holders
    BY DEF NobodyForgotten
  <2>2. PICK i \in 2 .. Len(ops) : ops[i].req = r BY <2>1 DEF Core
  <2>3. Len(ops) \in Nat BY <2>1 DEF Core
  <2>4. i \in 1 .. Len(ops) /\ i > 1 /\ Len(ops) > 0 BY <2>3
  <2>5. ops[i].waiting BY <2>1, <2>4 DEF Core
  <2>6. ops[1].req \in Holders BY <2>1, <2>4 DEF Core, HoldersIn, Holders
  <2> QED BY <2>2, <2>5, <2>6
<1> QED BY <1>1, Invariance, PTL
----------------------------------------------------------------------------
(* The phases once r is in the list and before anything runs.                 *)
Queued(r) ==
  [q \in Requests |-> IF q = r THEN "waiting"
                      ELSE IF r \in Override /\ q \in Aborted(ops) THEN "aborting" ELSE phase[q]]

(* What an accepted request does to the phases: it is granted at once when     *)
(* the list was empty.                                                        *)
LEMMA LockEffect ==
  ASSUME IInv, NEW r \in Requests, phase[r] \in {"idle", "authorizing"}, OperationLock(r), ~forbidden
  PROVE  /\ forbidden' = (r \in Override)
         /\ Len(ops) = 0 => phase' = [Queued(r) EXCEPT ![r] = "granted"]
         /\ Len(ops) > 0 => phase' = Queued(r)
<1>1. Core(ops, phase, held) BY IInvParts
<1>2. ops \in Seq(Operation) /\ Len(ops) \in Nat /\ phase \in [Requests -> Phases] BY <1>1 DEF Core
<1>3. PICK info : info = [req |-> r, id |-> nextId, waiting |-> TRUE] OBVIOUS
<1>4. info.req = r /\ info.waiting = TRUE BY <1>3
<1>5. PICK l : l = IF r \in Override THEN Kept(ops) ELSE ops OBVIOUS
<1>6. /\ Len(ops) = 0 => l = <<>>
      /\ Len(ops) > 0 => l # <<>> /\ ~l[1].waiting /\ Len(l) \in Nat /\ Len(l) > 0
      /\ l \in Seq(Operation)
  <2>1. CASE Len(ops) = 0
    <3>1. ops = <<>> BY <1>2, <2>1
    <3>2. Kept(ops) = <<>> BY <1>1, <2>1, KeptIsHead
    <3>3. l = <<>> BY <1>5, <3>1, <3>2
    <3>4. l \in Seq(Operation) BY <3>3
    <3> QED BY <2>1, <3>3, <3>4
  <2>2. CASE Len(ops) > 0
    <3>1. 1 \in 1 .. Len(ops) BY <1>2, <2>2
    <3>2. ~ops[1].waiting /\ ops[1] \in Operation BY <1>1, <1>2, <3>1 DEF Core
    <3>3. CASE r \in Override
      <4>1. l = <<ops[1]>> BY <1>1, <1>5, <2>2, <3>3, KeptIsHead
      <4>2. l \in Seq(Operation) /\ Len(l) = 1 /\ l # <<>> /\ l[1] = ops[1] BY <3>2, <4>1
      <4> QED BY <2>2, <3>2, <4>2
    <3>4. CASE r \notin Override BY <1>2, <1>5, <2>2, <3>2, <3>4
    <3> QED BY <3>3, <3>4
  <2> QED BY <1>2, <2>1, <2>2
<1>7. r \notin Aborted(ops)
  <2> SUFFICES ASSUME r \in Aborted(ops) PROVE FALSE OBVIOUS
  <2>1. Len(ops) > 0 BY <1>1, <1>2, KeptIsHead
  <2>2. PICK i \in 2 .. Len(ops) : ops[i].req = r BY <1>1, <2>1, KeptIsHead
  <2> QED BY <1>1, <2>2 DEF Core
<1>8. OperationRun(Append(l, info), Queued(r)) /\ forbidden' = (r \in Override)
  <2>1. CASE r \in Override
    <3>1. Queued(r) = [q \in Requests |-> IF q \in Aborted(ops) THEN "aborting"
                                          ELSE [phase EXCEPT ![r] = "waiting"][q]]
      BY <1>2, <1>7, <2>1 DEF Queued
    <3> QED BY <1>3, <1>5, <2>1, <3>1 DEF OperationLock
  <2>2. CASE r \notin Override
    <3>1. Queued(r) = [phase EXCEPT ![r] = "waiting"] BY <1>2, <2>2 DEF Queued
    <3>2. forbidden' = forbidden BY <2>2 DEF OperationLock
    <3>3. forbidden = FALSE BY IInvParts DEF Rest
    <3>4. OperationRun(Append(l, info), Queued(r))
      BY <1>3, <1>5, <2>2, <3>1 DEF OperationLock
    <3>5. (r \in Override) = FALSE BY <2>2
    <3>6. forbidden' = FALSE BY <3>2, <3>3
    <3> QED BY <3>4, <3>5, <3>6, Zenon
  <2> QED BY <2>1, <2>2
<1>9. PICK m : m = Append(l, info) OBVIOUS
<1>10. info \in Operation BY <1>3, IInvParts DEF Rest, Operation
<1>11. Len(ops) = 0 => m # <<>> /\ m[1].waiting /\ m[1].req = r BY <1>4, <1>6, <1>9
<1>12. Len(ops) > 0 => ~m[1].waiting
  <2> SUFFICES ASSUME Len(ops) > 0 PROVE ~m[1].waiting OBVIOUS
  <2>1. m[1] = l[1] BY <1>6, <1>9, <1>10
  <2> QED BY <1>6, <2>1
<1>13. OperationRun(m, Queued(r)) BY <1>8, <1>9
<1> QED BY <1>8, <1>11, <1>12, <1>13 DEF OperationRun

(* What an unlock does to the phases: the next in the list, if any, is granted. *)
LEMMA UnlockEffect ==
  ASSUME IInv, NEW r \in Requests, phase[r] = "running", Unlock(r), UNCHANGED <<forbidden, nextId>>
  PROVE  LET idle == [phase EXCEPT ![r] = "idle"]
         IN  /\ Len(ops) > 0
             /\ Len(ops) = 1 => phase' = idle
             /\ Len(ops) > 1 => phase' = [idle EXCEPT ![ops[2].req] = "granted"]
<1>1. Core(ops, phase, held) BY IInvParts
<1>2. ops \in Seq(Operation) /\ Len(ops) \in Nat BY <1>1 DEF Core
<1>3. r \in HoldersIn(phase) BY DEF HoldersIn
<1>4. Len(ops) > 0 BY <1>1, <1>3 DEF Core
<1>4a. ops # <<>> /\ 1 \in 1 .. Len(ops) BY <1>2, <1>4
<1>5. PICK l, ph : l = Tail(ops) /\ ph = [phase EXCEPT ![r] = "idle"] OBVIOUS
<1>6. OperationRun(l, ph) BY <1>5, UnlockPreserves DEF Unlock
<1>7. Len(ops) = 1 => l = <<>>
  <2> SUFFICES ASSUME Len(ops) = 1 PROVE l = <<>> OBVIOUS
  <2>1. l \in Seq(Operation) /\ Len(l) = 0 BY <1>2, <1>4a, <1>5
  <2> QED BY <2>1
<1>8. Len(ops) > 1 => l # <<>> /\ l[1] = ops[2] /\ ops[2].waiting
  <2> SUFFICES ASSUME Len(ops) > 1 PROVE l # <<>> /\ l[1] = ops[2] /\ ops[2].waiting OBVIOUS
  <2>1. /\ l \in Seq(Operation) /\ Len(l) = Len(ops) - 1
        /\ \A i \in 1 .. Len(l) : l[i] = ops[i + 1]
    BY <1>2, <1>4a, <1>5
  <2>2. 1 \in 1 .. Len(l) /\ 2 \in 1 .. Len(ops) BY <1>2, <2>1
  <2>3. l[1] = ops[2] BY <2>1, <2>2
  <2>4. l # <<>> BY <2>1, <2>2
  <2>5. ops[2].waiting BY <1>1, <2>2 DEF Core
  <2> QED BY <2>3, <2>4, <2>5
<1>9. Len(ops) = 1 => phase' = ph BY <1>6, <1>7 DEF OperationRun
<1>10. Len(ops) > 1 => phase' = [ph EXCEPT ![ops[2].req] = "granted"] BY <1>6, <1>8 DEF OperationRun
<1> QED BY <1>4, <1>5, <1>9, <1>10

(* Once an override has been requested, nothing but an override is granted.   *)
THEOREM SpecOverrideIsLast == Spec => OverrideIsLast
<1> DEFINE A == \A r \in Requests \ Override :
                  forbidden /\ phase[r] # "granted" => phase'[r] # "granted"
<1>1. ASSUME IInv, [Next]_vars PROVE [A]_vars
  <2> SUFFICES ASSUME forbidden, Next, NEW q \in Requests \ Override, phase[q] # "granted"
               PROVE  phase'[q] # "granted"
    BY <1>1
  <2>1. Core(ops, phase, held) BY <1>1, IInvParts
  <2>2. phase \in [Requests -> Phases] BY <2>1 DEF Core
  <2>3. PICK r \in Requests : Step(r) BY DEF Next
  <2>4. CASE \/ AuthorizeAndLock(r) \/ Refused(r) \/ AbortReady(r) \/ LockReady(r)
    BY <2>2, <2>4 DEF AuthorizeAndLock, Refused, AbortReady, LockReady
  <2>5. CASE Authorized(r) \/ StateOperation(r)
    BY <2>2, <2>5 DEF Authorized, StateOperation, OperationLock
  <2>6. CASE OperationDone(r)
    <3>1. Len(ops) \in Nat BY <2>1 DEF Core
    <3>2. \A i \in 2 .. Len(ops) : ops[i].req \in Override BY <1>1, IInvParts DEF Rest
    <3>3. PICK idle : idle = [phase EXCEPT ![r] = "idle"] OBVIOUS
    <3>4. idle \in [Requests -> Phases] /\ idle[q] # "granted" BY <2>2, <3>3 DEF Phases
    <3>5. /\ Len(ops) > 0
          /\ Len(ops) = 1 => phase' = idle
          /\ Len(ops) > 1 => phase' = [idle EXCEPT ![ops[2].req] = "granted"]
      BY <1>1, <2>6, <3>3, UnlockEffect DEF OperationDone
    <3>6. CASE Len(ops) = 1 BY <3>4, <3>5, <3>6
    <3>7. CASE Len(ops) > 1
      <4>0. 2 \in 2 .. Len(ops) BY <3>1, <3>7
      <4>1. PICK n : n = ops[2].req OBVIOUS
      <4>2. n \in Override /\ n # q BY <3>2, <4>0, <4>1
      <4>3. phase' = [idle EXCEPT ![n] = "granted"] BY <3>5, <3>7, <4>1
      <4> QED BY <3>4, <4>2, <4>3
    <3>8. Len(ops) > 0 BY <3>5
    <3>9. \A n \in Nat : n > 0 => n = 1 \/ n > 1 OBVIOUS
    <3>10. Len(ops) = 1 \/ Len(ops) > 1 BY <3>1, <3>8, <3>9
    <3> QED BY <3>6, <3>7, <3>10
  <2> QED BY <2>3, <2>4, <2>5, <2>6 DEF Step
<1> QED BY <1>1, Invariance, PTL DEF Spec, OverrideIsLast
----------------------------------------------------------------------------
(* base_modem_operation_run changes who waits, but nobody's place.            *)
LEMMA RunKeepsOrder ==
  ASSUME NEW l \in Seq(Operation), NEW ph, OperationRun(l, ph)
  PROVE  Len(ops') = Len(l) /\ \A i \in 1 .. Len(l) : ops'[i].req = l[i].req
<1>1. CASE l # <<>> /\ l[1].waiting
  <2>1. Len(l) \in Nat /\ 1 \in 1 .. Len(l) /\ l[1] \in Operation BY <1>1
  <2>2. PICK h : h = l[1] OBVIOUS
  <2>3. PICK g : g = [h EXCEPT !.waiting = FALSE] OBVIOUS
  <2>4. ops' = [l EXCEPT ![1] = g] BY <1>1, <2>2, <2>3 DEF OperationRun
  <2>5. g.req = h.req BY <2>1, <2>2, <2>3 DEF Operation
  <2>6. Len(ops') = Len(l) /\ \A i \in 1 .. Len(l) : ops'[i] = IF i = 1 THEN g ELSE l[i]
    BY <2>1, <2>4
  <2> QED BY <2>2, <2>5, <2>6
<1>2. CASE ~(l # <<>> /\ l[1].waiting) BY <1>2 DEF OperationRun
<1> QED BY <1>1, <1>2

(* An ordinary request lines up behind everybody, and only it changes phase.  *)
LEMMA OrdinaryLinesUp ==
  ASSUME IInv, NEW s \in Requests, OperationLock(s), ~forbidden, s \notin Override, Len(ops) > 0,
         phase[s] \in {"idle", "authorizing"}
  PROVE  /\ phase' = [phase EXCEPT ![s] = "waiting"]
         /\ Len(ops') = Len(ops) + 1
         /\ \A i \in 1 .. Len(ops) : ops'[i].req = ops[i].req
         /\ ops'[Len(ops) + 1].req = s
<1>1. Core(ops, phase, held) BY IInvParts
<1>2. ops \in Seq(Operation) /\ Len(ops) \in Nat /\ phase \in [Requests -> Phases] BY <1>1 DEF Core
<1>3. PICK info : info = [req |-> s, id |-> nextId, waiting |-> TRUE] OBVIOUS
<1>4. info \in Operation /\ info.req = s BY <1>3, IInvParts DEF Rest, Operation
<1>5. PICK l, ph : l = Append(ops, info) /\ ph = [phase EXCEPT ![s] = "waiting"] OBVIOUS
<1>6. OperationRun(l, ph) BY <1>3, <1>5 DEF OperationLock
<1>7. /\ l \in Seq(Operation) /\ Len(l) = Len(ops) + 1 /\ l[Len(ops) + 1] = info
      /\ \A i \in 1 .. Len(ops) : l[i] = ops[i]
  BY <1>2, <1>4, <1>5
<1>8. Len(ops') = Len(l) /\ \A i \in 1 .. Len(l) : ops'[i].req = l[i].req
  BY <1>6, <1>7, RunKeepsOrder
<1>9. phase' = Queued(s) BY LockEffect
<1>10. Queued(s) = [phase EXCEPT ![s] = "waiting"] BY <1>2 DEF Queued
<1>11. Len(ops) + 1 \in 1 .. Len(l) /\ \A i \in 1 .. Len(ops) : i \in 1 .. Len(l) BY <1>2, <1>7
<1> QED BY <1>4, <1>7, <1>8, <1>9, <1>10, <1>11

(* An unlock takes the head off the list and nobody else moves.               *)
LEMMA UnlockAdvances ==
  ASSUME IInv, NEW s \in Requests, phase[s] = "running", Unlock(s), UNCHANGED <<forbidden, nextId>>
  PROVE  /\ Len(ops') = Len(ops) - 1
         /\ \A i \in 1 .. Len(ops) - 1 : ops'[i].req = ops[i + 1].req
<1>1. Core(ops, phase, held) BY IInvParts
<1>2. ops \in Seq(Operation) /\ Len(ops) \in Nat BY <1>1 DEF Core
<1>3. Len(ops) > 0 BY UnlockEffect
<1>4. PICK l, ph : l = Tail(ops) /\ ph = [phase EXCEPT ![s] = "idle"] OBVIOUS
<1>5. OperationRun(l, ph) BY <1>4, UnlockPreserves DEF Unlock
<1>6. ops # <<>> BY <1>2, <1>3
<1>7. /\ l \in Seq(Operation) /\ Len(l) = Len(ops) - 1
      /\ \A i \in 1 .. Len(l) : l[i] = ops[i + 1]
  BY <1>2, <1>4, <1>6
<1> QED BY <1>5, <1>7, RunKeepsOrder

(* First come, first served, for any number of requests: while q waits        *)
(* nobody behind it in the list, and nobody who asks later, is granted the    *)
(* lock or gets ahead of it (mm_base_modem_operation_lock and _unlock).       *)
THEOREM SpecServedInOrder == Spec => ServedInOrder
<1> DEFINE A == \A q, r \in Requests :
                  /\ phase[q] = "waiting" /\ phase'[q] = "waiting"
                  /\ Ahead(q, r, ops) \/ phase[r] \in {"idle", "authorizing", "aborting"}
                  => /\ phase'[r] # "granted"
                     /\ phase'[r] = "waiting" => Ahead(q, r, ops')
<1>1. ASSUME IInv, [Next]_vars PROVE [A]_vars
  <2> SUFFICES ASSUME Next, NEW q \in Requests, NEW r \in Requests,
                      phase[q] = "waiting", phase'[q] = "waiting",
                      Ahead(q, r, ops) \/ phase[r] \in {"idle", "authorizing", "aborting"}
               PROVE  /\ phase'[r] # "granted"
                      /\ phase'[r] = "waiting" => Ahead(q, r, ops')
    BY <1>1
  <2>1. Core(ops, phase, held) BY <1>1, IInvParts
  <2>2. ops \in Seq(Operation) /\ Len(ops) \in Nat /\ phase \in [Requests -> Phases]
    BY <2>1 DEF Core
  <2>3. Ahead(q, r, ops) => phase[r] = "waiting" BY <2>1 DEF Ahead, Core
  <2>4. phase[r] = "waiting" => Ahead(q, r, ops) BY <2>3
  <2>5. phase[r] \notin {"granted", "running"} BY <2>3
  <2>6. PICK k \in 2 .. Len(ops) : ops[k].req = q BY <2>1 DEF Core
  <2>7. Len(ops) > 0 /\ Len(ops) > 1 BY <2>2, <2>6
  <2>8. PICK s \in Requests : Step(s) BY DEF Next
  <2>9. CASE \/ AuthorizeAndLock(s) \/ Refused(s) \/ AbortReady(s) \/ LockReady(s)
             \/ ((Authorized(s) \/ StateOperation(s)) /\ forbidden)
    <3>1. PICK to \in {"idle", "authorizing", "aborting", "running"} :
             phase' = [phase EXCEPT ![s] = to] /\ ops' = ops
      BY <2>9 DEF AuthorizeAndLock, Refused, AbortReady, LockReady, Authorized, StateOperation,
                  OperationLock
    <3> QED BY <2>2, <2>4, <2>5, <3>1
  <2>10. CASE (Authorized(s) \/ StateOperation(s)) /\ ~forbidden
    <3>1. OperationLock(s) /\ phase[s] \in {"idle", "authorizing"}
      BY <2>10 DEF Authorized, StateOperation
    <3>2. s # q BY <3>1
    <3>3. CASE s \in Override
      <4>1. phase' = Queued(s) BY <1>1, <2>7, <2>10, <3>1, LockEffect
      <4>2. q \in Aborted(ops) BY <2>1, <2>6, <2>7, KeptIsHead
      <4>3. phase'[q] = "aborting" BY <3>2, <3>3, <4>1, <4>2 DEF Queued
      <4> QED BY <4>3
    <3>4. CASE s \notin Override
      <4>1. /\ phase' = [phase EXCEPT ![s] = "waiting"]
            /\ Len(ops') = Len(ops) + 1
            /\ \A i \in 1 .. Len(ops) : ops'[i].req = ops[i].req
            /\ ops'[Len(ops) + 1].req = s
        BY <1>1, <2>7, <2>10, <3>1, <3>4, OrdinaryLinesUp
      <4>2. phase'[r] # "granted" BY <2>2, <2>5, <4>1
      <4>3. CASE r = s
        <5>1. /\ k \in 2 .. Len(ops') /\ Len(ops) + 1 \in 2 .. Len(ops') /\ k < Len(ops) + 1
              /\ k \in 1 .. Len(ops)
          BY <2>2, <2>6, <4>1
        <5> QED BY <2>6, <4>1, <4>2, <4>3, <5>1 DEF Ahead
      <4>4. CASE r # s /\ phase[r] = "waiting"
        <5>1. PICK i, j \in 2 .. Len(ops) : i < j /\ ops[i].req = q /\ ops[j].req = r
          BY <2>4, <4>4 DEF Ahead
        <5>2. i \in 1 .. Len(ops) /\ j \in 1 .. Len(ops) /\ i \in 2 .. Len(ops') /\ j \in 2 .. Len(ops')
          BY <2>2, <4>1, <5>1
        <5> QED BY <4>1, <4>2, <5>1, <5>2 DEF Ahead
      <4>5. CASE r # s /\ phase[r] # "waiting" BY <2>2, <4>1, <4>2, <4>5
      <4> QED BY <4>3, <4>4, <4>5
    <3> QED BY <3>3, <3>4
  <2>11. CASE OperationDone(s)
    <3>1. Unlock(s) /\ phase[s] = "running" /\ UNCHANGED <<forbidden, nextId>>
      BY <2>11 DEF OperationDone
    <3>2. Len(ops') = Len(ops) - 1 /\ \A i \in 1 .. Len(ops) - 1 : ops'[i].req = ops[i + 1].req
      BY <1>1, <3>1, UnlockAdvances
    <3>3. PICK idle : idle = [phase EXCEPT ![s] = "idle"] OBVIOUS
    <3>4. PICK n : n = ops[2].req OBVIOUS
    <3>5. phase' = [idle EXCEPT ![n] = "granted"] BY <1>1, <2>7, <3>1, <3>3, <3>4, UnlockEffect
    <3>6. idle \in [Requests -> Phases] /\ \A x \in Requests : x # s => idle[x] = phase[x]
      BY <2>2, <3>3 DEF Phases
    <3>7. n # q BY <3>5, <3>6
    <3>8. 2 \in 2 .. Len(ops) BY <2>2, <2>7
    <3>9. phase[n] = "waiting" BY <2>1, <3>4, <3>8 DEF Core
    <3>10. r # s BY <2>5, <3>1
    <3>11. CASE phase[r] = "waiting"
      <4>1. PICK i, j \in 2 .. Len(ops) : i < j /\ ops[i].req = q /\ ops[j].req = r
        BY <2>4, <3>11 DEF Ahead
      <4>2. i \in 1 .. Len(ops) /\ j \in 1 .. Len(ops) /\ 2 \in 1 .. Len(ops) BY <2>2, <3>8, <4>1
      <4>3. i # 2 /\ j # 2 BY <3>4, <3>7, <4>1
      <4>4. r # n BY <2>1, <3>4, <4>1, <4>2, <4>3 DEF Core
      <4>5. phase'[r] = phase[r] BY <3>5, <3>6, <3>10, <4>4
      <4>6. PICK i1, j1 \in Int : i1 = i - 1 /\ j1 = j - 1 BY <4>1
      <4>7. /\ i1 \in 2 .. Len(ops') /\ j1 \in 2 .. Len(ops') /\ i1 < j1
            /\ i1 \in 1 .. Len(ops) - 1 /\ j1 \in 1 .. Len(ops) - 1 /\ i1 + 1 = i /\ j1 + 1 = j
        BY <2>2, <3>2, <4>1, <4>3, <4>6
      <4>8. ops'[i1].req = q /\ ops'[j1].req = r BY <3>2, <4>1, <4>7
      <4> QED BY <3>11, <4>5, <4>7, <4>8 DEF Ahead
    <3>12. CASE phase[r] # "waiting"
      <4>1. r # n BY <3>9, <3>12
      <4>2. phase'[r] = phase[r] BY <3>5, <3>6, <3>10, <4>1
      <4> QED BY <2>5, <3>12, <4>2
    <3> QED BY <3>11, <3>12
  <2> QED BY <2>8, <2>9, <2>10, <2>11 DEF Step
<1> QED BY <1>1, Invariance, PTL DEF Spec, ServedInOrder
----------------------------------------------------------------------------
(* Every step of the lock is a step of the abstract mutex.                    *)
WaitersIn(ph) == {r \in Requests : ph[r] = "waiting"}

(* Who holds and who waits, read off the list.                                *)
LEMMA MutexState ==
  ASSUME IInv
  PROVE  /\ ops \in Seq(Operation) /\ Len(ops) \in Nat /\ phase \in [Requests -> Phases]
         /\ Len(ops) = 0 => HoldersIn(phase) = {} /\ WaitersIn(phase) = {}
         /\ Len(ops) > 0 => HoldersIn(phase) = {ops[1].req} /\ ops[1].req \in Requests
         /\ Len(ops) > 0 => WaitersIn(phase) = {ops[i].req : i \in 2 .. Len(ops)}
<1>1. Core(ops, phase, held) BY IInvParts
<1>2. ops \in Seq(Operation) /\ Len(ops) \in Nat /\ phase \in [Requests -> Phases] BY <1>1 DEF Core
<1>3. \A i \in 1 .. Len(ops) : ops[i].req \in Requests
  <2>1. \A i \in 1 .. Len(ops) : ops[i] \in Operation BY <1>2
  <2> QED BY <2>1 DEF Operation
<1>4. \A i \in 2 .. Len(ops) : i \in 1 .. Len(ops) BY <1>2
<1>5. WaitersIn(phase) = {ops[i].req : i \in 2 .. Len(ops)}
  <2>1. ASSUME NEW q \in WaitersIn(phase) PROVE q \in {ops[i].req : i \in 2 .. Len(ops)}
    BY <1>1 DEF Core, WaitersIn
  <2>2. ASSUME NEW i \in 2 .. Len(ops) PROVE ops[i].req \in WaitersIn(phase)
    BY <1>1, <1>3, <1>4 DEF Core, WaitersIn
  <2> QED BY <2>1, <2>2
<1>6. CASE Len(ops) = 0
  <2>1. HoldersIn(phase) = {} BY <1>1, <1>6 DEF Core
  <2>2. WaitersIn(phase) = {} BY <1>5, <1>6
  <2> QED BY <1>2, <1>6, <2>1, <2>2
<1>7. CASE Len(ops) > 0
  <2>1. ops[1].req \in HoldersIn(phase) /\ \A r \in HoldersIn(phase) : ops[1].req = r
    BY <1>1, <1>7 DEF Core
  <2>2. HoldersIn(phase) = {ops[1].req} BY <2>1
  <2>3. ops[1].req \in Requests BY <2>1 DEF HoldersIn
  <2> QED BY <1>2, <1>5, <1>7, <2>2, <2>3
<1> QED BY <1>2, <1>6, <1>7

(* mm_base_modem_operation_lock, unless it refuses, is a request to the   *)
(* abstract mutex.                                                        *)
LEMMA LockIsRequest ==
  ASSUME IInv, NEW r \in Requests, phase[r] \in {"idle", "authorizing"}, OperationLock(r), ~forbidden
  PROVE  Mutex!Request(r)
<1>1. /\ ops \in Seq(Operation) /\ Len(ops) \in Nat /\ phase \in [Requests -> Phases]
      /\ Len(ops) = 0 => HoldersIn(phase) = {} /\ WaitersIn(phase) = {}
      /\ Len(ops) > 0 => HoldersIn(phase) = {ops[1].req} /\ ops[1].req \in Requests
      /\ Len(ops) > 0 => WaitersIn(phase) = {ops[i].req : i \in 2 .. Len(ops)}
  BY MutexState
<1>2. Core(ops, phase, held) BY IInvParts
<1>3. Aborted(ops) = WaitersIn(phase)
  <2>1. \A n \in Nat : n = 0 \/ n > 0 OBVIOUS
  <2>2. Len(ops) = 0 \/ Len(ops) > 0 BY <1>1, <2>1
  <2>3. CASE Len(ops) = 0
    <3>1. Aborted(ops) = {} BY <1>2, <2>3, KeptIsHead
    <3>2. WaitersIn(phase) = {} BY <1>1, <2>3
    <3> QED BY <3>1, <3>2
  <2>4. CASE Len(ops) > 0
    <3>1. Aborted(ops) = {ops[i].req : i \in 2 .. Len(ops)} BY <1>2, <2>4, KeptIsHead
    <3>2. WaitersIn(phase) = {ops[i].req : i \in 2 .. Len(ops)} BY <1>1, <2>4
    <3> QED BY <3>1, <3>2, Zenon
  <2> QED BY <2>2, <2>3, <2>4
<1>4. r \notin HoldersIn(phase) \union WaitersIn(phase) BY DEF HoldersIn, WaitersIn
<1>5. PICK qh : qh = Queued(r) OBVIOUS
<1>6. /\ qh \in [Requests -> Phases]
      /\ qh[r] = "waiting"
      /\ \A q \in Requests \ {r} :
           qh[q] = IF r \in Override /\ q \in WaitersIn(phase) THEN "aborting" ELSE phase[q]
  BY <1>1, <1>3, <1>5 DEF Queued, Phases
<1>7. HoldersIn(qh) = HoldersIn(phase)
  BY <1>4, <1>6 DEF HoldersIn, WaitersIn
<1>8. WaitersIn(qh) = (IF r \in Override THEN {} ELSE WaitersIn(phase)) \union {r}
  BY <1>6 DEF WaitersIn
<1>9. /\ forbidden' = (r \in Override)
      /\ Len(ops) = 0 => phase' = [qh EXCEPT ![r] = "granted"]
      /\ Len(ops) > 0 => phase' = qh
  BY <1>5, LockEffect
<1>10. PICK ph : ph = phase' OBVIOUS
<1>11. CASE Len(ops) = 0
  <2>1. ph = [qh EXCEPT ![r] = "granted"] BY <1>9, <1>10, <1>11
  <2>2. HoldersIn(ph) = {r} BY <1>1, <1>6, <1>7, <1>11, <2>1 DEF HoldersIn
  <2>3. WaitersIn(ph) = {} BY <1>1, <1>6, <1>8, <1>11, <2>1 DEF WaitersIn
  <2>4. HoldersIn(phase) = {} /\ WaitersIn(phase) = {} BY <1>1, <1>11
  <2>5. Holders' = {r} /\ {q \in Requests : phase[q] = "waiting"}' = {}
    BY <1>10, <2>2, <2>3 DEF Holders, HoldersIn, WaitersIn
  <2>6. Holders = {} /\ {q \in Requests : phase[q] = "waiting"} = {}
    BY <2>4 DEF Holders, HoldersIn, WaitersIn
  <2> QED BY <1>9, <2>5, <2>6 DEF Mutex!Request, Mutex!Kept
<1>12. CASE Len(ops) > 0
  <2>1. ph = qh BY <1>9, <1>10, <1>12
  <2>2. Holders' = Holders /\ Holders # {}
    <3>1. Holders = HoldersIn(phase) /\ Holders' = HoldersIn(ph) BY <1>10 DEF Holders, HoldersIn
    <3> QED BY <1>1, <1>7, <1>12, <2>1, <3>1
  <2>3. {q \in Requests : phase[q] = "waiting"} = WaitersIn(phase) BY DEF WaitersIn
  <2>4. {q \in Requests : phase[q] = "waiting"}' = WaitersIn(ph) BY <1>10 DEF WaitersIn
  <2>5. Holders = HoldersIn(phase) BY DEF Holders, HoldersIn
  <2> QED BY <1>4, <1>8, <1>9, <2>1, <2>2, <2>3, <2>4, <2>5 DEF Mutex!Request, Mutex!Kept
<1> QED BY <1>1, <1>11, <1>12

(* mm_base_modem_operation_unlock is the abstract release of the lock by  *)
(* the one who holds it.                                                  *)
LEMMA UnlockIsRelease ==
  ASSUME IInv, NEW r \in Requests, phase[r] = "running", Unlock(r), UNCHANGED <<forbidden, nextId>>
  PROVE  Mutex!Release(r)
<1>1. /\ ops \in Seq(Operation) /\ Len(ops) \in Nat /\ phase \in [Requests -> Phases]
      /\ Len(ops) > 0 => HoldersIn(phase) = {ops[1].req}
      /\ Len(ops) > 0 => WaitersIn(phase) = {ops[i].req : i \in 2 .. Len(ops)}
  BY MutexState
<1>2. PICK idle : idle = [phase EXCEPT ![r] = "idle"] OBVIOUS
<1>3. /\ Len(ops) > 0
      /\ Len(ops) = 1 => phase' = idle
      /\ Len(ops) > 1 => phase' = [idle EXCEPT ![ops[2].req] = "granted"]
  BY <1>2, UnlockEffect
<1>4. r \in HoldersIn(phase) /\ HoldersIn(phase) = {r} BY <1>1, <1>3 DEF HoldersIn
<1>5. idle \in [Requests -> Phases] /\ idle[r] = "idle" /\ \A q \in Requests \ {r} : idle[q] = phase[q]
  BY <1>1, <1>2 DEF Phases
<1>6. HoldersIn(idle) = {} /\ WaitersIn(idle) = WaitersIn(phase)
  BY <1>4, <1>5 DEF HoldersIn, WaitersIn
<1>7. PICK ph : ph = phase' OBVIOUS
<1>8. /\ Holders = HoldersIn(phase) /\ Holders' = HoldersIn(ph)
      /\ {q \in Requests : phase[q] = "waiting"} = WaitersIn(phase)
      /\ {q \in Requests : phase[q] = "waiting"}' = WaitersIn(ph)
  BY <1>7 DEF Holders, HoldersIn, WaitersIn
<1>9. forbidden' = forbidden OBVIOUS
<1>10. CASE Len(ops) = 1
  <2>1. ph = idle BY <1>3, <1>7, <1>10
  <2>2. WaitersIn(phase) = {} BY <1>1, <1>10
  <2> QED BY <1>4, <1>6, <1>8, <1>9, <2>1, <2>2 DEF Mutex!Release
<1>11. CASE Len(ops) > 1
  <2>1. PICK n : n = ops[2].req OBVIOUS
  <2>2. 2 \in 2 .. Len(ops) BY <1>1, <1>11
  <2>3. n \in WaitersIn(phase) BY <1>1, <1>3, <2>1, <2>2
  <2>4. ph = [idle EXCEPT ![n] = "granted"] BY <1>3, <1>7, <1>11, <2>1
  <2>5. HoldersIn(ph) = {n} BY <1>5, <1>6, <2>3, <2>4 DEF HoldersIn, WaitersIn
  <2>6. WaitersIn(ph) = WaitersIn(phase) \ {n} BY <1>5, <1>6, <2>3, <2>4 DEF WaitersIn
  <2> QED BY <1>4, <1>8, <1>9, <2>3, <2>5, <2>6 DEF Mutex!Release
<1>12. \A n \in Nat : n > 0 => n = 1 \/ n > 1 OBVIOUS
<1>13. Len(ops) = 1 \/ Len(ops) > 1 BY <1>1, <1>3, <1>12
<1> QED BY <1>10, <1>11, <1>13

(* Every step of the lock is a step of the abstract mutex or leaves its   *)
(* state alone.                                                           *)
LEMMA MutexStep == IInv /\ [Next]_vars => [Mutex!Next]_(Mutex!vars)
<1> SUFFICES ASSUME IInv, [Next]_vars PROVE [Mutex!Next]_(Mutex!vars) OBVIOUS
<1>1. CASE UNCHANGED vars BY <1>1 DEF vars, Mutex!vars, Holders
<1>2. ASSUME NEW r \in Requests, Step(r) PROVE [Mutex!Next]_(Mutex!vars)
  <2>1. phase \in [Requests -> Phases] BY MutexState
  <2>2. CASE AuthorizeAndLock(r) \/ Refused(r) \/ AbortReady(r)
             \/ ((Authorized(r) \/ StateOperation(r)) /\ forbidden)
    <3>1. PICK to \in {"idle", "authorizing", "aborting"} :
             /\ phase' = [phase EXCEPT ![r] = to]
             /\ phase[r] \notin {"waiting", "granted", "running"}
             /\ forbidden' = forbidden
      BY <2>2 DEF AuthorizeAndLock, Refused, AbortReady, Authorized, StateOperation, OperationLock
    <3>2. \A q \in Requests : /\ phase'[q] = "waiting" <=> phase[q] = "waiting"
                              /\ phase'[q] \in {"granted", "running"} <=> phase[q] \in {"granted", "running"}
      BY <2>1, <3>1
    <3>3. Holders' = Holders BY <3>2 DEF Holders
    <3>4. {q \in Requests : phase[q] = "waiting"}' = {q \in Requests : phase[q] = "waiting"} BY <3>2
    <3> QED BY <3>1, <3>3, <3>4 DEF Mutex!vars
  <2>3. CASE LockReady(r)
    <3>1. \A q \in Requests : /\ phase'[q] = "waiting" <=> phase[q] = "waiting"
                              /\ phase'[q] \in {"granted", "running"} <=> phase[q] \in {"granted", "running"}
      BY <2>1, <2>3 DEF LockReady
    <3>2. Holders' = Holders BY <3>1 DEF Holders
    <3>3. {q \in Requests : phase[q] = "waiting"}' = {q \in Requests : phase[q] = "waiting"} BY <3>1
    <3> QED BY <2>3, <3>2, <3>3 DEF Mutex!vars, LockReady
  <2>4. CASE (Authorized(r) \/ StateOperation(r)) /\ ~forbidden
    <3>1. Mutex!Request(r) BY <2>4, LockIsRequest DEF Authorized, StateOperation
    <3> QED BY <3>1 DEF Mutex!Next
  <2>5. CASE OperationDone(r)
    <3>1. Mutex!Release(r) BY <2>5, UnlockIsRelease DEF OperationDone
    <3> QED BY <3>1 DEF Mutex!Next
  <2> QED BY <1>2, <2>2, <2>3, <2>4, <2>5 DEF Step
<1> QED BY <1>1, <1>2 DEF Next

(* The empty list of operations is the initial state of the abstract      *)
(* mutex.                                                                 *)
LEMMA MutexInit == Init => Mutex!Init
BY DEF Init, Mutex!Init, Holders

(* The lock of the modem object implements the abstract mutex: free locks are *)
(* granted at once, a release passes the lock on, an override throws out who   *)
(* waits and closes the lock to everybody else.                               *)
THEOREM SpecImplementsMutex == Spec => MutexSpec
BY MutexInit, MutexStep, Invariance, PTL DEF Spec, MutexSpec, Mutex!Spec
=============================================================================
