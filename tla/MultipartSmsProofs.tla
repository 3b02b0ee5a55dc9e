-------------------------- MODULE MultipartSmsProofs --------------------------
(***************************************************************************)
(* Proofs about MultipartSms for any number of storages, places, messages  *)
(* and inputs.                                                             *)
(***************************************************************************)
EXTENDS MultipartSms, FiniteSetTheorems, SequenceTheorems, WellFoundedInduction, TLAPS

(* A sequence, of whatever.                                                   *)
IsSeq(s) == \E S : s \in Seq(S)

LEMMA SeqAppend ==
  ASSUME NEW s, IsSeq(s), NEW e
  PROVE  /\ IsSeq(Append(s, e)) /\ Len(s) \in Nat
         /\ DOMAIN s = 1 .. Len(s) /\ DOMAIN Append(s, e) = 1 .. Len(s) + 1
         /\ \A n \in DOMAIN s : Append(s, e)[n] = s[n]
         /\ Append(s, e)[Len(s) + 1] = e
<1>1. PICK S : s \in Seq(S) BY DEF IsSeq
<1>2. s \in Seq(S \union {e}) BY <1>1, SeqMonotonic
<1>3. Len(s) \in Nat /\ DOMAIN s = 1 .. Len(s) BY <1>1, LenProperties
<1>4. Append(s, e) \in Seq(S \union {e}) /\ Len(Append(s, e)) = Len(s) + 1 BY <1>2
<1>5. DOMAIN Append(s, e) = 1 .. Len(s) + 1 BY <1>4, LenProperties
<1>6. (\A n \in 1 .. Len(s) : Append(s, e)[n] = s[n]) /\ Append(s, e)[Len(s) + 1] = e BY <1>2, <1>3
<1> QED BY <1>3, <1>4, <1>5, <1>6 DEF IsSeq

LEMMA SeqTail ==
  ASSUME NEW s, IsSeq(s), s # <<>>, NEW t, t = Tail(s)
  PROVE  /\ IsSeq(t)
         /\ 1 \in DOMAIN s /\ Head(s) = s[1]
         /\ \A n \in DOMAIN t : n \in Nat \ {0} /\ n + 1 \in DOMAIN s /\ t[n] = s[n + 1]
<1>1. PICK S : s \in Seq(S) BY DEF IsSeq
<1>2. Len(s) \in Nat \ {0} /\ DOMAIN s = 1 .. Len(s) BY <1>1, LenProperties, EmptySeq
<1>3. t \in Seq(S) /\ Len(t) = Len(s) - 1 /\ \A n \in 1 .. Len(t) : t[n] = s[n + 1]
  BY <1>1, HeadTailProperties
<1>4. DOMAIN t = 1 .. Len(s) - 1 BY <1>3, LenProperties
<1>5. Head(s) = s[1] BY <1>1
<1>6. 1 \in DOMAIN s /\ \A n \in DOMAIN t : n \in Nat \ {0} /\ n + 1 \in DOMAIN s /\ t[n] = s[n + 1]
  BY <1>2, <1>3, <1>4
<1> QED BY <1>3, <1>5, <1>6 DEF IsSeq

LEMMA SeqFirst ==
  ASSUME NEW s, IsSeq(s), s # <<>>, NEW e, NEW t, t = [s EXCEPT ![1] = e]
  PROVE  /\ IsSeq(t) /\ DOMAIN t = DOMAIN s /\ 1 \in DOMAIN s
         /\ \A n \in DOMAIN s : n \in Nat \ {0} /\ t[n] = IF n = 1 THEN e ELSE s[n]
<1>1. PICK S : s \in Seq(S) BY DEF IsSeq
<1>2. Len(s) \in Nat \ {0} /\ DOMAIN s = 1 .. Len(s) BY <1>1, LenProperties, EmptySeq
<1>3. s \in Seq(S \union {e}) BY <1>1, SeqMonotonic
<1>4. t \in Seq(S \union {e}) BY <1>2, <1>3, ExceptSeq
<1>5. DOMAIN t = DOMAIN s OBVIOUS
<1>6. \A n \in DOMAIN s : n \in Nat \ {0} /\ t[n] = IF n = 1 THEN e ELSE s[n] BY <1>2
<1> QED BY <1>2, <1>4, <1>5, <1>6 DEF IsSeq

(* t is the sequence at and e after it.                                       *)
Adds(at, e, t) ==
  \E z \in Nat \ {0} :
    /\ IsSeq(t) /\ z \in DOMAIN t /\ t[z] = e
    /\ \A n \in DOMAIN t : n \in DOMAIN at \/ n = z
    /\ \A n \in DOMAIN at : n \in DOMAIN t /\ n \in Nat /\ n < z /\ t[n] = at[n]

LEMMA Appended ==
  ASSUME NEW at, IsSeq(at), NEW e
  PROVE  Adds(at, e, Append(at, e))
<1> PICK t : t = Append(at, e) OBVIOUS
<1>1. /\ IsSeq(Append(at, e)) /\ Len(at) \in Nat
      /\ DOMAIN at = 1 .. Len(at) /\ DOMAIN Append(at, e) = 1 .. Len(at) + 1
      /\ \A n \in DOMAIN at : Append(at, e)[n] = at[n]
      /\ Append(at, e)[Len(at) + 1] = e
  BY SeqAppend
<1>2. PICK z \in Nat \ {0} : z = Len(at) + 1 BY <1>1
<1>3. /\ IsSeq(t) /\ DOMAIN at = 1 .. z - 1 /\ DOMAIN t = 1 .. z /\ t[z] = e
      /\ \A n \in DOMAIN at : t[n] = at[n]
  BY ONLY <1>1, <1>2, t = Append(at, e)
<1>4. Adds(at, e, t) BY ONLY <1>3, z \in Nat \ {0} DEF Adds
<1> QED BY <1>4

(* The largest and the smallest of numbers.                                   *)
LEMMA MinExists ==
  ASSUME NEW S, S \subseteq Nat, S # {}
  PROVE  \E x \in S : \A y \in S : x =< y
<1> DEFINE R == {ss \in Nat \X Nat : ss[1] < ss[2]}
<1>1. IsWellFoundedOn(R, Nat) BY NatLessThanWellFounded DEF OpToRel
<1>2. PICK x \in S : \A y \in S : <<y, x>> \notin R BY <1>1, WFMin
<1>3. \A y \in S : x =< y
  <2> TAKE y \in S
  <2>1. x \in Nat /\ y \in Nat /\ (y < x => <<y, x>> \in R) OBVIOUS
  <2> QED BY <1>2, <2>1
<1> QED BY <1>3

LEMMA MinIsIn ==
  ASSUME NEW S, S \subseteq Nat, S # {}
  PROVE  Min(S) \in S /\ \A x \in S : Min(S) <= x
BY MinExists DEF Min

LEMMA MaxIsIn ==
  ASSUME NEW N \in Nat, NEW S, S \subseteq 1 .. N, S # {}
  PROVE  Max(S) \in S
<1> DEFINE T == {N - x : x \in S}
<1>1. T \subseteq Nat /\ T # {}
  <2>1. \A x \in S : N - x \in Nat OBVIOUS
  <2> QED BY <2>1
<1>2. PICK t \in T : \A u \in T : t =< u BY <1>1, MinExists
<1>3. PICK x \in S : t = N - x BY <1>2
<1>4. \A y \in S : x >= y
  <2> TAKE y \in S
  <2>1. N - y \in T OBVIOUS
  <2>2. N - x =< N - y BY <1>2, <1>3, <2>1
  <2> QED BY <2>2
<1> QED BY <1>4 DEF Max

----------------------------------------------------------------------------
(* The inductive invariant.                                                 *)
CommandFields == DOMAIN Command
SmsFields == DOMAIN NewSms
DaemonFields == {"mem1", "mem2", "held1", "held2", "default", "sms", "used", "at", "loading",
                 "stray", "crashed", "pdu", "kept"}
Reading == {"indication", "list", "delete"}
Writing == {"store", "send"}
Reads == {"cmgr", "cmgl", "cmgd"}
Maybe == Storages \union {None}
Entry == [index : Slots, storage : Storages, part : Parts]

(* A command and what its operation may lock.                                 *)
CommandOK(c) ==
  /\ DOMAIN c = CommandFields
  /\ c.locks1 \in BOOLEAN /\ c.locks2 \in BOOLEAN
  /\ c.op \in Reading \union Writing \union {"default", "none"}
  /\ c.locks1 <=> c.op \in Reading
  /\ c.locks2 => c.op \in Writing /\ c.previous2 \in Storages
  /\ c.cmd \in Reads => c.op \in Reading
  /\ c.cmd = "cmgw" => c.op = "store"
  /\ c.op \in Reading => c.cmd \in Reads \union {"cpms"} /\ c.previous1 \in Storages
  /\ c.op = "default" => c.cmd = "cpms" /\ c.storage \in Storages
  /\ c.op = "delete" => c.sms \in Ids
  /\ c.cmd = "cpms" => c.mem1 \in Storages /\ c.mem2 \in Maybe /\ c.mem3 \in Maybe /\ c.got = {}
  /\ c.storage \in Maybe
  /\ IsFiniteSet(c.got) /\ c.got \subseteq Entry
  /\ c.op \in Reading => \A e \in c.got : e.storage = c.storage /\ (c.cmd = "cmgr" => e.index = c.index)

(* What is in flight is a command of its operation, and the answer to a part   *)
(* that was written says where it is.                                         *)
Runs(c) ==
  /\ c.op # "none"
  /\ c.op = "send" => c.cmd \in {"cpms", "cmss", "cmgs"}
  /\ c.cmd = "cmgd" => c.op = "delete"
  /\ c.cmd = "cmgw" /\ c.status = "ok" => c.got # {}

(* What is stored is a message of a user, and part by part.                   *)
Writes(d, c) ==
  /\ c.op \in Writing => c.sms \in Ids /\ c.sms <= d.used
  /\ c.op = "store" =>
       /\ c.storage \in Storages /\ d.sms[c.sms].user
       /\ DOMAIN d.sms[c.sms].parts = 1 .. d.sms[c.sms].max
       /\ IF c.cmd = "cpms" THEN c.seq = 0 ELSE c.cmd = "cmgw" /\ c.seq \in 1 .. d.sms[c.sms].max

(* Of the commands in flight and the answered one at most one has the lock.   *)
Alone(at, c, lock, held) ==
  /\ \A m, n \in DOMAIN at : at[m][lock] /\ at[n][lock] => m = n
  /\ \A n \in DOMAIN at : ~(at[n][lock] /\ c[lock])
  /\ held <=> c[lock] \/ \E n \in DOMAIN at : at[n][lock]

(* mem1 is locked by an operation that will unlock it.                        *)
Owned(d) == d.held1 /\ ~d.kept

(* The lock of mem1 means the storage that is or is being selected, and what  *)
(* is selected after it is the same mem1.                                     *)
Means(d, c) == c.locks1 => c.storage = d.mem1 /\ (c.cmd = "cpms" => c.mem1 = d.mem1)
Selected(c) == c.locks1 /\ (c.cmd # "cpms" \/ c.status = "ok")

Selects(d, mem1, c) ==
  /\ Means(d, c) /\ \A n \in DOMAIN d.at : Means(d, d.at[n])
  /\ \A m, n \in DOMAIN d.at :
       d.at[m].locks1 /\ d.at[n].cmd = "cpms" /\ (m <= n \/ d.at[m].cmd # "cpms") => d.at[n].mem1 = d.mem1
  /\ \A n \in DOMAIN d.at : c.locks1 /\ d.at[n].cmd = "cpms" => d.at[n].mem1 = d.mem1
  /\ Selected(c) => mem1 = d.mem1
  /\ \A n \in DOMAIN d.at : Selected(d.at[n]) => mem1 = d.mem1

DaemonOK(d) ==
  /\ DOMAIN d = DaemonFields
  /\ IsSeq(d.at) /\ DOMAIN d.sms = Ids /\ d.used \in Nat /\ d.loading \in Nat
  /\ d.mem1 \in Storages /\ d.mem2 \in Storages /\ d.default \in Storages
  /\ d.held1 \in BOOLEAN /\ d.held2 \in BOOLEAN /\ d.crashed = FALSE /\ d.stray \in BOOLEAN
  /\ d.pdu \in BOOLEAN /\ d.kept \in BOOLEAN /\ (d.kept => d.held1 /\ ~d.pdu)

(* The daemon d with the answer to c in its hands (Command: none), and the    *)
(* modem with mem1.                                                           *)
QueueInv(d, mem1, c) ==
  /\ DaemonOK(d)
  /\ CommandOK(c)
  /\ \A n \in DOMAIN d.at : CommandOK(d.at[n]) /\ Runs(d.at[n]) /\ (n # 1 => d.at[n].status = "sent")
  /\ Writes(d, c) /\ \A n \in DOMAIN d.at : Writes(d, d.at[n])
  /\ Alone(d.at, c, "locks1", Owned(d))
  /\ Alone(d.at, c, "locks2", d.held2)
  /\ Selects(d, mem1, c)

(* The part that was the o-th to arrive, o <= n, is the one of seen[o], and    *)
(* is or was where that says.                                                 *)
Sighted(e, seen, n) ==
  e.part.origin \in 1 .. MaxInputs => e.part.origin <= n /\ seen[e.part.origin] = e

GotInv(at, c, seen, n) ==
  /\ \A e \in c.got : Sighted(e, seen, n)
  /\ \A m \in DOMAIN at : \A e \in at[m].got : Sighted(e, seen, n)

DeviceInv(dev, seen, n) ==
  /\ DOMAIN dev = {"mem1", "mem2", "mem3", "stored"}
  /\ dev.mem1 \in Storages /\ dev.mem2 \in Storages /\ dev.mem3 \in Storages
  /\ dev.stored \in [Storages -> [Slots -> Parts]]
  /\ \A s \in Storages, i \in Slots :
       Sighted([index |-> i, storage |-> s, part |-> dev.stored[s][i]], seen, n)

(* The state of a multipart message that is in the list.                      *)
StateOK(m) ==
  /\ ~m.submit => m.state \in {"receiving", "received"}
  /\ m.state \in {"receiving", "received"} => (m.state = "received" <=> Whole(m))

SmsOK(m) ==
  /\ DOMAIN m = SmsFields
  /\ m.listed \in BOOLEAN /\ m.user \in BOOLEAN /\ m.multi \in BOOLEAN /\ m.submit \in BOOLEAN
  /\ m.storage \in Maybe /\ m.max \in Nat /\ m.ref \in References \union {0}
  /\ IsFiniteSet(DOMAIN m.parts)
  /\ \A k \in DOMAIN m.parts : m.parts[k] \in [index : Slots \union {0}, origin : Nat]
  /\ m.listed /\ m.multi => StateOK(m)
  /\ m.listed /\ ~m.user => m.parts # <<>> /\ m.storage \in Storages
  /\ m.user => m.submit /\ m.state \notin {"receiving", "received"}
  /\ m.user => (m.parts = <<>> /\ ~m.multi) \/ DOMAIN m.parts = 1 .. m.max
  /\ m.user => \A k \in DOMAIN m.parts : m.parts[k].origin > MaxInputs

(* What m knows of its part k, and of a single part where it is, unless it was *)
(* filed elsewhere.                                                           *)
Knows(m, k, stray, seen, n) ==
  m.parts[k].origin \in 1 .. MaxInputs =>
    LET e == seen[m.parts[k].origin] IN
    /\ m.parts[k].origin <= n
    /\ e.part.seq = k
    /\ m.multi <=> e.part.ref # 0
    /\ m.multi => e.part.ref = m.ref /\ e.part.max = m.max
    /\ ~m.multi /\ ~stray /\ m.parts[k].index # 0 => e.storage = m.storage /\ e.index = m.parts[k].index

(* Single parts that arrived: no two are believed to be in one place.         *)
SamePlace(m, k, p, l) ==
  /\ m.storage = p.storage /\ m.parts[k].index = p.parts[l].index /\ m.parts[k].index # 0
  /\ ~m.multi /\ m.parts[k].origin \in 1 .. MaxInputs
  /\ ~p.multi /\ p.parts[l].origin \in 1 .. MaxInputs

(* Multipart messages that are received have different references.            *)
SameReference(m, p) == m.multi /\ ~m.user /\ p.multi /\ ~p.user /\ m.ref = p.ref /\ m.max = p.max

SmsInv(d, stray, seen, n) ==
  /\ \A i \in Ids : SmsOK(d.sms[i]) /\ (d.sms[i].listed => i <= d.used)
  /\ \A i \in Listed(d) : \A k \in DOMAIN d.sms[i].parts : Knows(d.sms[i], k, stray, seen, n)
  /\ \A i, j \in Listed(d) : \A k \in DOMAIN d.sms[i].parts, l \in DOMAIN d.sms[j].parts :
       SamePlace(d.sms[i], k, d.sms[j], l) => i = j /\ k = l
  /\ \A i, j \in Listed(d) : SameReference(d.sms[i], d.sms[j]) => i = j

AllInv(d, dev, c, seen, n) ==
  /\ QueueInv(d, dev.mem1, c) /\ GotInv(d.at, c, seen, n)
  /\ DeviceInv(dev, seen, n) /\ SmsInv(d, d.stray, seen, n)

IInv == inputs \in 0 .. MaxInputs /\ \E seen : AllInv(daemon, device, Command, seen, inputs)

----------------------------------------------------------------------------
(* The queue of commands.                                                   *)
LEMMA CommandIsOK ==
  /\ CommandOK(Command) /\ \A d : Writes(d, Command)
  /\ ~Command.locks1 /\ ~Command.locks2
<1>1. /\ DOMAIN Command = CommandFields /\ Command.locks1 = FALSE /\ Command.locks2 = FALSE
      /\ Command.op = "none" /\ Command.cmd = "none" /\ Command.storage = None /\ Command.got = {}
  BY DEF Command, CommandFields
<1>2. CommandOK(Command)
  BY <1>1, FS_EmptySet DEF CommandOK, Reading, Writing, Reads, Maybe
<1> QED BY <1>1, <1>2 DEF Writes, Writing

LEMMA PopKeeps ==
  ASSUME NEW d, NEW mem1, QueueInv(d, mem1, Command), d.at # <<>>,
         NEW c, c = Head(d.at), NEW w, w = [d EXCEPT !.at = Tail(d.at)]
  PROVE  QueueInv(w, mem1, c) /\ Runs(c)
<1> PICK at : at = d.at OBVIOUS
<1> PICK t : t = Tail(at) OBVIOUS
<1>1. DaemonOK(d) /\ IsSeq(at) BY DEF QueueInv, DaemonOK
<1>2. /\ IsSeq(t) /\ 1 \in DOMAIN at /\ c = at[1]
      /\ \A n \in DOMAIN t : n \in Nat \ {0} /\ n + 1 \in DOMAIN at /\ t[n] = at[n + 1]
  <2>1. at # <<>> /\ c = Head(at) OBVIOUS
  <2> HIDE DEF IsSeq
  <2> QED BY ONLY <1>1, <2>1, t = Tail(at), SeqTail
<1>3. /\ DaemonOK(w) /\ w.at = t /\ w.sms = d.sms /\ w.used = d.used /\ w.mem1 = d.mem1
      /\ w.held1 = d.held1 /\ w.kept = d.kept /\ w.pdu = d.pdu /\ w.held2 = d.held2
  BY <1>1, <1>2 DEF DaemonOK, DaemonFields
<1>4. CommandOK(c) /\ Runs(c) /\ \A n \in DOMAIN t : CommandOK(t[n]) /\ Runs(t[n]) /\ t[n].status = "sent"
  <2>1. \A n \in DOMAIN t : n + 1 # 1 BY <1>2
  <2> QED BY <1>2, <2>1 DEF QueueInv
<1>5. Writes(w, c) /\ \A n \in DOMAIN t : Writes(w, t[n])
  <2>1. \A n \in DOMAIN at : Writes(d, at[n]) BY DEF QueueInv
  <2>2. \A e : Writes(d, e) => Writes(w, e) BY <1>3 DEF Writes
  <2> QED BY <1>2, <2>1, <2>2
<1>6. ASSUME NEW lock, NEW held, Alone(at, Command, lock, held), ~Command[lock], held \in BOOLEAN
      PROVE  Alone(t, c, lock, held)
  <2>1. \A m, n \in DOMAIN t : t[m][lock] /\ t[n][lock] => m = n
    <3> TAKE m \in DOMAIN t, n \in DOMAIN t
    <3> HAVE t[m][lock] /\ t[n][lock]
    <3>1. m + 1 = n + 1 BY <1>2, <1>6 DEF Alone
    <3> QED BY <1>2, <3>1
  <2>2. \A n \in DOMAIN t : ~(t[n][lock] /\ c[lock])
    <3> TAKE n \in DOMAIN t
    <3>1. n + 1 # 1 BY <1>2
    <3> QED BY <1>2, <1>6, <3>1 DEF Alone
  <2>3. held <=> c[lock] \/ \E n \in DOMAIN t : t[n][lock]
    <3>1. ASSUME NEW m \in DOMAIN at, m # 1 PROVE \E n \in DOMAIN t : t[n] = at[m]
      <4>1. PICK S : at \in Seq(S) BY <1>1 DEF DaemonOK, IsSeq
      <4>2. DOMAIN at = 1 .. Len(at) /\ Len(at) \in Nat BY <4>1, LenProperties
      <4>3. DOMAIN t = 1 .. Len(at) - 1 BY <4>1, <4>2, HeadTailProperties, LenProperties
      <4>4. m - 1 \in DOMAIN t /\ (m - 1) + 1 = m BY <3>1, <4>2, <4>3
      <4> QED BY <1>2, <4>4
    <3> QED BY <1>2, <1>6, <3>1 DEF Alone
  <2> QED BY <2>1, <2>2, <2>3 DEF Alone
<1>7. Alone(t, c, "locks1", Owned(d)) /\ Alone(t, c, "locks2", d.held2)
  <2>1. ~Command["locks1"] /\ ~Command["locks2"] BY DEF Command
  <2>2. Owned(d) \in BOOLEAN /\ d.held2 \in BOOLEAN BY <1>1 DEF QueueInv, DaemonOK, Owned
  <2>3. Alone(at, Command, "locks1", Owned(d)) /\ Alone(at, Command, "locks2", d.held2)
    BY <1>1 DEF QueueInv
  <2> QED BY <1>6, <2>1, <2>2, <2>3
<1>8. Selects(w, mem1, c)
  <2>1. /\ \A n \in DOMAIN at : Means(d, at[n]) /\ (Selected(at[n]) => mem1 = d.mem1)
        /\ \A m, n \in DOMAIN at :
             at[m].locks1 /\ at[n].cmd = "cpms" /\ (m <= n \/ at[m].cmd # "cpms") => at[n].mem1 = d.mem1
    BY DEF QueueInv, Selects
  <2>2. Means(w, c) /\ \A n \in DOMAIN w.at : Means(w, w.at[n]) BY <1>2, <1>3, <2>1 DEF Means
  <2>3. \A m, n \in DOMAIN w.at :
          w.at[m].locks1 /\ w.at[n].cmd = "cpms" /\ (m <= n \/ w.at[m].cmd # "cpms") => w.at[n].mem1 = w.mem1
    <3> TAKE m \in DOMAIN w.at, n \in DOMAIN w.at
    <3>1. m \in DOMAIN t /\ n \in DOMAIN t BY <1>3
    <3>2. m \in Nat /\ n \in Nat /\ (m <= n => m + 1 <= n + 1) BY <1>2, <3>1
    <3> QED BY <1>2, <1>3, <2>1, <3>1, <3>2
  <2>4. \A n \in DOMAIN w.at : c.locks1 /\ w.at[n].cmd = "cpms" => w.at[n].mem1 = w.mem1
    <3> TAKE n \in DOMAIN w.at
    <3>1. n \in DOMAIN t BY <1>3
    <3>2. 1 <= n + 1 BY <1>2, <3>1
    <3> QED BY <1>2, <1>3, <2>1, <3>1, <3>2
  <2>5. Selected(c) => mem1 = w.mem1 BY <1>2, <1>3, <2>1
  <2>6. \A n \in DOMAIN w.at : Selected(w.at[n]) => mem1 = w.mem1 BY <1>2, <1>3, <2>1
  <2> QED BY <2>2, <2>3, <2>4, <2>5, <2>6 DEF Selects
<1>9. Owned(w) = Owned(d) /\ w.held2 = d.held2 /\ w.at = t BY <1>3 DEF Owned
<1> QED BY <1>3, <1>4, <1>5, <1>7, <1>8, <1>9 DEF QueueInv

(* The operation goes on with its next command, without a change of its lock. *)
LEMMA SendKeeps ==
  ASSUME NEW d, NEW mem1, NEW c, QueueInv(d, mem1, c),
         NEW e, CommandOK(e), Runs(e), Writes(d, e), e.status = "sent",
         e.locks1 = c.locks1, e.locks2 = c.locks2,
         e.locks1 => e.cmd # "cpms" /\ e.storage = c.storage /\ Selected(c),
         e.cmd = "cpms" => e.mem1 = d.mem1,
         NEW w, w = Send(d, e)
  PROVE  QueueInv(w, mem1, Command)
<1> PICK at : at = d.at OBVIOUS
<1> PICK t : t = Append(at, e) OBVIOUS
<1>1. DaemonOK(d) /\ IsSeq(at) BY DEF QueueInv, DaemonOK
<1>2. PICK z \in Nat \ {0} :
        /\ IsSeq(t) /\ z \in DOMAIN t /\ t[z] = e
        /\ \A n \in DOMAIN t : n \in DOMAIN at \/ n = z
        /\ \A n \in DOMAIN at : n \in DOMAIN t /\ n \in Nat /\ n < z /\ t[n] = at[n]
  <2>1. Adds(at, e, Append(at, e)) BY <1>1, Appended
  <2>2. Adds(at, e, t) BY <2>1
  <2> QED BY <2>2 DEF Adds
<1>3. /\ DaemonOK(w) /\ w.at = t /\ w.sms = d.sms /\ w.used = d.used /\ w.mem1 = d.mem1
      /\ w.held1 = d.held1 /\ w.kept = d.kept /\ w.pdu = d.pdu /\ w.held2 = d.held2
  BY <1>1, <1>2 DEF Send, DaemonOK, DaemonFields
<1>4. z \notin DOMAIN at BY <1>2
<1>5. CommandOK(Command) /\ Writes(w, Command) /\ ~Command.locks1 /\ ~Command.locks2
  BY CommandIsOK
<1>6. \A n \in DOMAIN t : CommandOK(t[n]) /\ Runs(t[n]) /\ (n # 1 => t[n].status = "sent")
  BY <1>2, <1>4 DEF QueueInv
<1>7. \A n \in DOMAIN t : Writes(w, t[n])
  <2>1. Writes(d, e) /\ \A n \in DOMAIN at : Writes(d, at[n]) BY DEF QueueInv
  <2>2. \A x : Writes(d, x) => Writes(w, x) BY <1>3 DEF Writes
  <2> QED BY <1>2, <1>4, <2>1, <2>2
<1>8. ASSUME NEW lock, NEW held, Alone(at, c, lock, held), e[lock] = c[lock], ~Command[lock]
      PROVE  Alone(t, Command, lock, held)
  BY <1>2, <1>4, <1>8 DEF Alone
<1>9. Alone(t, Command, "locks1", Owned(d)) /\ Alone(t, Command, "locks2", d.held2)
  BY <1>5, <1>8 DEF QueueInv
<1>10. Selects(w, mem1, Command)
  <2>1. Selects(d, mem1, c) BY DEF QueueInv
  <2>2. Means(w, Command) /\ (Selected(Command) => mem1 = w.mem1) BY <1>5 DEF Means, Selected
  <2>3. \A n \in DOMAIN w.at : Means(w, w.at[n])
    <3>1. Means(d, c) /\ \A n \in DOMAIN at : Means(d, at[n]) BY <2>1 DEF Selects
    <3>2. Means(d, e) BY <3>1 DEF Means
    <3> QED BY <1>2, <1>3, <1>4, <3>1, <3>2 DEF Means
  <2>4. \A m, n \in DOMAIN w.at :
          w.at[m].locks1 /\ w.at[n].cmd = "cpms" /\ (m <= n \/ w.at[m].cmd # "cpms") => w.at[n].mem1 = w.mem1
    <3> TAKE m \in DOMAIN w.at, n \in DOMAIN w.at
    <3>1. CASE n = z BY <1>2, <1>3, <3>1
    <3>2. CASE m = z /\ n # z BY <1>2, <1>3, <1>4, <2>1, <3>2 DEF Selects
    <3>3. CASE m # z /\ n # z BY <1>2, <1>3, <1>4, <2>1, <3>3 DEF Selects
    <3> QED BY <3>1, <3>2, <3>3
  <2>5. \A n \in DOMAIN w.at : Command.locks1 /\ w.at[n].cmd = "cpms" => w.at[n].mem1 = w.mem1
    BY <1>5
  <2>6. \A n \in DOMAIN w.at : Selected(w.at[n]) => mem1 = w.mem1
    <3>1. Selected(e) => Selected(c) BY DEF Selected
    <3> QED BY <1>2, <1>3, <1>4, <2>1, <3>1 DEF Selects
  <2> QED BY <2>2, <2>3, <2>4, <2>5, <2>6 DEF Selects
<1>11. Owned(w) = Owned(d) /\ w.held2 = d.held2 /\ w.at = t BY <1>3 DEF Owned
<1> QED BY <1>3, <1>5, <1>6, <1>7, <1>9, <1>10, <1>11 DEF QueueInv

(* The lock is given back, or what was locked is not selected.                *)
LEMMA UnlockKeeps ==
  ASSUME NEW d, NEW mem1, NEW c, QueueInv(d, mem1, c),
         NEW w, w = unlock_storages(d, c)
  PROVE  /\ QueueInv(w, mem1, Command)
         /\ w.at = d.at /\ w.sms = d.sms /\ w.used = d.used /\ w.stray = d.stray /\ w.default = d.default
         /\ w.loading = d.loading /\ w.mem1 = d.mem1 /\ w.pdu = d.pdu
<1>1. DaemonOK(d) /\ CommandOK(c) /\ Alone(d.at, c, "locks1", Owned(d)) /\ Alone(d.at, c, "locks2", d.held2)
      /\ Selects(d, mem1, c)
  BY DEF QueueInv
<1>2. (c.locks1 => d.held1 /\ ~d.kept) /\ (c.locks2 => d.held2) BY <1>1 DEF Alone, Owned
<1>3. /\ DOMAIN w = DaemonFields /\ w.at = d.at /\ w.sms = d.sms /\ w.used = d.used /\ w.stray = d.stray
      /\ w.default = d.default /\ w.loading = d.loading /\ w.mem1 = d.mem1 /\ w.mem2 = d.mem2
      /\ w.held1 = (d.held1 /\ ~c.locks1) /\ w.kept = d.kept /\ w.pdu = d.pdu
      /\ w.held2 = (d.held2 /\ ~c.locks2)
      /\ w.crashed = (d.crashed \/ (c.locks1 /\ ~d.held1) \/ (c.locks2 /\ ~d.held2))
  BY <1>1 DEF unlock_storages, DaemonOK, DaemonFields
<1>4. DaemonOK(w) BY <1>1, <1>2, <1>3 DEF DaemonOK
<1>5. Alone(w.at, Command, "locks1", Owned(w)) /\ Alone(w.at, Command, "locks2", w.held2)
  BY <1>1, <1>3, CommandIsOK DEF Alone, Owned
<1>6. Selects(w, mem1, Command)
  BY <1>1, <1>3, CommandIsOK DEF Selects, Means, Selected
<1>7. \A n \in DOMAIN w.at :
        CommandOK(w.at[n]) /\ Runs(w.at[n]) /\ (n # 1 => w.at[n].status = "sent") /\ Writes(w, w.at[n])
  BY <1>3 DEF QueueInv, Writes
<1> QED BY <1>3, <1>4, <1>5, <1>6, <1>7, CommandIsOK DEF QueueInv

LEMMA FailKeeps ==
  ASSUME NEW d, NEW mem1, NEW c, QueueInv(d, mem1, c), c.cmd = "cpms",
         NEW w, w = lock_storages_failed(d, c)
  PROVE  /\ QueueInv(w, mem1, Command)
         /\ w.at = d.at /\ w.sms = d.sms /\ w.used = d.used /\ w.stray = d.stray
<1>1. DaemonOK(d) /\ CommandOK(c) /\ Alone(d.at, c, "locks1", Owned(d)) /\ Alone(d.at, c, "locks2", d.held2)
      /\ Selects(d, mem1, c)
  BY DEF QueueInv
<1>2. /\ DOMAIN w = DaemonFields /\ w.at = d.at /\ w.sms = d.sms /\ w.used = d.used /\ w.stray = d.stray
      /\ w.default = d.default /\ w.loading = d.loading /\ w.crashed = d.crashed
      /\ w.mem1 = IF c.locks1 THEN c.previous1 ELSE d.mem1
      /\ w.mem2 = IF c.locks2 THEN c.previous2 ELSE d.mem2
      /\ w.held1 = (d.held1 /\ ~c.locks1) /\ w.kept = d.kept /\ w.pdu = d.pdu
      /\ w.held2 = (d.held2 /\ ~c.locks2)
  BY <1>1 DEF lock_storages_failed, DaemonOK, DaemonFields
<1>3. DaemonOK(w)
  <2>1. c.locks1 => ~d.kept BY <1>1 DEF Alone, Owned
  <2> QED BY <1>1, <1>2, <2>1 DEF DaemonOK, CommandOK
<1>4. Alone(w.at, Command, "locks1", Owned(w)) /\ Alone(w.at, Command, "locks2", w.held2)
  BY <1>1, <1>2, CommandIsOK DEF Alone, Owned
<1>5. Selects(w, mem1, Command)
  <2>1. CASE c.locks1
    <3>1. \A n \in DOMAIN w.at : ~w.at[n].locks1 BY <1>1, <1>2, <2>1 DEF Alone
    <3> QED BY <3>1, CommandIsOK DEF Selects, Means, Selected
  <2>2. CASE ~c.locks1 BY <1>1, <1>2, <2>2, CommandIsOK DEF Selects, Means, Selected
  <2> QED BY <2>1, <2>2
<1>6. \A n \in DOMAIN w.at :
        CommandOK(w.at[n]) /\ Runs(w.at[n]) /\ (n # 1 => w.at[n].status = "sent") /\ Writes(w, w.at[n])
  BY <1>2 DEF QueueInv, Writes
<1> QED BY <1>2, <1>3, <1>4, <1>5, <1>6, CommandIsOK DEF QueueInv

(* An operation begins with the lock and the selection of its storage.        *)
Starts(d, c, m1, m2) ==
  /\ DOMAIN c = CommandFields /\ c.got = {} /\ c.status = "sent" /\ c.mem3 = None /\ c.storage \in Storages
  /\ \/ c.op \in Reading /\ m1 = c.storage /\ m2 = None /\ (c.op = "delete" => c.sms \in Ids)
     \/ /\ c.op \in Writing /\ m1 = None /\ m2 \in Storages
        /\ c.sms \in Ids /\ c.sms <= d.used
        /\ c.op = "store" => /\ c.seq = 0 /\ d.sms[c.sms].user
                             /\ DOMAIN d.sms[c.sms].parts = 1 .. d.sms[c.sms].max

Grows(at, t) == \E e : e.got = {} /\ t = Append(at, e)

LEMMA LockKeeps ==
  ASSUME NEW d, NEW mem1, QueueInv(d, mem1, Command),
         NEW m1 \in Maybe, NEW m2 \in Maybe, CanLock(d, m1, m2),
         NEW c, Starts(d, c, m1, m2),
         NEW w, w = lock_storages(d, m1, m2, c)
  PROVE  /\ QueueInv(w, mem1, Command)
         /\ w.sms = d.sms /\ w.used = d.used /\ w.stray = d.stray /\ w.default = d.default
         /\ Grows(d.at, w.at)
<1> USE DEF Starts
<1> PICK at : at = d.at OBVIOUS
<1> PICK b1 \in BOOLEAN : b1 <=> m1 # None OBVIOUS
<1> PICK b2 \in BOOLEAN : b2 <=> m2 # None OBVIOUS
<1> PICK n1 : n1 = IF m1 = None THEN d.mem1 ELSE m1 OBVIOUS
<1> PICK n2 : n2 = IF m2 = None THEN d.mem2 ELSE m2 OBVIOUS
<1>1. /\ DaemonOK(d) /\ IsSeq(at) /\ Selects(d, mem1, Command)
      /\ Alone(at, Command, "locks1", Owned(d)) /\ Alone(at, Command, "locks2", d.held2)
  BY DEF QueueInv, DaemonOK
<1>2. PICK e : e = [c EXCEPT !.cmd = "cpms", !.locks1 = (m1 # None), !.locks2 = (m2 # None),
                            !.mem1 = n1, !.mem2 = m2, !.previous1 = d.mem1, !.previous2 = d.mem2]
  OBVIOUS
<1>3. /\ DOMAIN e = CommandFields /\ e.cmd = "cpms" /\ e.locks1 = b1 /\ e.locks2 = b2
      /\ e.mem1 = n1 /\ e.mem2 = m2 /\ e.previous1 = d.mem1 /\ e.previous2 = d.mem2
      /\ e.op = c.op /\ e.storage = c.storage /\ e.mem3 = None /\ e.status = "sent" /\ e.got = {}
      /\ e.sms = c.sms /\ e.seq = c.seq
  BY <1>2 DEF CommandFields, Command
<1>4. PICK t : t = Append(at, e) OBVIOUS
<1>5. /\ DOMAIN w = DaemonFields /\ w.at = t /\ w.sms = d.sms /\ w.used = d.used /\ w.stray = d.stray
      /\ w.default = d.default /\ w.loading = d.loading /\ w.crashed = d.crashed
      /\ w.mem1 = n1 /\ w.mem2 = n2
      /\ w.held1 = (d.held1 \/ b1) /\ w.held2 = (d.held2 \/ b2) /\ w.kept = d.kept /\ w.pdu = d.pdu
  BY <1>1, <1>2, <1>4 DEF lock_storages, Send, DaemonOK, DaemonFields
<1>6. PICK z \in Nat \ {0} :
        /\ IsSeq(t) /\ z \in DOMAIN t /\ t[z] = e
        /\ \A n \in DOMAIN t : n \in DOMAIN at \/ n = z
        /\ \A n \in DOMAIN at : n \in DOMAIN t /\ n \in Nat /\ n < z /\ t[n] = at[n]
  <2>1. Adds(at, e, Append(at, e)) BY <1>1, Appended
  <2>2. Adds(at, e, t) BY <2>1, <1>4
  <2> QED BY <2>2 DEF Adds
<1>7. /\ None \notin Storages /\ None \in Maybe /\ d.mem1 \in Storages /\ d.mem2 \in Storages
      /\ n1 \in Storages /\ n2 \in Storages
      /\ b1 <=> c.op \in Reading
      /\ b2 => c.op \in Writing
      /\ b1 => c.storage = n1
      /\ Reading \intersect Writing = {}
  BY <1>1, MultipartSmsAssumption DEF DaemonOK, Maybe, Reading, Writing
<1>8. DaemonOK(w) BY <1>1, <1>5, <1>6, <1>7 DEF DaemonOK
<1>9. CommandOK(e) /\ Runs(e) /\ Writes(w, e)
  <2>1. CommandOK(e) /\ Runs(e) BY <1>3, <1>7, FS_EmptySet DEF CommandOK, Runs, Reads, Writing, Reading, Maybe
  <2>2. Writes(w, e) BY <1>3, <1>5, <1>7 DEF Writes, Writing
  <2> QED BY <2>1, <2>2
<1>10. \A n \in DOMAIN t : CommandOK(t[n]) /\ Runs(t[n]) /\ (n # 1 => t[n].status = "sent") /\ Writes(w, t[n])
  <2>1. \A n \in DOMAIN at : Writes(d, at[n]) BY DEF QueueInv
  <2>2. \A x : Writes(d, x) => Writes(w, x) BY <1>5 DEF Writes
  <2> QED BY <1>3, <1>6, <1>9, <2>1, <2>2 DEF QueueInv
<1>11. ASSUME NEW lock, NEW held \in BOOLEAN, NEW b \in BOOLEAN, Alone(at, Command, lock, held),
              ~Command[lock], e[lock] = b, ~(held /\ b)
       PROVE  Alone(t, Command, lock, held \/ b)
  BY <1>6, <1>11 DEF Alone
<1>12. Alone(t, Command, "locks1", Owned(w)) /\ Alone(t, Command, "locks2", d.held2 \/ b2)
  <2>1. ~(d.held1 /\ b1) /\ ~(d.held2 /\ b2) BY DEF CanLock
  <2>2. d.held1 \in BOOLEAN /\ d.held2 \in BOOLEAN /\ d.kept \in BOOLEAN /\ (d.kept => d.held1)
    BY <1>1 DEF DaemonOK
  <2>3. PICK o \in BOOLEAN : o <=> Owned(d) OBVIOUS
  <2>4. ~(o /\ b1) /\ Alone(at, Command, "locks1", o) BY <1>1, <2>1, <2>3 DEF Owned, Alone
  <2>5. (o \/ b1) <=> Owned(w) BY <1>5, <2>1, <2>2, <2>3 DEF Owned
  <2>6. Alone(t, Command, "locks1", o \/ b1) /\ Alone(t, Command, "locks2", d.held2 \/ b2)
    BY <1>1, <1>3, <1>11, <2>1, <2>2, <2>4, CommandIsOK
  <2>7. Alone(t, Command, "locks1", Owned(w)) BY <2>5, <2>6 DEF Alone
  <2> QED BY <2>6, <2>7
<1>13. Selects(w, mem1, Command)
  <2>1. CASE b1
    <3>1. \A n \in DOMAIN at : ~at[n].locks1 BY <1>1, <2>1 DEF Alone, CanLock, Owned
    <3>2. ~Selected(e) /\ Means(w, e) BY <1>3, <1>5, <1>7 DEF Selected, Means
    <3>3. \A m, n \in DOMAIN w.at :
            w.at[m].locks1 /\ w.at[n].cmd = "cpms" /\ (m <= n \/ w.at[m].cmd # "cpms") => w.at[n].mem1 = w.mem1
      <4> TAKE m \in DOMAIN w.at, n \in DOMAIN w.at
      <4> HAVE w.at[m].locks1 /\ w.at[n].cmd = "cpms" /\ (m <= n \/ w.at[m].cmd # "cpms")
      <4>1. m = z BY <1>5, <1>6, <3>1
      <4>2. n = z BY <1>3, <1>5, <1>6, <4>1
      <4> QED BY <1>3, <1>5, <1>6, <4>2
    <3> QED BY <1>5, <1>6, <3>1, <3>2, <3>3, CommandIsOK DEF Selects, Means, Selected
  <2>2. CASE ~b1
    <3>1. w.mem1 = d.mem1 /\ ~e.locks1 /\ e.mem1 = d.mem1 BY <1>3, <1>5, <2>2
    <3>2. \A m, n \in DOMAIN w.at :
            w.at[m].locks1 /\ w.at[n].cmd = "cpms" /\ (m <= n \/ w.at[m].cmd # "cpms") => w.at[n].mem1 = w.mem1
      BY <1>1, <1>5, <1>6, <3>1 DEF Selects
    <3>3. \A n \in DOMAIN w.at : Means(w, w.at[n]) /\ (Selected(w.at[n]) => mem1 = w.mem1)
      BY <1>1, <1>5, <1>6, <3>1 DEF Selects, Means, Selected
    <3> QED BY <3>2, <3>3, CommandIsOK DEF Selects, Means, Selected
  <2> QED BY <2>1, <2>2
<1>14. QueueInv(w, mem1, Command)
  BY <1>5, <1>8, <1>10, <1>12, <1>13, CommandIsOK DEF QueueInv
<1>15. Grows(at, t) BY <1>3, <1>4 DEF Grows
<1> QED BY <1>5, <1>14, <1>15

----------------------------------------------------------------------------
(* The list of messages.  w is d with other messages: what users wrote stays, *)
(* and stays in as many parts.                                                *)
Files(d, w) ==
  /\ DOMAIN w = DaemonFields /\ DOMAIN w.sms = Ids
  /\ w.used \in Nat /\ d.used <= w.used
  /\ w.at = d.at /\ w.mem1 = d.mem1 /\ w.mem2 = d.mem2 /\ w.held1 = d.held1 /\ w.kept = d.kept /\ w.pdu = d.pdu /\ w.held2 = d.held2
  /\ w.default = d.default /\ w.loading = d.loading /\ w.stray = d.stray /\ w.crashed = d.crashed
  /\ \A i \in Ids : i <= d.used /\ d.sms[i].user =>
       /\ w.sms[i].user /\ w.sms[i].max = d.sms[i].max
       /\ DOMAIN d.sms[i].parts = 1 .. d.sms[i].max => DOMAIN w.sms[i].parts = 1 .. d.sms[i].max

LEMMA FilesReflexive ==
  ASSUME NEW d, DaemonOK(d)
  PROVE  Files(d, d)
BY DEF DaemonOK, Files

LEMMA FilesTransitive ==
  ASSUME NEW d, DaemonOK(d), NEW v, NEW w, Files(d, v), Files(v, w)
  PROVE  Files(d, w)
<1>1. d.used \in Nat /\ v.used \in Nat /\ w.used \in Nat BY DEF DaemonOK, Files
<1>2. d.used <= w.used BY <1>1 DEF Files
<1>3. \A i \in Ids : i <= d.used /\ d.sms[i].user =>
        /\ w.sms[i].user /\ w.sms[i].max = d.sms[i].max
        /\ DOMAIN d.sms[i].parts = 1 .. d.sms[i].max => DOMAIN w.sms[i].parts = 1 .. d.sms[i].max
  <2> TAKE i \in Ids
  <2> HAVE i <= d.used /\ d.sms[i].user
  <2>1. i <= v.used
    <3>1. i \in Nat BY MultipartSmsAssumption DEF Ids
    <3>2. d.used <= v.used BY DEF Files
    <3> QED BY <1>1, <3>1, <3>2
  <2> QED BY <2>1 DEF Files
<1> QED BY <1>1, <1>2, <1>3 DEF Files

LEMMA FilesKeeps ==
  ASSUME NEW d, NEW mem1, NEW c, QueueInv(d, mem1, c), NEW w, Files(d, w)
  PROVE  QueueInv(w, mem1, c)
<1>1. DaemonOK(w) BY DEF QueueInv, DaemonOK, Files
<1>2. \A x : Writes(d, x) => Writes(w, x)
  <2> TAKE x
  <2> HAVE Writes(d, x)
  <2>1. d.used \in Nat /\ w.used \in Nat /\ d.used <= w.used BY DEF QueueInv, DaemonOK, Files
  <2>2. \A i \in Ids : i <= d.used => i <= w.used
    <3>1. Ids \subseteq Nat BY MultipartSmsAssumption DEF Ids
    <3> QED BY <2>1, <3>1
  <2>3. x.op \in Writing => x.sms \in Ids /\ x.sms <= d.used /\ x.sms <= w.used BY <2>2 DEF Writes
  <2>4. ASSUME x.op = "store"
        PROVE  /\ w.sms[x.sms].user /\ w.sms[x.sms].max = d.sms[x.sms].max
               /\ DOMAIN w.sms[x.sms].parts = 1 .. w.sms[x.sms].max
    <3>1. /\ x.sms \in Ids /\ x.sms <= d.used /\ d.sms[x.sms].user
          /\ DOMAIN d.sms[x.sms].parts = 1 .. d.sms[x.sms].max
      BY <2>4 DEF Writes, Writing
    <3> QED BY <3>1 DEF Files
  <2> QED BY <2>3, <2>4 DEF Writes
<1>3. w.at = d.at /\ w.mem1 = d.mem1 /\ w.held1 = d.held1 /\ w.kept = d.kept /\ w.pdu = d.pdu /\ w.held2 = d.held2 BY DEF Files
<1>4. Selects(w, mem1, c) BY <1>3 DEF QueueInv, Selects, Means
<1>5. Owned(w) = Owned(d) BY <1>3 DEF Owned
<1> QED BY <1>1, <1>2, <1>3, <1>4, <1>5 DEF QueueInv

(* What is neither a message nor about the lock of mem1 may change.           *)
LEMMA FieldKeeps ==
  ASSUME NEW d, NEW mem1, NEW c, QueueInv(d, mem1, c),
         NEW w, DOMAIN w = DaemonFields,
         w.sms = d.sms /\ w.used = d.used /\ w.at = d.at /\ w.mem1 = d.mem1
         /\ w.held1 = d.held1 /\ w.kept = d.kept /\ w.pdu = d.pdu /\ w.held2 = d.held2 /\ w.crashed = d.crashed,
         w.mem2 \in Storages /\ w.default \in Storages /\ w.loading \in Nat /\ w.stray \in BOOLEAN
  PROVE  QueueInv(w, mem1, c)
<1>1. DaemonOK(w) BY DEF QueueInv, DaemonOK
<1>2. \A x : Writes(d, x) => Writes(w, x) BY DEF Writes
<1>3. Selects(w, mem1, c) BY DEF QueueInv, Selects, Means
<1>4. Owned(w) = Owned(d) BY DEF Owned
<1> QED BY <1>1, <1>2, <1>3, <1>4 DEF QueueInv

(* A message changes, without a part that it did not have.                    *)
Changes(old, m) ==
  /\ m.user = old.user /\ m.max = old.max /\ (m.listed => old.listed)
  /\ \/ m.user /\ (DOMAIN old.parts = 1 .. old.max => DOMAIN m.parts = DOMAIN old.parts)
     \/ /\ m.storage = old.storage /\ m.multi = old.multi /\ m.ref = old.ref
        /\ DOMAIN m.parts = DOMAIN old.parts
        /\ \A k \in DOMAIN m.parts : /\ m.parts[k].origin = old.parts[k].origin
                                     /\ m.parts[k].index \in {0, old.parts[k].index}

LEMMA NotArrived ==
  ASSUME NEW m, SmsOK(m), m.user, NEW k \in DOMAIN m.parts
  PROVE  m.parts[k].origin \notin 1 .. MaxInputs
<1>1. m.parts[k].origin > MaxInputs /\ m.parts[k].origin \in Nat BY DEF SmsOK
<1> QED BY <1>1, MultipartSmsAssumption

LEMMA ChangedSms ==
  ASSUME NEW d, NEW w, NEW stray, NEW seen, NEW n, SmsInv(d, stray, seen, n),
         w.used = d.used, NEW i \in Ids, SmsOK(w.sms[i]), Changes(d.sms[i], w.sms[i]),
         \A j \in Ids : j # i => w.sms[j] = d.sms[j]
  PROVE  SmsInv(w, stray, seen, n)
<1>1. \A j \in Ids : SmsOK(w.sms[j]) /\ (w.sms[j].listed => j <= w.used)
  <2> TAKE j \in Ids
  <2>1. CASE j = i BY <2>1 DEF SmsInv, Changes
  <2>2. CASE j # i BY <2>2 DEF SmsInv
  <2> QED BY <2>1, <2>2
<1>2. \A j \in Listed(w) : j \in Ids /\ j \in Listed(d) BY DEF Listed, Changes
<1>3. \A j \in Ids : Changes(d.sms[j], w.sms[j]) BY DEF Changes
<1>4. ASSUME NEW j \in Ids, NEW k \in DOMAIN w.sms[j].parts, w.sms[j].parts[k].origin \in 1 .. MaxInputs
      PROVE  /\ k \in DOMAIN d.sms[j].parts
             /\ w.sms[j].parts[k].origin = d.sms[j].parts[k].origin
             /\ w.sms[j].parts[k].index \in {0, d.sms[j].parts[k].index}
             /\ w.sms[j].storage = d.sms[j].storage /\ w.sms[j].multi = d.sms[j].multi
             /\ w.sms[j].ref = d.sms[j].ref /\ w.sms[j].max = d.sms[j].max
  <2>1. ~w.sms[j].user BY <1>1, <1>4, NotArrived
  <2> QED BY <1>3, <2>1 DEF Changes
<1>5. \A j \in Listed(w) : \A k \in DOMAIN w.sms[j].parts : Knows(w.sms[j], k, stray, seen, n)
  <2> SUFFICES ASSUME NEW j \in Listed(w), NEW k \in DOMAIN w.sms[j].parts,
                      w.sms[j].parts[k].origin \in 1 .. MaxInputs
               PROVE  Knows(w.sms[j], k, stray, seen, n)
    BY DEF Knows
  <2>1. j \in Ids /\ j \in Listed(d) BY <1>2
  <2>2. k \in DOMAIN d.sms[j].parts BY <1>4, <2>1
  <2>3. Knows(d.sms[j], k, stray, seen, n) BY <2>1, <2>2 DEF SmsInv
  <2> QED BY <1>4, <2>1, <2>3 DEF Knows
<1>6. \A j, g \in Listed(w) : \A k \in DOMAIN w.sms[j].parts, l \in DOMAIN w.sms[g].parts :
        SamePlace(w.sms[j], k, w.sms[g], l) => j = g /\ k = l
  <2> TAKE j \in Listed(w), g \in Listed(w)
  <2> TAKE k \in DOMAIN w.sms[j].parts, l \in DOMAIN w.sms[g].parts
  <2> HAVE SamePlace(w.sms[j], k, w.sms[g], l)
  <2>1. /\ j \in Ids /\ j \in Listed(d) /\ g \in Ids /\ g \in Listed(d)
        /\ w.sms[j].parts[k].origin \in 1 .. MaxInputs /\ w.sms[g].parts[l].origin \in 1 .. MaxInputs
        /\ w.sms[j].parts[k].index # 0 /\ w.sms[g].parts[l].index # 0
    BY <1>2 DEF SamePlace
  <2>2. k \in DOMAIN d.sms[j].parts /\ l \in DOMAIN d.sms[g].parts BY <1>4, <2>1
  <2>3. SamePlace(d.sms[j], k, d.sms[g], l)
    <3>1. /\ w.sms[j].parts[k].index = d.sms[j].parts[k].index
          /\ w.sms[g].parts[l].index = d.sms[g].parts[l].index
      BY <1>4, <2>1
    <3>2. /\ w.sms[j].parts[k].origin = d.sms[j].parts[k].origin
          /\ w.sms[j].storage = d.sms[j].storage /\ w.sms[j].multi = d.sms[j].multi
      BY <1>4, <2>1
    <3>3. /\ w.sms[g].parts[l].origin = d.sms[g].parts[l].origin
          /\ w.sms[g].storage = d.sms[g].storage /\ w.sms[g].multi = d.sms[g].multi
      BY <1>4, <2>1
    <3> QED BY <3>1, <3>2, <3>3 DEF SamePlace
  <2> QED BY <2>1, <2>2, <2>3 DEF SmsInv
<1>7. \A j, g \in Listed(w) : SameReference(w.sms[j], w.sms[g]) => j = g
  <2> TAKE j \in Listed(w), g \in Listed(w)
  <2> HAVE SameReference(w.sms[j], w.sms[g])
  <2>1. j \in Ids /\ j \in Listed(d) /\ g \in Ids /\ g \in Listed(d) BY <1>2
  <2>2. SameReference(d.sms[j], d.sms[g])
    <3>1. Changes(d.sms[j], w.sms[j]) /\ Changes(d.sms[g], w.sms[g]) BY <1>3, <2>1
    <3> QED BY <3>1 DEF SameReference, Changes
  <2> QED BY <2>1, <2>2 DEF SmsInv
<1> QED BY <1>1, <1>5, <1>6, <1>7 DEF SmsInv

LEMMA ChangeSms ==
  ASSUME NEW d, DaemonOK(d), NEW stray, NEW seen, NEW n, SmsInv(d, stray, seen, n),
         NEW i \in Ids, NEW m, SmsOK(m), Changes(d.sms[i], m),
         NEW w, w = [d EXCEPT !.sms[i] = m]
  PROVE  SmsInv(w, stray, seen, n) /\ Files(d, w)
<1>1. /\ DOMAIN w = DaemonFields /\ w.sms = [d.sms EXCEPT ![i] = m] /\ w.used = d.used /\ w.at = d.at
      /\ w.mem1 = d.mem1 /\ w.mem2 = d.mem2 /\ w.held1 = d.held1 /\ w.kept = d.kept /\ w.pdu = d.pdu /\ w.held2 = d.held2
      /\ w.default = d.default /\ w.loading = d.loading /\ w.stray = d.stray /\ w.crashed = d.crashed
  BY DEF DaemonOK, DaemonFields
<1>2. /\ DOMAIN w.sms = Ids /\ w.sms[i] = m /\ d.used \in Nat
      /\ \A j \in Ids : j # i => w.sms[j] = d.sms[j]
  BY <1>1 DEF DaemonOK
<1>3. \A j \in Ids : d.sms[j].user =>
        /\ w.sms[j].user /\ w.sms[j].max = d.sms[j].max
        /\ DOMAIN d.sms[j].parts = 1 .. d.sms[j].max => DOMAIN w.sms[j].parts = 1 .. d.sms[j].max
  <2> TAKE j \in Ids
  <2> HAVE d.sms[j].user
  <2>1. CASE j # i BY <1>2, <2>1
  <2>2. CASE j = i
    <3>1. Changes(d.sms[j], w.sms[j]) BY <1>2, <2>2
    <3> QED BY ONLY d.sms[j].user, <3>1 DEF Changes
  <2> QED BY <2>1, <2>2
<1>4. Files(d, w)
  <2>1. d.used <= w.used BY <1>1, <1>2
  <2>2. /\ w.used \in Nat /\ DOMAIN w.sms = Ids BY <1>1, <1>2
  <2> QED BY ONLY <1>1, <1>3, <2>1, <2>2 DEF Files
<1>5. SmsInv(w, stray, seen, n)
  <2>1. w.used = d.used /\ SmsOK(w.sms[i]) /\ Changes(d.sms[i], w.sms[i]) BY <1>1, <1>2
  <2>2. \A j \in Ids : j # i => w.sms[j] = d.sms[j] BY <1>2
  <2>3. SmsInv(d, stray, seen, n) /\ i \in Ids OBVIOUS
  <2> QED BY ONLY <2>1, <2>2, <2>3, ChangedSms
<1> QED BY <1>4, <1>5

(* A message is added.                                                        *)
LEMMA AddedSms ==
  ASSUME NEW d, DaemonOK(d), NEW w, NEW stray, NEW seen, NEW n, SmsInv(d, stray, seen, n),
         NEW g, g = d.used + 1, w.used = g, NEW m, SmsOK(m), m.listed,
         g \in Ids => w.sms[g] = m, \A j \in Ids : j # g => w.sms[j] = d.sms[j],
         \A k \in DOMAIN m.parts : Knows(m, k, stray, seen, n),
         \A k, l \in DOMAIN m.parts : SamePlace(m, k, m, l) => k = l,
         \A j \in Listed(d) : \A k \in DOMAIN m.parts, l \in DOMAIN d.sms[j].parts : ~SamePlace(m, k, d.sms[j], l),
         \A j \in Listed(d) : ~SameReference(m, d.sms[j])
  PROVE  SmsInv(w, stray, seen, n)
<1>1. /\ d.used \in Nat /\ g \in Nat /\ d.used < g /\ Ids \subseteq Nat
      /\ \A j \in Ids : j <= d.used => j <= g
  BY MultipartSmsAssumption DEF DaemonOK, Ids
<1>2. g \notin Listed(d) BY <1>1 DEF Listed, SmsInv
<1>3. \A j \in Listed(w) : j \in Ids /\ (j # g => j \in Listed(d)) BY DEF Listed
<1>4. \A j \in Ids : SmsOK(w.sms[j]) /\ (w.sms[j].listed => j <= w.used)
  <2> TAKE j \in Ids
  <2>1. CASE j = g BY <1>1, <2>1
  <2>2. CASE j # g BY <1>1, <2>2 DEF SmsInv
  <2> QED BY <2>1, <2>2
<1>5. \A j \in Listed(w) : \A k \in DOMAIN w.sms[j].parts : Knows(w.sms[j], k, stray, seen, n)
  <2> TAKE j \in Listed(w)
  <2>1. CASE j = g BY <1>3, <2>1
  <2>2. CASE j # g BY <1>3, <2>2 DEF SmsInv
  <2> QED BY <2>1, <2>2
<1>6. \A j, h \in Listed(w) : \A k \in DOMAIN w.sms[j].parts, l \in DOMAIN w.sms[h].parts :
        SamePlace(w.sms[j], k, w.sms[h], l) => j = h /\ k = l
  <2> TAKE j \in Listed(w), h \in Listed(w)
  <2> TAKE k \in DOMAIN w.sms[j].parts, l \in DOMAIN w.sms[h].parts
  <2> HAVE SamePlace(w.sms[j], k, w.sms[h], l)
  <2>1. CASE j = g /\ h = g BY <1>3, <2>1
  <2>2. CASE j = g /\ h # g BY <1>3, <2>2
  <2>3. CASE j # g /\ h = g
    <3>1. SamePlace(w.sms[h], l, w.sms[j], k) BY DEF SamePlace
    <3> QED BY <1>3, <2>3, <3>1
  <2>4. CASE j # g /\ h # g BY <1>3, <2>4 DEF SmsInv
  <2> QED BY <2>1, <2>2, <2>3, <2>4
<1>7. \A j, h \in Listed(w) : SameReference(w.sms[j], w.sms[h]) => j = h
  <2> TAKE j \in Listed(w), h \in Listed(w)
  <2> HAVE SameReference(w.sms[j], w.sms[h])
  <2>1. CASE j = g /\ h # g BY <1>3, <2>1
  <2>2. CASE j # g /\ h = g
    <3>1. SameReference(w.sms[h], w.sms[j]) BY DEF SameReference
    <3> QED BY <1>3, <2>2, <3>1
  <2>3. CASE j # g /\ h # g BY <1>3, <2>3 DEF SmsInv
  <2> QED BY <2>1, <2>2, <2>3
<1> QED BY <1>4, <1>5, <1>6, <1>7 DEF SmsInv

LEMMA AddKeeps ==
  ASSUME NEW d, DaemonOK(d), NEW stray, NEW seen, NEW n, SmsInv(d, stray, seen, n),
         NEW x, NEW m, m = [x EXCEPT !.listed = TRUE], SmsOK(m), m.listed,
         \A k \in DOMAIN m.parts : Knows(m, k, stray, seen, n),
         \A k, l \in DOMAIN m.parts : SamePlace(m, k, m, l) => k = l,
         \A j \in Listed(d) : \A k \in DOMAIN m.parts, l \in DOMAIN d.sms[j].parts : ~SamePlace(m, k, d.sms[j], l),
         \A j \in Listed(d) : ~SameReference(m, d.sms[j]),
         NEW w, w = AddSms(d, x)
  PROVE  SmsInv(w, stray, seen, n) /\ Files(d, w)
<1> PICK g : g = d.used + 1 OBVIOUS
<1>1. /\ DOMAIN w = DaemonFields /\ w.sms = [d.sms EXCEPT ![g] = m] /\ w.used = g /\ w.at = d.at
      /\ w.mem1 = d.mem1 /\ w.mem2 = d.mem2 /\ w.held1 = d.held1 /\ w.kept = d.kept /\ w.pdu = d.pdu /\ w.held2 = d.held2
      /\ w.default = d.default /\ w.loading = d.loading /\ w.stray = d.stray /\ w.crashed = d.crashed
  BY DEF AddSms, DaemonOK, DaemonFields
<1>2. /\ DOMAIN w.sms = Ids /\ (g \in Ids => w.sms[g] = m)
      /\ \A j \in Ids : j # g => w.sms[j] = d.sms[j]
  BY <1>1 DEF DaemonOK
<1>3. d.used \in Nat /\ g \in Nat /\ d.used <= g /\ \A j \in Ids : j <= d.used => j # g
  BY MultipartSmsAssumption DEF DaemonOK, Ids
<1>4. Files(d, w)
  <2>1. \A j \in Ids : j <= d.used => w.sms[j] = d.sms[j] BY <1>2, <1>3
  <2> QED BY ONLY <1>1, <1>2, <1>3, <2>1 DEF Files
<1>5. SmsInv(w, stray, seen, n)
  <2>1. g = d.used + 1 /\ w.used = g BY <1>1
  <2> QED BY ONLY <2>1, <1>2, AddedSms, DaemonOK(d), SmsInv(d, stray, seen, n), SmsOK(m), m.listed,
       \A k \in DOMAIN m.parts : Knows(m, k, stray, seen, n),
       \A k, l \in DOMAIN m.parts : SamePlace(m, k, m, l) => k = l,
       \A j \in Listed(d) : \A k \in DOMAIN m.parts, l \in DOMAIN d.sms[j].parts : ~SamePlace(m, k, d.sms[j], l),
       \A j \in Listed(d) : ~SameReference(m, d.sms[j])
<1> QED BY <1>4, <1>5

(* A multipart message takes a part.                                          *)
LEMMA TookSms ==
  ASSUME NEW d, NEW w, NEW stray, NEW seen, NEW n, SmsInv(d, stray, seen, n),
         w.used = d.used, NEW i \in Listed(d), NEW m, SmsOK(m), w.sms[i] = m,
         \A j \in Ids : j # i => w.sms[j] = d.sms[j],
         m.multi /\ d.sms[i].multi /\ ~m.user /\ ~d.sms[i].user,
         m.ref = d.sms[i].ref /\ m.max = d.sms[i].max /\ m.listed = d.sms[i].listed,
         \A k \in DOMAIN m.parts : Knows(m, k, stray, seen, n)
  PROVE  SmsInv(w, stray, seen, n)
<1>1. i \in Ids /\ \A j \in Listed(w) : j \in Ids /\ j \in Listed(d) BY DEF Listed
<1>2. \A j \in Ids : SmsOK(w.sms[j]) /\ (w.sms[j].listed => j <= w.used)
  <2> TAKE j \in Ids
  <2>1. CASE j = i BY <2>1 DEF SmsInv
  <2>2. CASE j # i BY <2>2 DEF SmsInv
  <2> QED BY <2>1, <2>2
<1>3. \A j \in Listed(w) : \A k \in DOMAIN w.sms[j].parts : Knows(w.sms[j], k, stray, seen, n)
  <2> TAKE j \in Listed(w)
  <2>1. CASE j = i BY <2>1
  <2>2. CASE j # i BY <1>1, <2>2 DEF SmsInv
  <2> QED BY <2>1, <2>2
<1>4. \A j, h \in Listed(w) : \A k \in DOMAIN w.sms[j].parts, l \in DOMAIN w.sms[h].parts :
        SamePlace(w.sms[j], k, w.sms[h], l) => j = h /\ k = l
  <2> TAKE j \in Listed(w), h \in Listed(w)
  <2> TAKE k \in DOMAIN w.sms[j].parts, l \in DOMAIN w.sms[h].parts
  <2> HAVE SamePlace(w.sms[j], k, w.sms[h], l)
  <2>1. j # i /\ h # i BY DEF SamePlace
  <2> QED BY <1>1, <2>1 DEF SmsInv
<1>5. \A j, h \in Listed(w) : SameReference(w.sms[j], w.sms[h]) => j = h
  <2> TAKE j \in Listed(w), h \in Listed(w)
  <2> HAVE SameReference(w.sms[j], w.sms[h])
  <2>1. SameReference(d.sms[j], d.sms[h]) BY <1>1 DEF SameReference
  <2> QED BY <1>1, <2>1 DEF SmsInv
<1> QED BY <1>2, <1>3, <1>4, <1>5 DEF SmsInv

LEMMA Numbered ==
  ASSUME NEW q \in Nat
  PROVE  Cardinality(1 .. q) = q
<1>1. 1 \in Int /\ q \in Int OBVIOUS
<1>2. Cardinality(1 .. q) = IF 1 > q THEN 0 ELSE q - 1 + 1 BY ONLY <1>1, FS_Interval
<1> QED BY <1>2

(* mm_base_sms_multipart_take_part: the message is received with the last     *)
(* part that it misses.                                                       *)
Open(m) ==
  /\ DOMAIN m = SmsFields /\ m.multi = TRUE /\ m.user = FALSE /\ m.listed \in BOOLEAN /\ m.submit \in BOOLEAN
  /\ m.storage \in Storages /\ m.max \in Nat /\ m.ref \in References \union {0} /\ IsFiniteSet(DOMAIN m.parts)
  /\ \A k \in DOMAIN m.parts : m.parts[k] \in [index : Slots \union {0}, origin : Nat]
  /\ ~m.submit => m.state \in {"receiving", "received"}
  /\ m.state = "received" => Whole(m)

Took(m, part, index, x) ==
  /\ SmsOK(x) /\ x.multi = TRUE /\ x.user = FALSE /\ x.listed = m.listed /\ x.storage = m.storage
  /\ x.max = m.max /\ x.ref = m.ref /\ part.seq \notin DOMAIN m.parts
  /\ DOMAIN x.parts = DOMAIN m.parts \union {part.seq}
  /\ x.parts[part.seq] = [index |-> index, origin |-> part.origin]
  /\ \A k \in DOMAIN m.parts : x.parts[k] = m.parts[k]
  /\ StateOK(x)

LEMMA TakeOK ==
  ASSUME NEW m, Open(m), NEW part \in Parts, NEW index \in Slots, TakesPart(m, part)
  PROVE  Took(m, part, index, multipart_take_part(m, part, index))
<1> PICK x : x = multipart_take_part(m, part, index) OBVIOUS
<1> USE DEF Open
<1> PICK P : P = [k \in DOMAIN m.parts \union {part.seq} |->
                   IF k = part.seq THEN [index |-> index, origin |-> part.origin] ELSE m.parts[k]]
  OBVIOUS
<1> PICK v : v = [m EXCEPT !.parts = P] OBVIOUS
<1>1. part.seq \in Nat /\ part.origin \in Nat /\ part.seq \notin DOMAIN m.parts
      /\ Cardinality(DOMAIN m.parts) < m.max
  BY DEF Parts, TakesPart
<1>2. /\ DOMAIN P = DOMAIN m.parts \union {part.seq}
      /\ P[part.seq] = [index |-> index, origin |-> part.origin]
      /\ \A k \in DOMAIN m.parts : P[k] = m.parts[k]
  BY <1>1
<1>3. /\ DOMAIN v = SmsFields /\ v.parts = P /\ v.state = m.state /\ v.multi = TRUE /\ v.user = FALSE
      /\ v.submit = m.submit
      /\ v.listed = m.listed /\ v.storage = m.storage /\ v.max = m.max /\ v.ref = m.ref
  BY DEF SmsFields, NewSms
<1>4. v = WithPart(m, part, index) BY DEF WithPart
<1>5. /\ IsFiniteSet(DOMAIN P) /\ Cardinality(DOMAIN P) = Cardinality(DOMAIN m.parts) + 1
      /\ Cardinality(DOMAIN m.parts) \in Nat
  BY <1>1, <1>2, FS_AddElement, FS_CardinalityType
<1>6. PICK full \in BOOLEAN : full <=> Cardinality(DOMAIN P) = m.max /\ Assembles(v) OBVIOUS
<1>7. /\ DOMAIN x = SmsFields /\ x.parts = P /\ x.multi = TRUE /\ x.user = FALSE /\ x.submit = m.submit
      /\ x.listed = m.listed /\ x.storage = m.storage /\ x.max = m.max /\ x.ref = m.ref
      /\ x.state = IF full /\ m.state = "receiving" THEN "received" ELSE m.state
  <2>1. x = IF Cardinality(DOMAIN v.parts) = m.max /\ Assembles(v) /\ m.state = "receiving"
            THEN [v EXCEPT !.state = "received"] ELSE v
    BY <1>4, Zenon DEF multipart_take_part
  <2>2. CASE full /\ m.state = "receiving"
    <3>1. x = [v EXCEPT !.state = "received"] BY <1>3, <1>6, <2>1, <2>2
    <3> QED BY <1>3, <2>2, <3>1 DEF SmsFields, NewSms
  <2>3. CASE ~(full /\ m.state = "receiving")
    <3>1. x = v BY <1>3, <1>6, <2>1, <2>3
    <3> QED BY <1>3, <2>3, <3>1
  <2> QED BY <2>2, <2>3
<1>8. ASSUME NEW S, IsFiniteSet(S), \A k \in 1 .. m.max : k \in S PROVE m.max <= Cardinality(S)
  <2>1. 1 .. m.max \in SUBSET S BY <1>8
  <2>2. Cardinality(1 .. m.max) <= Cardinality(S) BY <1>8, <2>1, FS_Subset
  <2>3. Cardinality(1 .. m.max) = m.max BY Numbered
  <2> QED BY <2>2, <2>3
<1>9. m.state # "received"
  <2> SUFFICES ASSUME Whole(m) PROVE FALSE OBVIOUS
  <2>1. CASE m.max = 1
    <3>1. Cardinality(DOMAIN m.parts) = 0 BY <1>1, <1>5, <2>1
    <3>2. DOMAIN m.parts = {} BY <3>1, FS_EmptySet
    <3> QED BY <2>1, <3>2 DEF Whole
  <2>2. CASE m.max # 1
    <3>1. m.max <= Cardinality(DOMAIN m.parts) BY <1>8, <2>2 DEF Whole
    <3> QED BY <1>1, <1>5, <3>1
  <2> QED BY <2>1, <2>2
<1>10. full <=> Whole(x)
  <2>1. Cardinality(DOMAIN P) <= m.max /\ Cardinality(DOMAIN P) >= 1 BY <1>1, <1>5
  <2>2. CASE m.max = 1
    <3>1. Cardinality(DOMAIN P) = m.max BY <1>5, <2>1, <2>2
    <3>2. DOMAIN P # {} BY <1>2
    <3> QED BY <1>3, <1>6, <1>7, <2>2, <3>1, <3>2 DEF Whole, Assembles
  <2>3. CASE m.max # 1
    <3>1. Assembles(v) <=> \A k \in 1 .. m.max : k \in DOMAIN P BY <1>3, <2>3 DEF Assembles
    <3>2. Whole(x) <=> \A k \in 1 .. m.max : k \in DOMAIN P BY <1>7, <2>3 DEF Whole
    <3>3. Whole(x) => m.max <= Cardinality(DOMAIN P) BY <1>5, <1>8, <3>2
    <3>4. Whole(x) => Cardinality(DOMAIN P) = m.max BY <1>5, <2>1, <3>3
    <3> QED BY <1>6, <3>1, <3>2, <3>4
  <2> QED BY <2>2, <2>3
<1>11. \A k \in DOMAIN P : P[k] \in [index : Slots \union {0}, origin : Nat]
  <2> TAKE k \in DOMAIN P
  <2>1. CASE k = part.seq BY <1>1, <1>2, <2>1
  <2>2. CASE k # part.seq BY <1>2, <2>2
  <2> QED BY <2>1, <2>2
<1>12. StateOK(x) BY <1>7, <1>9, <1>10 DEF StateOK
<1>13. SmsOK(x)
  <2>1. x.parts # <<>> BY <1>2, <1>7
  <2> QED BY <1>5, <1>7, <1>11, <1>12, <2>1 DEF SmsOK, Maybe
<1>14. Took(m, part, index, x) BY <1>1, <1>2, <1>7, <1>12, <1>13 DEF Took
<1> QED BY <1>14

(* The part is the one of seen, from where it is filed.                       *)
Lies(part, index, storage, stray, seen, n) ==
  part.origin \in 1 .. MaxInputs =>
    /\ part.origin <= n /\ seen[part.origin].part = part
    /\ ~stray => seen[part.origin].storage = storage /\ seen[part.origin].index = index

LEMMA TakeSingle ==
  ASSUME NEW d, DaemonOK(d), NEW stray, NEW seen, NEW n, SmsInv(d, stray, seen, n),
         NEW part \in Parts, NEW index \in Slots, NEW storage \in Storages,
         ~has_part(d, storage, index), Lies(part, index, storage, stray, seen, n), part.ref = 0,
         NEW state, state \in {part.state, "received"},
         NEW w, w = take_new_part(d, part, index, storage, state)
  PROVE  SmsInv(w, stray, seen, n) /\ Files(d, w)
<1> PICK new : new = [NewSms EXCEPT !.state = IF part.ref # 0 /\ state = "received" THEN "receiving" ELSE state,
                                    !.submit = part.state # "received", !.storage = storage,
                                    !.max = part.max, !.multi = part.ref # 0, !.ref = part.ref] OBVIOUS
<1> PICK x : x = WithPart(new, part, index) OBVIOUS
<1> PICK m : m = [x EXCEPT !.listed = TRUE] OBVIOUS
<1>1. w = AddSms(d, x) BY DEF take_new_part
<1>2. /\ part.seq \in Nat /\ part.origin \in Nat /\ part.max \in Nat
      /\ part.ref \in References \union {0}
  BY DEF Parts
<1>3. /\ DOMAIN new = SmsFields /\ new.storage = storage /\ new.max = part.max /\ new.multi = FALSE
      /\ new.user = FALSE /\ new.parts = <<>> /\ new.ref = part.ref /\ new.submit \in BOOLEAN
  <2>1. PICK b \in BOOLEAN : b = (part.state # "received") OBVIOUS
  <2>2. new = [NewSms EXCEPT !.state = state, !.submit = b, !.storage = storage,
                             !.max = part.max, !.multi = FALSE, !.ref = part.ref]
    BY <2>1
  <2> QED BY <2>2 DEF SmsFields, NewSms
<1>4. PICK P : P = [k \in {part.seq} |-> [index |-> index, origin |-> part.origin]] OBVIOUS
<1>5. DOMAIN P = {part.seq} /\ P[part.seq] = [index |-> index, origin |-> part.origin] BY <1>4
<1>6. /\ DOMAIN m = SmsFields /\ m.storage = storage /\ m.max = part.max /\ m.multi = FALSE
      /\ m.user = FALSE /\ m.listed = TRUE /\ m.parts = P /\ m.ref = part.ref /\ m.submit \in BOOLEAN
  <2>1. DOMAIN new.parts \union {part.seq} = {part.seq} BY <1>3
  <2>2. WithPart(new, part, index) = [new EXCEPT !.parts = P] BY <1>3, <1>4, <2>1 DEF WithPart
  <2>3. m = [[new EXCEPT !.parts = P] EXCEPT !.listed = TRUE] BY <2>2
  <2> QED BY ONLY <1>3, <2>3 DEF SmsFields, NewSms
<1>7. SmsOK(m)
  <2>1. IsFiniteSet(DOMAIN P) BY <1>5, FS_Singleton
  <2>2. \A k \in DOMAIN P : P[k] \in [index : Slots \union {0}, origin : Nat] BY <1>2, <1>5
  <2>3. P # <<>>
    <3>1. DOMAIN <<>> = {} OBVIOUS
    <3> QED BY <1>5, <3>1
  <2> QED BY <1>2, <1>6, <2>1, <2>2, <2>3 DEF SmsOK, Maybe
<1>8. \A k \in DOMAIN m.parts : k = part.seq /\ m.parts[k].index = index /\ m.parts[k].origin = part.origin
  BY <1>5, <1>6
<1>9. \A k \in DOMAIN m.parts : Knows(m, k, stray, seen, n) BY <1>6, <1>8 DEF Knows, Lies
<1>10. \A j \in Listed(d) : \A k \in DOMAIN m.parts, l \in DOMAIN d.sms[j].parts : ~SamePlace(m, k, d.sms[j], l)
  BY <1>6, <1>8 DEF SamePlace, has_part
<1>11. \A j \in Listed(d) : ~SameReference(m, d.sms[j]) BY <1>6 DEF SameReference
<1> QED BY ONLY DaemonOK(d), SmsInv(d, stray, seen, n), m = [x EXCEPT !.listed = TRUE],
              <1>1, <1>6, <1>7, <1>8, <1>9, <1>10, <1>11, AddKeeps

LEMMA TakeFirst ==
  ASSUME NEW d, DaemonOK(d), NEW stray, NEW seen, NEW n, SmsInv(d, stray, seen, n),
         NEW part \in Parts, NEW index \in Slots, NEW storage \in Storages,
         Lies(part, index, storage, stray, seen, n), part.ref # 0,
         {i \in Listed(d) : SameMessage(d.sms[i], part)} = {},
         NEW state, state \in {part.state, "received"},
         NEW w, w = take_new_part(d, part, index, storage, state)
  PROVE  SmsInv(w, stray, seen, n) /\ Files(d, w)
<1> PICK new : new = [NewSms EXCEPT !.state = IF part.ref # 0 /\ state = "received" THEN "receiving" ELSE state,
                                    !.submit = part.state # "received", !.storage = storage,
                                    !.max = part.max, !.multi = part.ref # 0, !.ref = part.ref] OBVIOUS
<1>1. w = IF TakesPart(new, part) THEN AddSms(d, multipart_take_part(new, part, index)) ELSE d
  BY DEF take_new_part
<1>2. CASE ~TakesPart(new, part) BY <1>1, <1>2, FilesReflexive
<1>3. CASE TakesPart(new, part)
  <2>1. /\ DOMAIN new = SmsFields /\ new.storage = storage /\ new.max = part.max /\ new.multi = TRUE
        /\ new.user = FALSE /\ new.listed = FALSE /\ new.ref = part.ref
        /\ new.state = (IF state = "received" THEN "receiving" ELSE state)
        /\ new.submit = (part.state # "received")
        /\ DOMAIN new.parts = {} /\ part.max \in Nat /\ part.ref \in References \union {0}
        /\ storage \in Maybe
    <3>1. PICK b \in BOOLEAN : b = (part.state # "received") OBVIOUS
    <3>2. PICK first : first = IF state = "received" THEN "receiving" ELSE state OBVIOUS
    <3>3. new = [NewSms EXCEPT !.state = first, !.submit = b, !.storage = storage,
                               !.max = part.max, !.multi = TRUE, !.ref = part.ref]
      BY <3>1, <3>2
    <3>4. /\ DOMAIN new = SmsFields /\ new.storage = storage /\ new.max = part.max /\ new.multi = TRUE
          /\ new.user = FALSE /\ new.listed = FALSE /\ new.ref = part.ref
          /\ new.state = first /\ new.submit = b /\ new.parts = <<>>
      BY ONLY <3>3 DEF SmsFields, NewSms
    <3>5. DOMAIN new.parts = {} BY <3>4
    <3> QED BY <3>1, <3>2, <3>4, <3>5 DEF Parts, Maybe
  <2>2. /\ IsFiniteSet(DOMAIN new.parts) /\ new.state # "received"
        /\ ~new.submit => new.state = "receiving"
    BY <2>1, FS_EmptySet
  <2>3. PICK x : x = multipart_take_part(new, part, index) OBVIOUS
  <2>4. /\ SmsOK(x) /\ x.multi = TRUE /\ x.user = FALSE /\ x.listed = FALSE /\ x.storage = storage
        /\ x.max = part.max /\ x.ref = part.ref
        /\ DOMAIN x.parts = {part.seq}
        /\ x.parts[part.seq] = [index |-> index, origin |-> part.origin]
        /\ StateOK(x)
    <3>1. Open(new) BY <2>1, <2>2 DEF Open
    <3>2. Took(new, part, index, multipart_take_part(new, part, index)) BY <1>3, <3>1, TakeOK
    <3>3. Took(new, part, index, x) BY <2>3, <3>2
    <3> QED BY <2>1, <3>3 DEF Took
  <2>5. PICK m : m = [x EXCEPT !.listed = TRUE] OBVIOUS
  <2>6. /\ DOMAIN m = SmsFields /\ m.multi = TRUE /\ m.user = FALSE /\ m.listed = TRUE /\ m.storage = storage
        /\ m.max = part.max /\ m.ref = part.ref /\ m.parts = x.parts /\ m.state = x.state
        /\ m.submit = x.submit
    BY <2>4, <2>5 DEF SmsOK, SmsFields, NewSms
  <2>7. SmsOK(m)
    <3>1. StateOK(m) BY <2>4, <2>6 DEF StateOK, Whole
    <3>2. m.parts # <<>> BY <2>4, <2>6
    <3> QED BY <2>4, <2>6, <3>1, <3>2 DEF SmsOK
  <2>8. \A k \in DOMAIN m.parts : Knows(m, k, stray, seen, n)
    <3> TAKE k \in DOMAIN m.parts
    <3>1. k = part.seq /\ m.parts[k].origin = part.origin BY <2>4, <2>6
    <3> QED BY <2>6, <3>1 DEF Knows, Lies
  <2>9. /\ \A k, l \in DOMAIN m.parts : SamePlace(m, k, m, l) => k = l
        /\ \A j \in Listed(d) : \A k \in DOMAIN m.parts, l \in DOMAIN d.sms[j].parts :
             ~SamePlace(m, k, d.sms[j], l)
    BY <2>6 DEF SamePlace
  <2>10. \A j \in Listed(d) : ~SameReference(m, d.sms[j])
    BY <2>6 DEF SameReference, SameMessage
  <2>11. w = AddSms(d, x) BY <1>1, <1>3, <2>3
  <2> QED BY ONLY DaemonOK(d), SmsInv(d, stray, seen, n),
                <2>5, <2>6, <2>7, <2>8, <2>9, <2>10, <2>11, AddKeeps
<1> QED BY <1>2, <1>3

LEMMA TakeNext ==
  ASSUME NEW d, DaemonOK(d), NEW stray, NEW seen, NEW n, SmsInv(d, stray, seen, n),
         NEW part \in Parts, NEW index \in Slots, NEW storage \in Storages,
         Lies(part, index, storage, stray, seen, n), part.ref # 0,
         {i \in Listed(d) : SameMessage(d.sms[i], part)} # {},
         NEW state, state \in {part.state, "received"},
         NEW w, w = take_new_part(d, part, index, storage, state)
  PROVE  SmsInv(w, stray, seen, n) /\ Files(d, w)
<1> PICK same : same = {i \in Listed(d) : SameMessage(d.sms[i], part)} OBVIOUS
<1> PICK i : i = Max(same) OBVIOUS
<1>1. i \in same
  <2>1. same \subseteq 1 .. MaxSms BY DEF Listed, Ids
  <2> QED BY <2>1, MaxIsIn, MultipartSmsAssumption
<1>2. i \in Ids /\ i \in Listed(d) /\ SmsOK(d.sms[i]) /\ SameMessage(d.sms[i], part)
  BY <1>1 DEF Listed, SmsInv
<1>3. w = IF TakesPart(d.sms[i], part)
            THEN [d EXCEPT !.sms[i] = multipart_take_part(d.sms[i], part, index)] ELSE d
  BY DEF take_new_part
<1>4. CASE ~TakesPart(d.sms[i], part) BY <1>3, <1>4, FilesReflexive
<1>5. CASE TakesPart(d.sms[i], part)
  <2> PICK m : m = d.sms[i] OBVIOUS
  <2>1. /\ SmsOK(m) /\ m.multi = TRUE /\ m.listed = TRUE /\ m.ref = part.ref /\ m.max = part.max
        /\ TakesPart(m, part)
    BY <1>2, <1>5 DEF SameMessage, SmsOK, Listed
  <2>2. m.user = FALSE
    <3> SUFFICES ASSUME m.user PROVE FALSE BY <2>1 DEF SmsOK
    <3>1. DOMAIN m.parts = 1 .. m.max /\ m.max \in Nat BY <2>1 DEF SmsOK
    <3>2. Cardinality(DOMAIN m.parts) < m.max BY <2>1 DEF TakesPart
    <3>3. Cardinality(1 .. m.max) = m.max BY <3>1, Numbered
    <3> QED BY <3>1, <3>2, <3>3
  <2>3. PICK x : x = multipart_take_part(m, part, index) OBVIOUS
  <2>4. /\ SmsOK(x) /\ x.multi = TRUE /\ x.user = FALSE /\ x.listed = TRUE /\ x.storage = m.storage
        /\ x.max = m.max /\ x.ref = m.ref
        /\ DOMAIN x.parts = DOMAIN m.parts \union {part.seq}
        /\ x.parts[part.seq] = [index |-> index, origin |-> part.origin]
        /\ \A k \in DOMAIN m.parts : x.parts[k] = m.parts[k]
    <3>1. Open(m) BY <2>1, <2>2 DEF SmsOK, Open, StateOK
    <3>2. Took(m, part, index, multipart_take_part(m, part, index)) BY <2>1, <3>1, TakeOK
    <3>3. Took(m, part, index, x) BY <2>3, <3>2
    <3> QED BY <2>1, <3>3 DEF Took
  <2>5. \A k \in DOMAIN x.parts : Knows(x, k, stray, seen, n)
    <3> TAKE k \in DOMAIN x.parts
    <3>1. CASE k = part.seq BY <2>1, <2>4, <3>1 DEF Knows, Lies
    <3>2. CASE k # part.seq
      <4>1. Knows(m, k, stray, seen, n) BY <1>2, <2>4, <3>2 DEF SmsInv
      <4> QED BY <2>1, <2>4, <3>2, <4>1 DEF Knows
    <3> QED BY <3>1, <3>2
  <2>6. /\ DOMAIN w = DaemonFields /\ w.sms = [d.sms EXCEPT ![i] = x] /\ w.used = d.used /\ w.at = d.at
        /\ w.mem1 = d.mem1 /\ w.mem2 = d.mem2 /\ w.held1 = d.held1 /\ w.kept = d.kept /\ w.pdu = d.pdu /\ w.held2 = d.held2
        /\ w.default = d.default /\ w.loading = d.loading /\ w.stray = d.stray /\ w.crashed = d.crashed
    BY <1>3, <1>5, <2>3 DEF DaemonOK, DaemonFields
  <2>7. /\ DOMAIN w.sms = Ids /\ w.sms[i] = x /\ d.used \in Nat
        /\ \A j \in Ids : j # i => w.sms[j] = d.sms[j]
    BY <1>2, <2>6 DEF DaemonOK
  <2>8. Files(d, w)
    <3>1. \A j \in Ids : d.sms[j].user => w.sms[j] = d.sms[j] BY <2>2, <2>7
    <3>2. d.used <= w.used /\ w.used \in Nat BY <2>6, <2>7
    <3> QED BY ONLY <2>6, <2>7, <3>1, <3>2 DEF Files
  <2>9. SmsInv(w, stray, seen, n)
    <3>1. d.sms[i].multi /\ ~d.sms[i].user /\ x.ref = d.sms[i].ref /\ x.max = d.sms[i].max
          /\ x.listed = d.sms[i].listed /\ x.multi /\ ~x.user /\ w.used = d.used /\ i \in Listed(d)
      BY <1>2, <2>1, <2>2, <2>4, <2>6
    <3> QED BY ONLY SmsInv(d, stray, seen, n), <2>4, <2>5, <2>7, <3>1, TookSms
  <2> QED BY <2>8, <2>9
<1> QED BY <1>4, <1>5

(* mm_sms_list_take_part                                                     *)
LEMMA TakeKeeps ==
  ASSUME NEW d, DaemonOK(d), NEW stray, NEW seen, NEW n, SmsInv(d, stray, seen, n),
         NEW part \in Parts, NEW index \in Slots, NEW storage \in Storages,
         Lies(part, index, storage, stray, seen, n),
         NEW state, state \in {part.state, "received"},
         NEW w, w = take_part(d, part, index, storage, state)
  PROVE  SmsInv(w, stray, seen, n) /\ Files(d, w)
<1>1. CASE has_part(d, storage, index) BY <1>1, FilesReflexive DEF take_part
<1>2. CASE ~has_part(d, storage, index)
  <2>1. w = take_new_part(d, part, index, storage, state) BY <1>2 DEF take_part
  <2> QED BY <1>2, <2>1, TakeSingle, TakeFirst, TakeNext
<1> QED BY <1>1, <1>2

(* The entries of a list are taken one after the other, by descent on how     *)
(* many are left: first that there is such a function, then what it keeps.    *)
LEMMA LastIsIn ==
  ASSUME NEW S, S \subseteq Entry, S # {}
  PROVE  LastOf(S) \in S
<1> DEFINE Above(e) == {i \in Slots : e.index < i}
           T == {Cardinality(Above(e)) : e \in S}
<1>1. \A e \in S : IsFiniteSet(Above(e)) /\ Cardinality(Above(e)) \in Nat
  <2> TAKE e \in S
  <2>1. Above(e) \in SUBSET Slots /\ IsFiniteSet(Slots) BY MultipartSmsAssumption
  <2>2. IsFiniteSet(Above(e)) BY <2>1, FS_Subset
  <2> QED BY <2>2, FS_CardinalityType
<1>2. T \subseteq Nat /\ T # {} BY <1>1
<1>3. PICK t \in T : \A u \in T : t =< u BY <1>2, MinExists
<1>4. PICK e \in S : t = Cardinality(Above(e)) BY <1>3
<1>5. \A o \in S : o.index <= e.index
  <2> SUFFICES ASSUME NEW o \in S, ~(o.index <= e.index) PROVE FALSE OBVIOUS
  <2>1. /\ o.index \in Slots /\ e.index \in Slots /\ Slots \subseteq Nat
    BY MultipartSmsAssumption DEF Entry
  <2>2. o.index \in Above(e) /\ o.index \notin Above(o) /\ Above(o) \in SUBSET Above(e)
    <3>1. \A x, y \in Nat : ~(x <= y) => y < x /\ ~(x < x) /\ \A i \in Nat : x < i => y < i OBVIOUS
    <3>2. e.index \in Nat /\ o.index \in Nat BY ONLY <2>1
    <3> HIDE DEF Above
    <3>3. e.index < o.index /\ ~(o.index < o.index) /\ \A i \in Nat : o.index < i => e.index < i
      BY ONLY <3>1, <3>2, ~(o.index <= e.index)
    <3> USE DEF Above
    <3> QED BY <2>1, <3>3
  <2>3. Cardinality(Above(o)) <= Cardinality(Above(e))
    BY <1>1, <2>2, FS_Subset
  <2>4. Cardinality(Above(o)) # Cardinality(Above(e)) BY <1>1, <2>2, FS_Subset
  <2>5. Cardinality(Above(o)) \in T OBVIOUS
  <2> HIDE DEF Above, T
  <2> QED BY <1>1, <1>3, <1>4, <2>3, <2>4, <2>5
<1> QED BY <1>5 DEF LastOf

LEMMA FewerLeft ==
  ASSUME NEW all, IsFiniteSet(all), all \subseteq Entry, NEW S \in SUBSET all, S # {}
  PROVE  /\ LastOf(S) \in S /\ S \ {LastOf(S)} \in SUBSET all
         /\ Cardinality(S) \in Nat /\ Cardinality(S \ {LastOf(S)}) = Cardinality(S) - 1
<1>1. LastOf(S) \in S BY LastIsIn
<1>2. IsFiniteSet(S) BY FS_Subset
<1> QED BY <1>1, <1>2, FS_RemoveElement, FS_CardinalityType

(* One step of take_parts.                                                    *)
Step(g, S, d, storage) ==
  IF S = {} THEN d
  ELSE take_part(g[S \ {LastOf(S)}], LastOf(S).part, LastOf(S).index, storage, LastOf(S).part.state)

Steps(f, all, d, storage) == f = [S \in SUBSET all |-> Step(f, S, d, storage)]

LEMMA TakesExist ==
  ASSUME NEW all, IsFiniteSet(all), all \subseteq Entry, NEW d, NEW storage
  PROVE  \E f : Steps(f, all, d, storage)
<1> DEFINE Fits(g, k) == \A S \in SUBSET all : Cardinality(S) <= k => g[S] = Step(g, S, d, storage)
           Bad == {k \in Nat : ~\E g : Fits(g, k)}
<1>1. \A S \in SUBSET all : Cardinality(S) \in Nat BY FS_Subset, FS_CardinalityType
<1>2. Bad = {}
  <2> SUFFICES ASSUME Bad # {} PROVE FALSE OBVIOUS
  <2>1. PICK k \in Bad : \A j \in Bad : k =< j
    <3>1. Bad \subseteq Nat OBVIOUS
    <3> HIDE DEF Bad
    <3> QED BY <3>1, MinExists
  <2>2. k \in Nat /\ ~\E g : Fits(g, k) OBVIOUS
  <2>3. CASE k = 0
    <3> PICK g : g = [S \in SUBSET all |-> d] OBVIOUS
    <3>1. Fits(g, 0)
      <4> SUFFICES ASSUME NEW S \in SUBSET all, Cardinality(S) <= 0 PROVE g[S] = Step(g, S, d, storage)
        OBVIOUS
      <4>1. IsFiniteSet(S) /\ Cardinality(S) = 0 BY <1>1, FS_Subset
      <4>2. S = {} BY <4>1, FS_EmptySet
      <4> QED BY <4>2 DEF Step
    <3> QED BY <2>2, <2>3, <3>1
  <2>4. CASE k # 0
    <3>1. k - 1 \in Nat /\ k - 1 \notin Bad
      <4>1. k - 1 \in Nat /\ ~(k =< k - 1) BY <2>2, <2>4
      <4> HIDE DEF Bad
      <4> QED BY <2>1, <4>1
    <3>2. PICK g : Fits(g, k - 1) BY <3>1
    <3> DEFINE h == [S \in SUBSET all |-> IF Cardinality(S) <= k - 1 THEN g[S] ELSE Step(g, S, d, storage)]
    <3>3. \A S \in SUBSET all : h[S] = IF Cardinality(S) <= k - 1 THEN g[S] ELSE Step(g, S, d, storage)
      OBVIOUS
    <3> HIDE DEF h
    <3>4. ASSUME NEW S \in SUBSET all, Cardinality(S) <= k PROVE Step(h, S, d, storage) = Step(g, S, d, storage)
      <4>1. CASE S = {} BY <4>1 DEF Step
      <4>2. CASE S # {}
        <5>1. Cardinality(S \ {LastOf(S)}) <= k - 1 /\ S \ {LastOf(S)} \in SUBSET all
          BY <2>2, <3>4, <4>2, FewerLeft
        <5>2. h[S \ {LastOf(S)}] = g[S \ {LastOf(S)}] BY <3>3, <5>1
        <5> QED BY <4>2, <5>2 DEF Step
      <4> QED BY <4>1, <4>2
    <3>5. Fits(h, k)
      <4> SUFFICES ASSUME NEW S \in SUBSET all, Cardinality(S) <= k PROVE h[S] = Step(h, S, d, storage)
        OBVIOUS
      <4>1. h[S] = Step(g, S, d, storage)
        <5>1. CASE Cardinality(S) <= k - 1 BY <3>2, <3>3, <5>1
        <5>2. CASE ~(Cardinality(S) <= k - 1) BY <3>3, <5>2
        <5> QED BY <5>1, <5>2
      <4> QED BY <3>4, <4>1
    <3> QED BY <2>2, <3>5
  <2> QED BY <2>3, <2>4
<1>3. PICK g : Fits(g, Cardinality(all))
  <2>1. Cardinality(all) \in Nat BY <1>1
  <2> QED BY <1>2, <2>1
<1> DEFINE f == [S \in SUBSET all |-> g[S]]
<1>4. \A S \in SUBSET all : g[S] = Step(g, S, d, storage)
  <2> TAKE S \in SUBSET all
  <2>1. Cardinality(S) <= Cardinality(all) BY FS_Subset
  <2> QED BY <1>3, <2>1
<1>5. \A S \in SUBSET all : f[S] = Step(f, S, d, storage)
  <2> TAKE S \in SUBSET all
  <2>1. f[S] = g[S] OBVIOUS
  <2>2. Step(f, S, d, storage) = Step(g, S, d, storage)
    <3>1. S # {} => f[S \ {LastOf(S)}] = g[S \ {LastOf(S)}] OBVIOUS
    <3> HIDE DEF f
    <3> QED BY <3>1 DEF Step
  <2> QED BY <1>4, <2>1, <2>2
<1>6. f = [S \in SUBSET all |-> Step(f, S, d, storage)]
  <2>1. f = [S \in SUBSET all |-> f[S]] OBVIOUS
  <2> HIDE DEF f
  <2> QED BY <1>5, <2>1
<1>7. Steps(f, all, d, storage) BY <1>6 DEF Steps
<1> QED BY <1>7

LEMMA TakeAllKeeps ==
  ASSUME NEW d, DaemonOK(d), NEW stray, NEW seen, NEW n, SmsInv(d, stray, seen, n),
         NEW all, IsFiniteSet(all), all \subseteq Entry, NEW storage \in Storages,
         \A e \in all : Lies(e.part, e.index, storage, stray, seen, n),
         NEW w, w = take_parts(d, all, storage)
  PROVE  SmsInv(w, stray, seen, n) /\ Files(d, w)
<1>1. PICK f : Steps(f, all, d, storage) /\ w = f[all]
  <2>1. \E f : Steps(f, all, d, storage) BY TakesExist
  <2>2. w = (CHOOSE f : Steps(f, all, d, storage))[all] BY DEF take_parts, Steps, Step
  <2> QED BY <2>1, <2>2
<1>2. \A S \in SUBSET all : f[S] = Step(f, S, d, storage)
  <2>1. f = [S \in SUBSET all |-> Step(f, S, d, storage)] BY <1>1 DEF Steps
  <2> QED BY <2>1
<1> DEFINE Good(S) == SmsInv(f[S], stray, seen, n) /\ Files(d, f[S])
           Bad == {Cardinality(S) : S \in {S \in SUBSET all : ~Good(S)}}
<1>3. Bad \subseteq Nat BY FS_Subset, FS_CardinalityType
<1>4. Bad = {}
  <2> SUFFICES ASSUME Bad # {} PROVE FALSE OBVIOUS
  <2>1. PICK k \in Bad : \A j \in Bad : k =< j
    <3> HIDE DEF Bad
    <3> QED BY <1>3, MinExists
  <2>2. PICK S \in SUBSET all : ~Good(S) /\ k = Cardinality(S) OBVIOUS
  <2>3. CASE S = {}
    <3>1. f[S] = d BY <1>2, <2>3 DEF Step
    <3> QED BY <2>2, <3>1, FilesReflexive
  <2>4. CASE S # {}
    <3> PICK e : e = LastOf(S) OBVIOUS
    <3> PICK R : R = S \ {e} OBVIOUS
    <3>1. e \in S /\ R \in SUBSET all /\ Cardinality(S) \in Nat /\ Cardinality(R) = Cardinality(S) - 1
      BY <2>4, FewerLeft
    <3>2. Good(R)
      <4>1. ~(k =< Cardinality(R)) BY <2>2, <3>1
      <4>2. ~Good(R) => Cardinality(R) \in Bad BY <3>1
      <4> HIDE DEF Bad, Good
      <4> QED BY <2>1, <4>1, <4>2
    <3>3. f[S] = take_part(f[R], e.part, e.index, storage, e.part.state) BY <1>2, <2>4 DEF Step
    <3>4. /\ e \in all /\ e.part \in Parts /\ e.index \in Slots
          /\ Lies(e.part, e.index, storage, stray, seen, n)
      BY <3>1 DEF Entry
    <3>5. DaemonOK(f[R]) BY <3>2 DEF Files, DaemonOK
    <3>6. SmsInv(f[S], stray, seen, n) /\ Files(f[R], f[S])
      BY <3>2, <3>3, <3>4, <3>5, TakeKeeps
    <3>7. Files(d, f[S]) BY <3>2, <3>6, FilesTransitive
    <3> QED BY <2>2, <3>6, <3>7
  <2> QED BY <2>3, <2>4
<1>5. Good(all) BY <1>4
<1> QED BY <1>1, <1>5

----------------------------------------------------------------------------
(* Queue, modem and messages together.                                      *)
LEMMA SmsStay ==
  ASSUME NEW d, NEW w, NEW stray, NEW v, NEW seen, NEW n, SmsInv(d, stray, seen, n),
         w.sms = d.sms, w.used = d.used, stray => v
  PROVE  SmsInv(w, v, seen, n)
<1>1. Listed(w) = Listed(d) BY DEF Listed
<1>2. \A m, k : Knows(m, k, stray, seen, n) => Knows(m, k, v, seen, n) BY DEF Knows
<1>3. \A i \in Listed(w) : \A k \in DOMAIN w.sms[i].parts : Knows(w.sms[i], k, v, seen, n)
  BY <1>1, <1>2 DEF SmsInv
<1> QED BY <1>1, <1>3 DEF SmsInv

LEMMA GotTail ==
  ASSUME NEW at, IsSeq(at), at # <<>>, NEW seen, NEW n, GotInv(at, Command, seen, n),
         NEW c, c = Head(at), NEW t, t = Tail(at)
  PROVE  GotInv(t, c, seen, n)
<1>1. /\ 1 \in DOMAIN at /\ c = at[1]
      /\ \A m \in DOMAIN t : m + 1 \in DOMAIN at /\ t[m] = at[m + 1]
  BY SeqTail
<1> QED BY <1>1 DEF GotInv

LEMMA GotAppend ==
  ASSUME NEW at, IsSeq(at), NEW c, NEW seen, NEW n, GotInv(at, c, seen, n),
         NEW e, e.got \subseteq c.got, NEW t, t = Append(at, e)
  PROVE  GotInv(t, Command, seen, n)
<1>1. PICK z \in Nat \ {0} :
        /\ t[z] = e
        /\ \A m \in DOMAIN t : m \in DOMAIN at \/ m = z
        /\ \A m \in DOMAIN at : t[m] = at[m]
  <2>1. Adds(at, e, Append(at, e)) BY Appended
  <2>2. Adds(at, e, t) BY <2>1
  <2> QED BY <2>2 DEF Adds
<1>2. Command.got = {} BY DEF Command
<1>3. \A m \in DOMAIN t : \A x \in t[m].got : Sighted(x, seen, n)
  <2> TAKE m \in DOMAIN t
  <2>1. CASE m \in DOMAIN at BY <1>1, <2>1 DEF GotInv
  <2>2. CASE m = z BY <1>1, <2>2 DEF GotInv
  <2> QED BY <1>1, <2>1, <2>2
<1> QED BY <1>2, <1>3 DEF GotInv

LEMMA GotDrop ==
  ASSUME NEW at, NEW c, NEW seen, NEW n, GotInv(at, c, seen, n)
  PROVE  GotInv(at, Command, seen, n)
<1>1. Command.got = {} BY DEF Command
<1> QED BY <1>1 DEF GotInv

LEMMA AllPop ==
  ASSUME NEW d, NEW dev, NEW seen, NEW n, AllInv(d, dev, Command, seen, n), d.at # <<>>,
         NEW c, c = Head(d.at), NEW w, w = [d EXCEPT !.at = Tail(@)]
  PROVE  AllInv(w, dev, c, seen, n) /\ Runs(c)
<1>1. QueueInv(w, dev.mem1, c) /\ Runs(c) BY PopKeeps DEF AllInv
<1>2. DaemonOK(d) BY DEF AllInv, QueueInv
<1>3. w.at = Tail(d.at) /\ w.sms = d.sms /\ w.used = d.used /\ w.stray = d.stray
  BY <1>2 DEF DaemonOK, DaemonFields
<1>4. GotInv(w.at, c, seen, n) BY <1>2, <1>3, GotTail DEF AllInv, DaemonOK
<1>5. SmsInv(w, w.stray, seen, n) BY <1>3, SmsStay DEF AllInv
<1> QED BY <1>1, <1>4, <1>5 DEF AllInv

LEMMA AllUnlock ==
  ASSUME NEW d, NEW dev, NEW c, NEW seen, NEW n, AllInv(d, dev, c, seen, n),
         NEW w, w = unlock_storages(d, c)
  PROVE  /\ AllInv(w, dev, Command, seen, n)
         /\ w.sms = d.sms /\ w.used = d.used /\ w.stray = d.stray /\ w.default = d.default
         /\ w.mem1 = d.mem1 /\ w.pdu = d.pdu
<1>1. /\ QueueInv(w, dev.mem1, Command)
      /\ w.at = d.at /\ w.sms = d.sms /\ w.used = d.used /\ w.stray = d.stray /\ w.default = d.default
      /\ w.mem1 = d.mem1 /\ w.pdu = d.pdu
  BY UnlockKeeps DEF AllInv
<1>2. GotInv(w.at, Command, seen, n) BY <1>1, GotDrop DEF AllInv
<1>3. SmsInv(w, w.stray, seen, n) BY <1>1, SmsStay DEF AllInv
<1> QED BY <1>1, <1>2, <1>3 DEF AllInv

(* The listing of texts ends without the unlock: nobody has the lock any more. *)
LEMMA AllKeep ==
  ASSUME NEW d, NEW dev, NEW c, NEW seen, NEW n, AllInv(d, dev, c, seen, n), c.op \in Reading, ~d.pdu,
         NEW w, w = [d EXCEPT !.kept = @ \/ c.locks1]
  PROVE  AllInv(w, dev, Command, seen, n) /\ w.stray = d.stray
<1>1. DaemonOK(d) /\ CommandOK(c) /\ Alone(d.at, c, "locks1", Owned(d)) /\ Alone(d.at, c, "locks2", d.held2)
      /\ Selects(d, dev.mem1, c)
  BY DEF AllInv, QueueInv
<1>2. c.locks1 /\ ~c.locks2 /\ Owned(d) BY <1>1 DEF CommandOK, Alone, Reading, Writing
<1>3. /\ DOMAIN w = DaemonFields /\ w.at = d.at /\ w.sms = d.sms /\ w.used = d.used /\ w.stray = d.stray
      /\ w.default = d.default /\ w.loading = d.loading /\ w.mem1 = d.mem1 /\ w.mem2 = d.mem2
      /\ w.held1 = d.held1 /\ w.kept = TRUE /\ w.pdu = d.pdu /\ w.held2 = d.held2 /\ w.crashed = d.crashed
  BY <1>1, <1>2 DEF DaemonOK, DaemonFields
<1>4. DaemonOK(w) BY <1>1, <1>2, <1>3 DEF DaemonOK, Owned
<1>5. Alone(w.at, Command, "locks1", Owned(w)) /\ Alone(w.at, Command, "locks2", w.held2)
  <2>1. ~Owned(w) BY <1>3 DEF Owned
  <2> QED BY <1>1, <1>2, <1>3, <2>1, CommandIsOK DEF Alone
<1>6. Selects(w, dev.mem1, Command)
  BY <1>1, <1>3, CommandIsOK DEF Selects, Means, Selected
<1>7. \A m \in DOMAIN w.at :
        CommandOK(w.at[m]) /\ Runs(w.at[m]) /\ (m # 1 => w.at[m].status = "sent") /\ Writes(w, w.at[m])
  BY <1>3 DEF AllInv, QueueInv, Writes
<1>8. QueueInv(w, dev.mem1, Command) BY <1>4, <1>5, <1>6, <1>7, CommandIsOK DEF QueueInv
<1>9. GotInv(w.at, Command, seen, n) BY <1>3, GotDrop DEF AllInv
<1>10. SmsInv(w, w.stray, seen, n) BY <1>3, SmsStay DEF AllInv
<1> QED BY <1>3, <1>8, <1>9, <1>10 DEF AllInv

LEMMA AllFail ==
  ASSUME NEW d, NEW dev, NEW c, NEW seen, NEW n, AllInv(d, dev, c, seen, n), c.cmd = "cpms",
         NEW w, w = lock_storages_failed(d, c)
  PROVE  AllInv(w, dev, Command, seen, n)
<1>1. /\ QueueInv(w, dev.mem1, Command)
      /\ w.at = d.at /\ w.sms = d.sms /\ w.used = d.used /\ w.stray = d.stray
  BY FailKeeps DEF AllInv
<1>2. GotInv(w.at, Command, seen, n) BY <1>1, GotDrop DEF AllInv
<1>3. SmsInv(w, w.stray, seen, n) BY <1>1, SmsStay DEF AllInv
<1> QED BY <1>1, <1>2, <1>3 DEF AllInv

LEMMA AllSend ==
  ASSUME NEW d, NEW dev, NEW c, NEW seen, NEW n, AllInv(d, dev, c, seen, n),
         NEW e, CommandOK(e), Runs(e), Writes(d, e), e.status = "sent",
         e.locks1 = c.locks1, e.locks2 = c.locks2, e.got \subseteq c.got,
         e.locks1 => e.cmd # "cpms" /\ e.storage = c.storage /\ Selected(c),
         e.cmd = "cpms" => e.mem1 = d.mem1,
         NEW w, w = Send(d, e)
  PROVE  AllInv(w, dev, Command, seen, n)
<1>1. QueueInv(w, dev.mem1, Command) BY SendKeeps DEF AllInv
<1>2. DaemonOK(d) BY DEF AllInv, QueueInv
<1>3. w.at = Append(d.at, e) /\ w.sms = d.sms /\ w.used = d.used /\ w.stray = d.stray
  BY <1>2 DEF Send, DaemonOK, DaemonFields
<1>4. GotInv(w.at, Command, seen, n) BY <1>2, <1>3, GotAppend DEF AllInv, DaemonOK
<1>5. SmsInv(w, w.stray, seen, n) BY <1>3, SmsStay DEF AllInv
<1> QED BY <1>1, <1>4, <1>5 DEF AllInv

LEMMA AllLock ==
  ASSUME NEW d, NEW dev, NEW seen, NEW n, AllInv(d, dev, Command, seen, n),
         NEW m1 \in Maybe, NEW m2 \in Maybe, CanLock(d, m1, m2),
         NEW c, Starts(d, c, m1, m2),
         NEW w, w = lock_storages(d, m1, m2, c)
  PROVE  AllInv(w, dev, Command, seen, n)
<1>1. /\ QueueInv(w, dev.mem1, Command)
      /\ w.sms = d.sms /\ w.used = d.used /\ w.stray = d.stray
      /\ Grows(d.at, w.at)
  <2>1. QueueInv(d, dev.mem1, Command) BY DEF AllInv
  <2> HIDE DEF QueueInv
  <2> QED BY <2>1, LockKeeps
<1>2. PICK e : e.got = {} /\ w.at = Append(d.at, e) BY <1>1 DEF Grows
<1>3. IsSeq(d.at) BY DEF AllInv, QueueInv, DaemonOK
<1>4. GotInv(w.at, Command, seen, n)
  <2>1. e.got \subseteq Command.got BY <1>2
  <2> QED BY <1>2, <1>3, <2>1, GotAppend DEF AllInv
<1>5. SmsInv(w, w.stray, seen, n) BY <1>1, SmsStay DEF AllInv
<1> QED BY <1>1, <1>4, <1>5 DEF AllInv

(* Other messages, with more of what is filed elsewhere.                      *)
LEMMA AllFiles ==
  ASSUME NEW d, NEW dev, NEW c, NEW seen, NEW n, AllInv(d, dev, c, seen, n),
         NEW w, Files(d, w), SmsInv(w, w.stray, seen, n)
  PROVE  AllInv(w, dev, c, seen, n)
<1>1. QueueInv(w, dev.mem1, c) BY FilesKeeps DEF AllInv
<1>2. w.at = d.at BY DEF Files
<1> QED BY <1>1, <1>2 DEF AllInv

LEMMA AllField ==
  ASSUME NEW d, NEW dev, NEW c, NEW seen, NEW n, AllInv(d, dev, c, seen, n),
         NEW w, DOMAIN w = DaemonFields,
         w.sms = d.sms /\ w.used = d.used /\ w.at = d.at /\ w.mem1 = d.mem1
         /\ w.held1 = d.held1 /\ w.kept = d.kept /\ w.pdu = d.pdu /\ w.held2 = d.held2 /\ w.crashed = d.crashed,
         w.mem2 \in Storages /\ w.default \in Storages /\ w.loading \in Nat /\ w.stray \in BOOLEAN,
         d.stray => w.stray
  PROVE  AllInv(w, dev, c, seen, n)
<1>1. QueueInv(w, dev.mem1, c) BY FieldKeeps DEF AllInv
<1>2. SmsInv(w, w.stray, seen, n) BY SmsStay DEF AllInv
<1> QED BY <1>1, <1>2 DEF AllInv

LEMMA AllChange ==
  ASSUME NEW d, NEW dev, NEW c, NEW seen, NEW n, AllInv(d, dev, c, seen, n),
         NEW i \in Ids, NEW m, SmsOK(m), Changes(d.sms[i], m), NEW w, w = [d EXCEPT !.sms[i] = m]
  PROVE  AllInv(w, dev, c, seen, n)
<1>1. DaemonOK(d) /\ SmsInv(d, d.stray, seen, n) BY DEF AllInv, QueueInv
<1>2. SmsInv(w, d.stray, seen, n) /\ Files(d, w) BY <1>1, ChangeSms
<1>3. w.stray = d.stray BY <1>2 DEF Files
<1> QED BY <1>2, <1>3, AllFiles

(* The context of the operation changes, but not what it locks.               *)
LEMMA AllAlike ==
  ASSUME NEW d, NEW dev, NEW c, NEW seen, NEW n, AllInv(d, dev, c, seen, n),
         NEW e, CommandOK(e), Writes(d, e), e.locks1 = c.locks1, e.locks2 = c.locks2, e.got \subseteq c.got,
         e.locks1 => e.storage = c.storage /\ e.cmd = c.cmd /\ e.mem1 = c.mem1 /\ e.status = c.status
  PROVE  AllInv(d, dev, e, seen, n)
<1>1. QueueInv(d, dev.mem1, c) BY DEF AllInv
<1>2. ASSUME NEW lock, NEW held, Alone(d.at, c, lock, held), e[lock] = c[lock]
      PROVE  Alone(d.at, e, lock, held)
  BY <1>2 DEF Alone
<1>3. Alone(d.at, e, "locks1", Owned(d)) /\ Alone(d.at, e, "locks2", d.held2)
  BY <1>1, <1>2 DEF QueueInv
<1>4. Selects(d, dev.mem1, e) BY <1>1 DEF QueueInv, Selects, Means, Selected
<1>5. QueueInv(d, dev.mem1, e) BY <1>1, <1>3, <1>4 DEF QueueInv
<1>6. GotInv(d.at, e, seen, n) BY DEF AllInv, GotInv
<1> QED BY <1>5, <1>6 DEF AllInv

----------------------------------------------------------------------------
(* The handlers of answers.  Reading.                                       *)
LEMMA LoadKeeps ==
  ASSUME NEW d, NEW dev, NEW seen, NEW n, AllInv(d, dev, Command, seen, n),
         NEW w, w = LoadNext(d)
  PROVE  AllInv(w, dev, Command, seen, n)
<1>1. DaemonOK(d) BY DEF AllInv, QueueInv
<1>2. ASSUME NEW v, NEW k \in Nat, v = [d EXCEPT !.loading = k]
      PROVE  AllInv(v, dev, Command, seen, n) /\ v.held1 = d.held1 /\ v.kept = d.kept /\ v.pdu = d.pdu /\ v.held2 = d.held2 /\ v.loading = k
  <2>1. /\ DOMAIN v = DaemonFields
        /\ v.sms = d.sms /\ v.used = d.used /\ v.at = d.at /\ v.mem1 = d.mem1
        /\ v.held1 = d.held1 /\ v.kept = d.kept /\ v.pdu = d.pdu /\ v.held2 = d.held2 /\ v.crashed = d.crashed
        /\ v.mem2 = d.mem2 /\ v.default = d.default /\ v.loading = k /\ v.stray = d.stray
    BY <1>1, <1>2 DEF DaemonOK, DaemonFields
  <2> QED BY <1>1, <2>1, AllField DEF DaemonOK
<1>3. d.loading \in Nat /\ d.loading + 1 \in Nat BY <1>1 DEF DaemonOK
<1>4. PICK v : v = [d EXCEPT !.loading = d.loading + 1] OBVIOUS
<1>5. v.loading = d.loading + 1 /\ v.held1 = d.held1 /\ v.kept = d.kept /\ v.pdu = d.pdu /\ v.held2 = d.held2 BY <1>2, <1>3, <1>4
<1> DEFINE from(k) == \A j \in v.loading .. k - 1 : ~CanLock(v, ListOrder[j], None)
           next == {k \in v.loading .. Len(ListOrder) : from(k) /\ CanLock(v, ListOrder[k], None)}
<1>6. Len(ListOrder) \in Nat /\ \A k \in 1 .. Len(ListOrder) : ListOrder[k] \in Storages
  BY MultipartSmsAssumption, LenProperties, ElementOfSeq
<1>7. w = IF next = {} THEN [v EXCEPT !.loading = Len(ListOrder) + 1]
          ELSE lock_storages([v EXCEPT !.loading = Min(next)], ListOrder[Min(next)], None,
                             [Command EXCEPT !.op = "list", !.storage = ListOrder[Min(next)]])
  BY <1>4 DEF LoadNext, load_from_storages
<1>8. \A k : [v EXCEPT !.loading = k] = [d EXCEPT !.loading = k] BY <1>4
<1>9. CASE next = {}
  <2>1. w = [d EXCEPT !.loading = Len(ListOrder) + 1] BY <1>7, <1>8, <1>9
  <2>2. Len(ListOrder) + 1 \in Nat BY <1>6
  <2> QED BY <1>2, <2>1, <2>2
<1>10. CASE next # {}
  <2>1. next \subseteq Nat /\ next \subseteq 1 .. Len(ListOrder) BY <1>3, <1>5, <1>6
  <2> PICK k : k = Min(next) OBVIOUS
  <2>2. k \in next
    <3> HIDE DEF next
    <3> QED BY <1>10, <2>1, MinIsIn
  <2>3. k \in Nat /\ k \in 1 .. Len(ListOrder) /\ CanLock(v, ListOrder[k], None) BY <2>1, <2>2
  <2> PICK s : s = ListOrder[k] OBVIOUS
  <2>4. s \in Storages /\ s \in Maybe /\ None \in Maybe BY <1>6, <2>3 DEF Maybe
  <2>5. PICK u : u = [d EXCEPT !.loading = k] OBVIOUS
  <2>6. AllInv(u, dev, Command, seen, n) /\ u.held1 = d.held1 /\ u.kept = d.kept /\ u.pdu = d.pdu /\ u.held2 = d.held2 BY <1>2, <2>3, <2>5
  <2>7. CanLock(u, s, None) BY <1>5, <2>3, <2>6 DEF CanLock
  <2>8. PICK c : c = [Command EXCEPT !.op = "list", !.storage = s] OBVIOUS
  <2>9. Starts(u, c, s, None) BY <2>4, <2>8 DEF Starts, Command, CommandFields, Reading
  <2>10. w = lock_storages(u, s, None, c) BY <1>7, <1>8, <1>10, <2>5, <2>8
  <2> QED BY ONLY <2>4, <2>6, <2>7, <2>9, <2>10, AllLock
<1> QED BY <1>9, <1>10

LEMMA ListKeeps ==
  ASSUME NEW d, NEW dev, NEW c, NEW seen, NEW n, AllInv(d, dev, c, seen, n), c.op \in Reading,
         NEW w, w = sms_part_list_ready(d, c)
  PROVE  AllInv(w, dev, Command, seen, n)
<1> PICK u : u = IF d.pdu THEN unlock_storages(d, c) ELSE [d EXCEPT !.kept = @ \/ c.locks1] OBVIOUS
<1>1. AllInv(u, dev, Command, seen, n)
  <2>1. CASE d.pdu BY <2>1, AllUnlock
  <2>2. CASE ~d.pdu BY <2>2, AllKeep
  <2> QED BY <2>1, <2>2
<1>2. /\ IsFiniteSet(c.got) /\ c.got \subseteq Entry /\ \A e \in c.got : e.storage = c.storage
      /\ c.storage \in Storages
  BY DEF AllInv, QueueInv, CommandOK, Selects, Means, DaemonOK
<1>3. \A e \in c.got : Lies(e.part, e.index, c.storage, u.stray, seen, n)
  <2>1. \A e \in c.got : Sighted(e, seen, n) BY DEF AllInv, GotInv
  <2> QED BY <1>2, <2>1 DEF Sighted, Lies
<1>4. PICK v : v = take_parts(u, c.got, c.storage) OBVIOUS
<1>5. DaemonOK(u) /\ SmsInv(u, u.stray, seen, n) BY <1>1 DEF AllInv, QueueInv
<1>6. SmsInv(v, u.stray, seen, n) /\ Files(u, v)
  <2> PICK all : all = c.got OBVIOUS
  <2> PICK stray : stray = u.stray OBVIOUS
  <2>1. IsFiniteSet(all) /\ all \subseteq Entry /\ \A e \in all : Lies(e.part, e.index, c.storage, stray, seen, n)
    BY <1>2, <1>3
  <2>2. SmsInv(v, stray, seen, n) /\ Files(u, v)
    <3>1. v = take_parts(u, all, c.storage) /\ SmsInv(u, stray, seen, n) BY <1>4, <1>5
    <3> QED BY ONLY <1>2, <1>5, <2>1, <3>1, TakeAllKeeps
  <2> QED BY <2>2
<1>7. v.stray = u.stray BY <1>6 DEF Files
<1>8. AllInv(v, dev, Command, seen, n) BY <1>1, <1>6, <1>7, AllFiles
<1>9. w = LoadNext(v) BY <1>4 DEF sms_part_list_ready
<1> QED BY <1>8, <1>9, LoadKeeps

LEMMA PartKeeps ==
  ASSUME NEW d, NEW dev, NEW c, NEW seen, NEW n, AllInv(d, dev, c, seen, n), c.cmd = "cmgr",
         NEW w, w = sms_part_ready(d, c)
  PROVE  AllInv(w, dev, Command, seen, n)
<1> PICK u : u = unlock_storages(d, c) OBVIOUS
<1>1. AllInv(u, dev, Command, seen, n) BY AllUnlock
<1>2. CASE c.status # "ok" \/ c.got = {} \/ ~d.pdu BY <1>1, <1>2 DEF sms_part_ready
<1>3. CASE ~(c.status # "ok" \/ c.got = {} \/ ~d.pdu)
  <2>1. PICK e \in c.got : e = CHOOSE x \in c.got : TRUE BY <1>3
  <2>2. PICK taken : taken = take_part(u, e.part, c.index, u.default, "received") OBVIOUS
  <2>3. PICK b \in BOOLEAN : b <=> taken # u /\ c.storage # u.default OBVIOUS
  <2>4. w = [taken EXCEPT !.stray = @ \/ (taken # u /\ c.storage # u.default)]
    BY <1>3, <2>1, <2>2 DEF sms_part_ready
  <2>5. /\ e \in Entry /\ e.storage = c.storage /\ e.index = c.index /\ c.storage \in Storages
        /\ Sighted(e, seen, n)
    <3>1. CommandOK(c) /\ c.op \in Reading BY DEF AllInv, QueueInv, CommandOK, Reads
    <3>2. e \in Entry /\ e.storage = c.storage /\ e.index = c.index BY <2>1, <3>1 DEF CommandOK
    <3>3. c.storage \in Storages BY <3>1, <3>2 DEF Entry
    <3>4. Sighted(e, seen, n) BY <2>1 DEF AllInv, GotInv
    <3> QED BY <3>2, <3>3, <3>4
  <2>6. e.part \in Parts /\ c.index \in Slots BY <2>5 DEF Entry
  <2>7. DaemonOK(u) /\ SmsInv(u, u.stray, seen, n) /\ u.default \in Storages /\ u.stray \in BOOLEAN
    BY <1>1 DEF AllInv, QueueInv, DaemonOK
  <2>8. CASE taken = u
    <3>1. w = [u EXCEPT !.stray = u.stray] BY <2>4, <2>7, <2>8
    <3>2. /\ DOMAIN w = DaemonFields
          /\ w.sms = u.sms /\ w.used = u.used /\ w.at = u.at /\ w.mem1 = u.mem1
          /\ w.held1 = u.held1 /\ w.kept = u.kept /\ w.pdu = u.pdu /\ w.held2 = u.held2 /\ w.crashed = u.crashed
          /\ w.mem2 = u.mem2 /\ w.default = u.default /\ w.loading = u.loading /\ w.stray = u.stray
      BY <2>7, <3>1 DEF DaemonOK, DaemonFields
    <3> QED BY <1>1, <2>7, <3>2, AllField DEF DaemonOK
  <2>9. CASE taken # u
    <3>1. PICK stray \in BOOLEAN : stray <=> u.stray \/ c.storage # u.default OBVIOUS
    <3>2. Lies(e.part, c.index, u.default, stray, seen, n) BY <2>5, <3>1 DEF Sighted, Lies
    <3>3. SmsInv(u, stray, seen, n) BY <2>7, <3>1, SmsStay
    <3>4. SmsInv(taken, stray, seen, n) /\ Files(u, taken)
      BY <2>2, <2>6, <2>7, <3>2, <3>3, TakeKeeps
    <3>5. DaemonOK(taken) /\ taken.stray = u.stray BY <2>7, <3>4 DEF Files, DaemonOK
    <3>6. /\ DOMAIN w = DaemonFields
          /\ w.sms = taken.sms /\ w.used = taken.used /\ w.at = taken.at /\ w.mem1 = taken.mem1
          /\ w.held1 = taken.held1 /\ w.kept = taken.kept /\ w.pdu = taken.pdu /\ w.held2 = taken.held2 /\ w.crashed = taken.crashed
          /\ w.mem2 = taken.mem2 /\ w.default = taken.default /\ w.loading = taken.loading
      BY <2>4, <3>5 DEF DaemonOK, DaemonFields
    <3>7. w.stray = stray BY <2>4, <2>7, <2>9, <3>1, <3>5 DEF DaemonOK, DaemonFields
    <3>8. SmsInv(w, w.stray, seen, n) BY <3>4, <3>6, <3>7, SmsStay
    <3> PICK v : v = [u EXCEPT !.stray = stray] OBVIOUS
    <3>9. /\ DOMAIN v = DaemonFields
          /\ v.sms = u.sms /\ v.used = u.used /\ v.at = u.at /\ v.mem1 = u.mem1
          /\ v.held1 = u.held1 /\ v.kept = u.kept /\ v.pdu = u.pdu /\ v.held2 = u.held2 /\ v.crashed = u.crashed
          /\ v.mem2 = u.mem2 /\ v.default = u.default /\ v.loading = u.loading /\ v.stray = stray
      BY <2>7 DEF DaemonOK, DaemonFields
    <3>10. AllInv(v, dev, Command, seen, n)
      <4>1. u.stray => v.stray BY <2>7, <3>1, <3>9
      <4> QED BY <1>1, <2>7, <3>9, <4>1, AllField DEF DaemonOK
    <3>11. Files(v, w) BY <3>4, <3>6, <3>7, <3>9 DEF Files
    <3> QED BY <3>8, <3>10, <3>11, AllFiles
  <2> QED BY <2>8, <2>9
<1> QED BY <1>2, <1>3

(* Deleting.                                                                *)
LEMMA DoneKeeps ==
  ASSUME NEW d, NEW dev, NEW seen, NEW n, AllInv(d, dev, Command, seen, n), NEW i \in Ids,
         NEW w, w = DeleteDone(d, i)
  PROVE  AllInv(w, dev, Command, seen, n)
<1>1. DaemonOK(d) /\ SmsOK(d.sms[i]) BY DEF AllInv, QueueInv, SmsInv
<1>2. PICK m : m = [d.sms[i] EXCEPT !.listed = FALSE, !.state = "unknown"] OBVIOUS
<1>3. w = [d EXCEPT !.sms[i] = m] BY <1>1, <1>2 DEF DeleteDone, DaemonOK, DaemonFields
<1>4. /\ DOMAIN m = SmsFields /\ m.listed = FALSE /\ m.user = d.sms[i].user /\ m.multi = d.sms[i].multi
      /\ m.storage = d.sms[i].storage /\ m.max = d.sms[i].max /\ m.ref = d.sms[i].ref
      /\ m.parts = d.sms[i].parts /\ m.submit = d.sms[i].submit /\ m.state = "unknown"
  BY <1>1, <1>2 DEF SmsOK, SmsFields, NewSms
<1>5. SmsOK(m) BY <1>1, <1>4 DEF SmsOK
<1>6. Changes(d.sms[i], m) BY <1>4 DEF Changes
<1> QED BY ONLY AllInv(d, dev, Command, seen, n), i \in Ids, <1>3, <1>5, <1>6, AllChange

LEMMA DeleteNextKeeps ==
  ASSUME NEW d, NEW dev, NEW c, NEW seen, NEW n, AllInv(d, dev, c, seen, n),
         c.op = "delete", Selected(c), NEW w, w = delete_next_part(d, c)
  PROVE  AllInv(w, dev, Command, seen, n)
<1> DEFINE parts == d.sms[c.sms].parts
           left == {k \in DOMAIN parts : k > c.seq /\ parts[k].index # 0}
<1>1. CommandOK(c) BY DEF AllInv, QueueInv
<1>2. CASE left # {}
  <2>1. PICK e : e = [c EXCEPT !.cmd = "cmgd", !.status = "sent", !.seq = Min(left), !.index = parts[Min(left)].index]
    OBVIOUS
  <2>2. w = Send(d, e) BY <1>2, <2>1 DEF delete_next_part
  <2>3. /\ DOMAIN e = CommandFields /\ e.cmd = "cmgd" /\ e.status = "sent" /\ e.op = "delete"
        /\ e.locks1 = c.locks1 /\ e.locks2 = c.locks2 /\ e.storage = c.storage /\ e.got = c.got
        /\ e.previous1 = c.previous1 /\ e.previous2 = c.previous2 /\ e.sms = c.sms
    BY <1>1, <2>1 DEF CommandOK, CommandFields, Command
  <2>4. CommandOK(e) /\ Runs(e) /\ Writes(d, e)
    BY <1>1, <2>3 DEF CommandOK, Runs, Writes, Reading, Writing, Reads
  <2>5. e.locks1 => e.cmd # "cpms" /\ e.storage = c.storage /\ Selected(c) BY <2>3
  <2>6. /\ e.cmd # "cpms" /\ e.got \subseteq c.got BY <2>3
  <2> QED BY ONLY AllInv(d, dev, c, seen, n), <2>2, <2>3, <2>4, <2>5, <2>6, AllSend
<1>3. CASE left = {}
  <2>1. PICK u : u = unlock_storages(d, c) OBVIOUS
  <2>2. AllInv(u, dev, Command, seen, n) BY <2>1, AllUnlock
  <2>3. w = IF c.failed THEN u ELSE DeleteDone(u, c.sms) BY <1>3, <2>1 DEF delete_next_part
  <2>4. c.sms \in Ids BY <1>1 DEF CommandOK
  <2> QED BY <2>2, <2>3, <2>4, DoneKeeps
<1> QED BY <1>2, <1>3

LEMMA DeletedKeeps ==
  ASSUME NEW d, NEW dev, NEW c, NEW seen, NEW n, AllInv(d, dev, c, seen, n), Runs(c), c.cmd = "cmgd",
         c.op = "delete",
         NEW w, w = delete_part_ready(d, c)
  PROVE  AllInv(w, dev, Command, seen, n)
<1>1. CommandOK(c) /\ DaemonOK(d) BY DEF AllInv, QueueInv
<1>2. PICK i \in Ids : i = c.sms BY <1>1 DEF CommandOK
<1>3. PICK old : old = d.sms[i] OBVIOUS
<1>4. SmsOK(old) BY <1>3 DEF AllInv, SmsInv
<1>5. PICK m : m = [old EXCEPT !.parts[c.seq].index = 0] OBVIOUS
<1>6. /\ DOMAIN m = SmsFields /\ m.listed = old.listed /\ m.user = old.user /\ m.multi = old.multi
      /\ m.storage = old.storage /\ m.max = old.max /\ m.ref = old.ref /\ m.state = old.state
      /\ m.submit = old.submit
      /\ DOMAIN m.parts = DOMAIN old.parts
      /\ \A k \in DOMAIN m.parts : m.parts[k] = IF k = c.seq THEN [old.parts[k] EXCEPT !.index = 0] ELSE old.parts[k]
  BY <1>4, <1>5 DEF SmsOK, SmsFields, NewSms
<1>7. \A k \in DOMAIN m.parts : /\ m.parts[k] \in [index : Slots \union {0}, origin : Nat]
                                /\ m.parts[k].origin = old.parts[k].origin
                                /\ m.parts[k].index \in {0, old.parts[k].index}
  <2> TAKE k \in DOMAIN m.parts
  <2>1. old.parts[k] \in [index : Slots \union {0}, origin : Nat] BY <1>4, <1>6 DEF SmsOK
  <2> QED BY <1>6, <2>1
<1>8. SmsOK(m)
  <2>1. m.listed /\ m.multi => StateOK(m) BY <1>4, <1>6 DEF SmsOK, StateOK, Whole
  <2>2. old.parts # <<>> => m.parts # <<>> BY <1>6
  <2> QED BY <1>4, <1>6, <1>7, <2>1, <2>2 DEF SmsOK
<1>9. Changes(old, m) BY <1>6, <1>7 DEF Changes
<1>10. PICK v : v = [d EXCEPT !.sms[i] = m] OBVIOUS
<1>11. AllInv(v, dev, c, seen, n)
  BY ONLY AllInv(d, dev, c, seen, n), i \in Ids, <1>3, <1>8, <1>9, <1>10, AllChange
<1>12. [d EXCEPT !.sms[c.sms].parts[c.seq].index = 0] = v
  BY <1>1, <1>2, <1>3, <1>5, <1>10 DEF DaemonOK, DaemonFields
<1>13. PICK e : e = [c EXCEPT !.failed = @ \/ c.status # "ok"] OBVIOUS
<1>14. w = delete_next_part(v, e) BY <1>12, <1>13 DEF delete_part_ready
<1>15. /\ DOMAIN e = CommandFields /\ e.cmd = c.cmd /\ e.status = c.status /\ e.op = c.op
       /\ e.locks1 = c.locks1 /\ e.locks2 = c.locks2 /\ e.storage = c.storage /\ e.got = c.got
       /\ e.previous1 = c.previous1 /\ e.previous2 = c.previous2 /\ e.sms = c.sms /\ e.mem1 = c.mem1
       /\ e.index = c.index
  BY <1>1, <1>13 DEF CommandOK, CommandFields, Command
<1>16. CommandOK(e) /\ Writes(v, e) BY <1>1, <1>15 DEF CommandOK, Writes, Reading, Writing, Reads
<1>17. AllInv(v, dev, e, seen, n) BY <1>11, <1>15, <1>16, AllAlike
<1>18. Selected(e) BY <1>1, <1>15 DEF CommandOK, Selected, Reading
<1> QED BY <1>14, <1>15, <1>17, <1>18, DeleteNextKeeps

(* Storing and sending.                                                      *)
LEMMA NextPartKeeps ==
  ASSUME NEW d, NEW dev, NEW c, NEW seen, NEW n, AllInv(d, dev, c, seen, n), c.op \in Writing,
         NEW cmd, NEW k, c.op = "store" => cmd = "cmgw" /\ k \in 1 .. d.sms[c.sms].max,
         c.op = "send" => cmd \in {"cmgs", "cmss"},
         NEW w, w = NextPart(d, c, k, cmd)
  PROVE  AllInv(w, dev, Command, seen, n)
<1>1. CommandOK(c) /\ Writes(d, c) BY DEF AllInv, QueueInv
<1>2. PICK e : e = [c EXCEPT !.cmd = cmd, !.status = "sent", !.seq = k,
                            !.index = d.sms[c.sms].parts[k].index]
  OBVIOUS
<1>3. w = Send(d, e) BY <1>2 DEF NextPart
<1>4. /\ DOMAIN e = CommandFields /\ e.cmd = cmd /\ e.status = "sent" /\ e.op = c.op /\ e.seq = k
      /\ e.locks1 = c.locks1 /\ e.locks2 = c.locks2 /\ e.storage = c.storage /\ e.got = c.got
      /\ e.previous1 = c.previous1 /\ e.previous2 = c.previous2 /\ e.sms = c.sms
  BY <1>1, <1>2 DEF CommandOK, CommandFields, Command
<1>5. CommandOK(e) /\ Runs(e) /\ ~e.locks1 /\ e.cmd # "cpms"
  BY <1>1, <1>4 DEF CommandOK, Runs, Reading, Writing, Reads
<1>6. Writes(d, e) BY <1>1, <1>4 DEF Writes, Writing
<1>7. e.got \subseteq c.got BY <1>4
<1> QED BY ONLY AllInv(d, dev, c, seen, n), <1>3, <1>4, <1>5, <1>6, <1>7, AllSend

(* Only the state changes, and of what a user wrote the storage.             *)
LEMMA WrittenKeeps ==
  ASSUME NEW d, NEW dev, NEW seen, NEW n, AllInv(d, dev, Command, seen, n), NEW i \in Ids,
         NEW m, DOMAIN m = SmsFields, m.storage \in Maybe, m.storage = d.sms[i].storage \/ d.sms[i].user,
         m.listed = d.sms[i].listed /\ m.user = d.sms[i].user /\ m.multi = d.sms[i].multi
         /\ m.ref = d.sms[i].ref /\ m.max = d.sms[i].max /\ m.parts = d.sms[i].parts
         /\ m.submit = d.sms[i].submit,
         \/ m.state = d.sms[i].state
         \/ {m.state, d.sms[i].state} \intersect {"receiving", "received"} = {},
         NEW w, w = [d EXCEPT !.sms[i] = m]
  PROVE  AllInv(w, dev, Command, seen, n)
<1>1. SmsOK(d.sms[i]) BY DEF AllInv, SmsInv
<1>2. SmsOK(m)
  <2>1. m.listed /\ m.multi => StateOK(m) BY <1>1 DEF SmsOK, StateOK, Whole
  <2>2. m.user => m.submit /\ m.state \notin {"receiving", "received"} BY <1>1 DEF SmsOK
  <2>3. m.listed /\ ~m.user => m.parts # <<>> /\ m.storage \in Storages BY <1>1 DEF SmsOK
  <2> QED BY <1>1, <2>1, <2>2, <2>3 DEF SmsOK
<1>3. Changes(d.sms[i], m) BY DEF Changes
<1> QED BY ONLY AllInv(d, dev, Command, seen, n), i \in Ids, w = [d EXCEPT !.sms[i] = m], <1>2, <1>3, AllChange

LEMMA StoreNextKeeps ==
  ASSUME NEW d, NEW dev, NEW c, NEW seen, NEW n, AllInv(d, dev, c, seen, n), c.op = "store",
         NEW w, w = sms_store_next_part(d, c)
  PROVE  AllInv(w, dev, Command, seen, n)
<1>1. CommandOK(c) /\ Writes(d, c) BY DEF AllInv, QueueInv
<1>2. c.sms \in Ids /\ d.sms[c.sms].user /\ c.storage \in Storages BY <1>1 DEF Writes, Writing
<1>3. CASE c.seq < d.sms[c.sms].max
  <2>1. d.sms[c.sms].max \in Nat BY <1>2 DEF AllInv, SmsInv, SmsOK
  <2>2. c.seq \in Nat BY <1>1, <2>1 DEF Writes
  <2>3. c.seq + 1 \in 1 .. d.sms[c.sms].max BY <1>3, <2>1, <2>2
  <2>4. w = NextPart(d, c, c.seq + 1, "cmgw") BY <1>3 DEF sms_store_next_part
  <2> QED BY <2>3, <2>4, NextPartKeeps DEF Writing
<1>4. CASE ~(c.seq < d.sms[c.sms].max)
  <2>1. PICK u : u = unlock_storages(d, c) OBVIOUS
  <2>2. AllInv(u, dev, Command, seen, n) /\ u.sms = d.sms BY <2>1, AllUnlock
  <2>3. DaemonOK(u) /\ SmsOK(u.sms[c.sms]) BY <1>2, <2>2 DEF AllInv, QueueInv, SmsInv
  <2>4. PICK i \in Ids : i = c.sms BY <1>2
  <2>5. PICK m : m = [u.sms[i] EXCEPT !.storage = c.storage,
                                     !.state = IF @ = "unknown" THEN "stored" ELSE @] OBVIOUS
  <2>6. w = [u EXCEPT !.sms[i] = m]
    BY <1>4, <2>1, <2>3, <2>4, <2>5 DEF sms_store_next_part, DaemonOK, DaemonFields
  <2>7. /\ DOMAIN m = SmsFields /\ m.storage = c.storage
        /\ m.listed = u.sms[i].listed /\ m.user = u.sms[i].user /\ m.multi = u.sms[i].multi
        /\ m.ref = u.sms[i].ref /\ m.max = u.sms[i].max /\ m.parts = u.sms[i].parts
        /\ m.submit = u.sms[i].submit
        /\ m.state = u.sms[i].state \/ {m.state, u.sms[i].state} \intersect {"receiving", "received"} = {}
    BY <2>3, <2>4, <2>5 DEF SmsOK, SmsFields, NewSms
  <2>8. m.storage \in Maybe /\ u.sms[i].user BY <1>2, <2>2, <2>4, <2>7 DEF Maybe
  <2> QED BY ONLY <2>2, i \in Ids, <2>6, <2>7, <2>8, WrittenKeeps
<1> QED BY <1>3, <1>4

LEMMA StoredKeeps ==
  ASSUME NEW d, NEW dev, NEW c, NEW seen, NEW n, AllInv(d, dev, c, seen, n), Runs(c),
         c.op = "store", c.cmd = "cmgw",
         NEW w, w = store_msg_data_ready(d, c)
  PROVE  AllInv(w, dev, Command, seen, n)
<1>1. CommandOK(c) /\ Writes(d, c) /\ DaemonOK(d) BY DEF AllInv, QueueInv
<1>2. CASE c.status # "ok" BY <1>2, AllUnlock DEF store_msg_data_ready
<1>3. CASE c.status = "ok"
  <2>1. PICK e \in c.got : e = CHOOSE x \in c.got : TRUE BY <1>3 DEF Runs
  <2>2. e.index \in Slots BY <1>1 DEF CommandOK, Entry
  <2>3. PICK i \in Ids : i = c.sms BY <1>1 DEF Writes, Writing
  <2>4. PICK k : k = c.seq OBVIOUS
  <2>5. PICK old : old = d.sms[i] OBVIOUS
  <2>6. SmsOK(old) /\ old.user /\ DOMAIN old.parts = 1 .. old.max /\ k \in DOMAIN old.parts
    BY <1>1, <2>3, <2>4, <2>5 DEF AllInv, SmsInv, Writes, Writing
  <2>7. PICK m : m = [old EXCEPT !.parts[k].index = e.index] OBVIOUS
  <2>8. /\ DOMAIN m = SmsFields /\ m.listed = old.listed /\ m.user = old.user /\ m.multi = old.multi
        /\ m.storage = old.storage /\ m.max = old.max /\ m.ref = old.ref /\ m.state = old.state
        /\ m.submit = old.submit
        /\ DOMAIN m.parts = DOMAIN old.parts
        /\ \A l \in DOMAIN m.parts :
             m.parts[l] = IF l = k THEN [old.parts[l] EXCEPT !.index = e.index] ELSE old.parts[l]
    BY <2>6, <2>7 DEF SmsOK, SmsFields, NewSms
  <2>9. \A l \in DOMAIN m.parts : /\ m.parts[l] \in [index : Slots \union {0}, origin : Nat]
                                  /\ m.parts[l].origin = old.parts[l].origin
    <3> TAKE l \in DOMAIN m.parts
    <3>1. old.parts[l] \in [index : Slots \union {0}, origin : Nat] BY <2>6, <2>8 DEF SmsOK
    <3> QED BY <2>2, <2>8, <3>1
  <2>10. SmsOK(m)
    <3>1. m.listed /\ m.multi => StateOK(m) BY <2>6, <2>8 DEF SmsOK, StateOK, Whole
    <3>2. old.parts # <<>> => m.parts # <<>> BY <2>8
    <3> QED BY <2>6, <2>8, <2>9, <3>1, <3>2 DEF SmsOK
  <2>11. Changes(old, m) BY <2>6, <2>8 DEF Changes
  <2>12. PICK v : v = [d EXCEPT !.sms[i] = m] OBVIOUS
  <2>13. AllInv(v, dev, c, seen, n)
    BY ONLY AllInv(d, dev, c, seen, n), i \in Ids, <2>5, <2>10, <2>11, <2>12, AllChange
  <2>14. DaemonOK(v) BY <2>13 DEF AllInv, QueueInv
  <2>15. PICK b \in BOOLEAN : b <=> v.stray \/ e.storage # c.storage OBVIOUS
  <2>16. PICK u : u = [v EXCEPT !.stray = b] OBVIOUS
  <2>17. /\ DOMAIN u = DaemonFields
         /\ u.sms = v.sms /\ u.used = v.used /\ u.at = v.at /\ u.mem1 = v.mem1
         /\ u.held1 = v.held1 /\ u.kept = v.kept /\ u.pdu = v.pdu /\ u.held2 = v.held2 /\ u.crashed = v.crashed
         /\ u.mem2 = v.mem2 /\ u.default = v.default /\ u.loading = v.loading /\ u.stray = b
    BY <2>14, <2>16 DEF DaemonOK, DaemonFields
  <2>18. AllInv(u, dev, c, seen, n)
    <3>1. v.stray => u.stray BY <2>15, <2>17
    <3> QED BY <2>13, <2>14, <2>17, <3>1, AllField DEF DaemonOK
  <2>19. [d EXCEPT !.sms[c.sms].parts[c.seq].index = e.index, !.stray = @ \/ e.storage # c.storage] = u
    <3>1. v.stray = d.stray /\ DOMAIN v = DOMAIN d BY <1>1, <2>12 DEF DaemonOK, DaemonFields
    <3>2. (d.stray \/ e.storage # c.storage) = b BY <1>1, <2>15, <3>1 DEF DaemonOK
    <3> QED BY <1>1, <2>3, <2>4, <2>5, <2>7, <2>12, <2>16, <3>2 DEF DaemonOK, DaemonFields
  <2>20. w = sms_store_next_part(u, c) BY <1>3, <2>1, <2>19 DEF store_msg_data_ready
  <2> QED BY <2>18, <2>20, StoreNextKeeps
<1> QED BY <1>2, <1>3

LEMMA SendNextKeeps ==
  ASSUME NEW d, NEW dev, NEW c, NEW seen, NEW n, AllInv(d, dev, c, seen, n), c.op = "send",
         NEW w, w = sms_send_next_part(d, c)
  PROVE  AllInv(w, dev, Command, seen, n)
<1>1. CommandOK(c) /\ Writes(d, c) BY DEF AllInv, QueueInv
<1>2. c.sms \in Ids BY <1>1 DEF Writes, Writing
<1> PICK left : left = {k \in DOMAIN d.sms[c.sms].parts : k > c.seq} OBVIOUS
<1>3. CASE left # {}
  <2>1. PICK cmd : cmd = IF c.storage = None THEN "cmgs" ELSE "cmss" OBVIOUS
  <2>2. w = NextPart(d, c, Min(left), cmd) BY <1>3, <2>1 DEF sms_send_next_part
  <2> QED BY <2>1, <2>2, NextPartKeeps DEF Writing
<1>4. CASE left = {}
  <2>1. PICK u : u = unlock_storages(d, c) OBVIOUS
  <2>2. AllInv(u, dev, Command, seen, n) /\ u.sms = d.sms BY <2>1, AllUnlock
  <2>3. DaemonOK(u) /\ SmsOK(u.sms[c.sms]) BY <1>2, <2>2 DEF AllInv, QueueInv, SmsInv
  <2>4. PICK i \in Ids : i = c.sms BY <1>2
  <2>5. PICK m : m = [u.sms[i] EXCEPT !.state = IF @ \in {"unknown", "stored"} THEN "sent" ELSE @] OBVIOUS
  <2>6. w = [u EXCEPT !.sms[i] = m]
    BY <1>4, <2>1, <2>3, <2>4, <2>5 DEF sms_send_next_part, DaemonOK, DaemonFields
  <2>7. /\ DOMAIN m = SmsFields /\ m.storage = u.sms[i].storage
        /\ m.listed = u.sms[i].listed /\ m.user = u.sms[i].user /\ m.multi = u.sms[i].multi
        /\ m.ref = u.sms[i].ref /\ m.max = u.sms[i].max /\ m.parts = u.sms[i].parts
        /\ m.submit = u.sms[i].submit
        /\ m.state = u.sms[i].state \/ {m.state, u.sms[i].state} \intersect {"receiving", "received"} = {}
    BY <2>3, <2>4, <2>5 DEF SmsOK, SmsFields, NewSms
  <2>8. m.storage \in Maybe BY <2>3, <2>4, <2>7 DEF SmsOK
  <2> QED BY ONLY <2>2, i \in Ids, <2>6, <2>7, <2>8, WrittenKeeps
<1> QED BY <1>3, <1>4

LEMMA SentKeeps ==
  ASSUME NEW d, NEW dev, NEW c, NEW seen, NEW n, AllInv(d, dev, c, seen, n), c.op = "send",
         c.cmd \in {"cmss", "cmgs"}, NEW w, w = send_ready(d, c)
  PROVE  AllInv(w, dev, Command, seen, n)
<1>1. CASE c.status = "ok" BY <1>1, SendNextKeeps DEF send_ready
<1>2. CASE c.status # "ok" /\ c.cmd = "cmss" /\ c.status = "error"
  <2>1. CommandOK(c) /\ Writes(d, c) BY DEF AllInv, QueueInv
  <2>2. PICK e : e = [c EXCEPT !.storage = None, !.seq = @ - 1] OBVIOUS
  <2>3. /\ DOMAIN e = CommandFields /\ e.cmd = c.cmd /\ e.status = c.status /\ e.op = "send" /\ e.storage = None
        /\ e.locks1 = c.locks1 /\ e.locks2 = c.locks2 /\ e.got = c.got
        /\ e.previous1 = c.previous1 /\ e.previous2 = c.previous2 /\ e.sms = c.sms
    BY <2>1, <2>2 DEF CommandOK, CommandFields, Command
  <2>4. CommandOK(e) /\ ~e.locks1 BY <2>1, <2>3 DEF CommandOK, Reading, Writing, Reads, Maybe
  <2>5. Writes(d, e) BY <2>1, <2>3 DEF Writes
  <2>6. AllInv(d, dev, e, seen, n) BY <2>3, <2>4, <2>5, AllAlike
  <2>7. w = sms_send_next_part(d, e) BY <1>2, <2>2 DEF send_ready
  <2> QED BY <2>3, <2>6, <2>7, SendNextKeeps
<1>3. CASE c.status # "ok" /\ ~(c.cmd = "cmss" /\ c.status = "error") BY <1>3, AllUnlock DEF send_ready
<1> QED BY <1>1, <1>2, <1>3

(* Any answer.                                                               *)
LEMMA LockedKeeps ==
  ASSUME NEW d, NEW dev, NEW c, NEW seen, NEW n, AllInv(d, dev, c, seen, n), Runs(c),
         c.op # "default", c.cmd = "cpms", c.status = "ok", NEW w, w = Locked(d, c)
  PROVE  AllInv(w, dev, Command, seen, n)
<1>1. CommandOK(c) BY DEF AllInv, QueueInv
<1>2. c.op \in {"indication", "list", "delete", "store", "send"}
  BY <1>1 DEF CommandOK, Runs, Reading, Writing
<1>3. CASE c.op \in {"indication", "list"}
  <2>1. PICK cmd : cmd = IF c.op = "indication" THEN "cmgr" ELSE "cmgl" OBVIOUS
  <2>2. PICK e : e = [c EXCEPT !.cmd = cmd, !.status = "sent"] OBVIOUS
  <2>3. w = Send(d, e) BY <1>3, <2>1, <2>2 DEF Locked
  <2>4. /\ DOMAIN e = CommandFields /\ e.cmd = cmd /\ e.status = "sent" /\ e.op = c.op
        /\ e.locks1 = c.locks1 /\ e.locks2 = c.locks2 /\ e.storage = c.storage /\ e.got = {}
        /\ e.previous1 = c.previous1 /\ e.previous2 = c.previous2 /\ e.sms = c.sms
    BY <1>1, <2>2 DEF CommandOK, CommandFields, Command
  <2>5. CommandOK(e) /\ Runs(e)
    BY <1>1, <1>3, <2>1, <2>4, FS_EmptySet DEF CommandOK, Runs, Reading, Writing, Reads
  <2>6. Writes(d, e) BY <1>3, <2>4 DEF Writes, Writing
  <2>7. e.cmd # "cpms" /\ Selected(c) /\ e.got \subseteq c.got
    BY <1>1, <1>3, <2>1, <2>4 DEF CommandOK, Selected, Reading
  <2> QED BY ONLY AllInv(d, dev, c, seen, n), <2>3, <2>4, <2>5, <2>6, <2>7, AllSend
<1>4. CASE c.op = "delete"
  <2>1. Selected(c) BY <1>1, <1>4 DEF CommandOK, Selected, Reading
  <2> QED BY <1>4, <2>1, DeleteNextKeeps DEF Locked
<1>5. CASE c.op = "store" BY <1>5, StoreNextKeeps DEF Locked
<1>6. CASE c.op = "send" BY <1>6, SendNextKeeps DEF Locked
<1> QED BY <1>2, <1>3, <1>4, <1>5, <1>6

LEMMA NotLockedKeeps ==
  ASSUME NEW d, NEW dev, NEW c, NEW seen, NEW n, AllInv(d, dev, c, seen, n), c.cmd = "cpms",
         NEW w, w = NotLocked(d, c)
  PROVE  AllInv(w, dev, Command, seen, n)
<1> PICK f : f = lock_storages_failed(d, c) OBVIOUS
<1>1. AllInv(f, dev, Command, seen, n) BY AllFail
<1>2. w = IF c.op = "list" THEN LoadNext(f) ELSE f BY DEF NotLocked
<1> QED BY <1>1, <1>2, LoadKeeps

LEMMA DefaultKeeps ==
  ASSUME NEW d, NEW dev, NEW c, NEW seen, NEW n, AllInv(d, dev, c, seen, n), c.op = "default",
         NEW w, w = set_default_storage_ready(d, c)
  PROVE  AllInv(w, dev, Command, seen, n)
<1>1. CommandOK(c) /\ DaemonOK(d) BY DEF AllInv, QueueInv
<1>2. c.locks1 = FALSE /\ c.locks2 = FALSE /\ c.storage \in Storages
  BY <1>1 DEF CommandOK, Reading, Writing
<1>3. AllInv(d, dev, Command, seen, n)
  <2>1. Command.locks1 = FALSE /\ Command.locks2 = FALSE /\ Command.got = {} BY DEF Command
  <2> QED BY <1>2, <2>1, CommandIsOK, AllAlike
<1>4. CASE c.status # "ok" BY <1>3, <1>4 DEF set_default_storage_ready
<1>5. CASE c.status = "ok"
  <2>1. w = [d EXCEPT !.default = c.storage] BY <1>5 DEF set_default_storage_ready
  <2>2. /\ DOMAIN w = DaemonFields
        /\ w.sms = d.sms /\ w.used = d.used /\ w.at = d.at /\ w.mem1 = d.mem1
        /\ w.held1 = d.held1 /\ w.kept = d.kept /\ w.pdu = d.pdu /\ w.held2 = d.held2 /\ w.crashed = d.crashed
        /\ w.mem2 = d.mem2 /\ w.default = c.storage /\ w.loading = d.loading /\ w.stray = d.stray
    BY <1>1, <2>1 DEF DaemonOK, DaemonFields
  <2> QED BY <1>1, <1>2, <1>3, <2>2, AllField DEF DaemonOK
<1> QED BY <1>4, <1>5

LEMMA ReadyKeeps ==
  ASSUME NEW d, NEW dev, NEW c, NEW seen, NEW n, AllInv(d, dev, c, seen, n), Runs(c),
         NEW w, w = Ready(d, c)
  PROVE  AllInv(w, dev, Command, seen, n)
<1>1. CommandOK(c) /\ Writes(d, c) BY DEF AllInv, QueueInv
<1>2. CASE c.op = "default"
  <2>1. w = set_default_storage_ready(d, c) BY <1>1, <1>2 DEF Ready, CommandOK
  <2> QED BY <1>2, <2>1, DefaultKeeps
<1>3. CASE c.op # "default" /\ c.cmd = "cpms"
  <2>1. w = IF c.status = "ok" THEN Locked(d, c) ELSE NotLocked(d, c) BY <1>3 DEF Ready
  <2> QED BY <1>3, <2>1, LockedKeeps, NotLockedKeeps
<1>4. CASE c.op # "default" /\ c.cmd = "cmgr"
  <2>1. w = sms_part_ready(d, c) BY <1>4 DEF Ready
  <2> QED BY <1>4, <2>1, PartKeeps
<1>5. CASE c.op # "default" /\ c.cmd = "cmgl"
  <2>1. w = sms_part_list_ready(d, c) BY <1>5 DEF Ready
  <2>2. c.op \in Reading BY <1>1, <1>5 DEF CommandOK, Reads
  <2> QED BY <2>1, <2>2, ListKeeps
<1>6. CASE c.op # "default" /\ c.cmd = "cmgd"
  <2>1. w = delete_part_ready(d, c) BY <1>6 DEF Ready
  <2>2. c.op = "delete" BY <1>6 DEF Runs
  <2> QED BY <1>6, <2>1, <2>2, DeletedKeeps
<1>7. CASE c.op # "default" /\ c.cmd = "cmgw"
  <2>1. w = store_msg_data_ready(d, c) BY <1>7 DEF Ready
  <2>2. c.op = "store" BY <1>1, <1>7 DEF CommandOK
  <2> QED BY <1>7, <2>1, <2>2, StoredKeeps
<1>8. CASE c.op = "send" /\ c.cmd \in {"cmss", "cmgs"}
  <2>1. w = send_ready(d, c) BY <1>8 DEF Ready
  <2> QED BY <1>8, <2>1, SentKeeps
<1>9. \/ c.op = "default" \/ c.cmd \in {"cpms", "cmgr", "cmgl", "cmgd", "cmgw"}
      \/ c.op = "send" /\ c.cmd \in {"cmss", "cmgs"}
  BY <1>1 DEF CommandOK, Writes, Runs, Reading, Writing, Reads
<1> QED BY <1>2, <1>3, <1>4, <1>5, <1>6, <1>7, <1>8, <1>9

----------------------------------------------------------------------------
(* The modem.  A command has got its answer, and the modem has done it.      *)
Answers(c, e) ==
  /\ DOMAIN e = CommandFields /\ e.op = c.op /\ e.cmd = c.cmd /\ e.sms = c.sms /\ e.seq = c.seq
  /\ e.index = c.index /\ e.storage = c.storage /\ e.locks1 = c.locks1 /\ e.locks2 = c.locks2
  /\ e.mem1 = c.mem1 /\ e.mem2 = c.mem2 /\ e.mem3 = c.mem3
  /\ e.previous1 = c.previous1 /\ e.previous2 = c.previous2 /\ e.failed = c.failed

LEMMA AnswerKeeps ==
  ASSUME NEW d, NEW dev, NEW seen, NEW n, AllInv(d, dev, Command, seen, n), d.at # <<>>,
         NEW c, c = d.at[1], c.status = "sent",
         NEW e, Answers(c, e), CommandOK(e), Runs(e), \A x \in e.got : Sighted(x, seen, n),
         NEW new, DeviceInv(new, seen, n),
         \/ new.mem1 = dev.mem1 /\ (Selected(e) => Selected(c))
         \/ new.mem1 = c.mem1 /\ c.cmd = "cpms",
         NEW w, w = [d EXCEPT !.at[1] = e]
  PROVE  AllInv(w, new, Command, seen, n)
<1> PICK at : at = d.at OBVIOUS
<1> PICK t : t = [at EXCEPT ![1] = e] OBVIOUS
<1>1. QueueInv(d, dev.mem1, Command) /\ DaemonOK(d) /\ IsSeq(at) BY DEF AllInv, QueueInv, DaemonOK
<1>2. /\ DOMAIN w = DaemonFields /\ w.at = t /\ w.sms = d.sms /\ w.used = d.used /\ w.mem1 = d.mem1
      /\ w.held1 = d.held1 /\ w.kept = d.kept /\ w.pdu = d.pdu /\ w.held2 = d.held2 /\ w.stray = d.stray /\ w.mem2 = d.mem2
      /\ w.default = d.default /\ w.loading = d.loading /\ w.crashed = d.crashed
  BY <1>1 DEF DaemonOK, DaemonFields
<1>3. /\ IsSeq(t) /\ DOMAIN t = DOMAIN at /\ 1 \in DOMAIN at
      /\ \A m \in DOMAIN at : m \in Nat \ {0} /\ t[m] = IF m = 1 THEN e ELSE at[m]
  <2>1. at # <<>> OBVIOUS
  <2> HIDE DEF IsSeq
  <2> QED BY ONLY <1>1, <2>1, t = [at EXCEPT ![1] = e], SeqFirst
<1>4. DaemonOK(w) BY <1>1, <1>2, <1>3 DEF DaemonOK
<1>5. \A m \in DOMAIN t : CommandOK(t[m]) /\ Runs(t[m]) /\ (m # 1 => t[m].status = "sent")
  BY <1>1, <1>3 DEF QueueInv
<1>6. \A m \in DOMAIN t : /\ t[m].op = at[m].op /\ t[m].cmd = at[m].cmd /\ t[m].mem1 = at[m].mem1
                          /\ t[m].locks1 = at[m].locks1 /\ t[m].locks2 = at[m].locks2
                          /\ t[m].storage = at[m].storage /\ t[m].sms = at[m].sms /\ t[m].seq = at[m].seq
  BY <1>3 DEF Answers
<1>7. \A m \in DOMAIN t : Writes(w, t[m])
  <2> TAKE m \in DOMAIN t
  <2>1. Writes(d, at[m]) BY <1>1, <1>3 DEF QueueInv
  <2> QED BY <1>2, <1>6, <2>1 DEF Writes
<1>8. Alone(t, Command, "locks1", Owned(w)) /\ Alone(t, Command, "locks2", w.held2)
  <2>1. Owned(w) = Owned(d) BY <1>2 DEF Owned
  <2>2. Alone(at, Command, "locks1", Owned(w)) /\ Alone(at, Command, "locks2", w.held2)
    BY <1>1, <1>2, <2>1 DEF QueueInv
  <2>3. \A m \in DOMAIN t : t[m]["locks1"] = at[m]["locks1"] /\ t[m]["locks2"] = at[m]["locks2"] BY <1>6
  <2>4. ASSUME NEW lock, NEW held, Alone(at, Command, lock, held), \A m \in DOMAIN at : t[m][lock] = at[m][lock]
        PROVE  Alone(t, Command, lock, held)
    BY <1>3, <2>4 DEF Alone
  <2> QED BY <1>3, <2>2, <2>3, <2>4
<1>9. Selects(w, new.mem1, Command)
  <2>1. Selects(d, dev.mem1, Command) BY <1>1 DEF QueueInv
  <2>2. \A m \in DOMAIN t : Means(w, t[m])
    <3> TAKE m \in DOMAIN t
    <3>1. Means(d, at[m]) BY <1>3, <2>1 DEF Selects
    <3> QED BY <1>2, <1>6, <3>1 DEF Means
  <2>3. \A m, k \in DOMAIN t :
          t[m].locks1 /\ t[k].cmd = "cpms" /\ (m <= k \/ t[m].cmd # "cpms") => t[k].mem1 = w.mem1
    BY <1>2, <1>3, <1>6, <2>1 DEF Selects
  <2>4. \A m \in DOMAIN t : Selected(t[m]) => new.mem1 = w.mem1
    <3> TAKE m \in DOMAIN t
    <3> HAVE Selected(t[m])
    <3>1. CASE new.mem1 = dev.mem1 /\ (Selected(e) => Selected(c))
      <4>1. Selected(at[m]) BY <1>3, <3>1
      <4> QED BY <1>2, <1>3, <2>1, <3>1, <4>1 DEF Selects
    <3>2. CASE new.mem1 = c.mem1 /\ c.cmd = "cpms"
      <4>1. at[m].locks1 /\ at[1].cmd = "cpms" /\ (m <= 1 \/ at[m].cmd # "cpms")
        <5>1. at[m].locks1 /\ at[1].cmd = "cpms" BY <1>6, <3>2 DEF Selected
        <5>2. m # 1 => at[m].cmd # "cpms" BY <1>5, <1>6 DEF Selected
        <5> QED BY <1>3, <5>1, <5>2
      <4>2. at[1].mem1 = d.mem1 BY <1>3, <2>1, <4>1 DEF Selects
      <4> QED BY <1>2, <3>2, <4>2
    <3> QED BY <3>1, <3>2
  <2> QED BY <1>2, <2>2, <2>3, <2>4, CommandIsOK DEF Selects, Means, Selected
<1>10. QueueInv(w, new.mem1, Command)
  BY <1>2, <1>4, <1>5, <1>7, <1>8, <1>9, CommandIsOK DEF QueueInv
<1>11. GotInv(w.at, Command, seen, n)
  <2>1. GotInv(at, Command, seen, n) BY DEF AllInv
  <2> QED BY <1>2, <1>3, <2>1 DEF GotInv
<1>12. SmsInv(w, w.stray, seen, n) BY <1>2, SmsStay DEF AllInv
<1> QED BY <1>10, <1>11, <1>12 DEF AllInv

(* What is stored changes, in one place.                                      *)
LEMMA StoredOne ==
  ASSUME NEW dev, NEW seen, NEW n, DeviceInv(dev, seen, n), NEW s \in Storages, NEW i, NEW part \in Parts,
         i \in Slots => Sighted([index |-> i, storage |-> s, part |-> part], seen, n),
         NEW new, new = [dev EXCEPT !.stored[s][i] = part]
  PROVE  DeviceInv(new, seen, n) /\ new.mem1 = dev.mem1
<1>1. /\ DOMAIN new = {"mem1", "mem2", "mem3", "stored"}
      /\ new.mem1 = dev.mem1 /\ new.mem2 = dev.mem2 /\ new.mem3 = dev.mem3
      /\ new.stored = [dev.stored EXCEPT ![s] = [dev.stored[s] EXCEPT ![i] = part]]
  BY DEF DeviceInv
<1>2. dev.stored \in [Storages -> [Slots -> Parts]] BY DEF DeviceInv
<1>3. [dev.stored[s] EXCEPT ![i] = part] \in [Slots -> Parts] BY <1>2
<1>4. new.stored \in [Storages -> [Slots -> Parts]] BY <1>1, <1>2, <1>3
<1>5. \A r \in Storages, j \in Slots :
        new.stored[r][j] = IF r = s /\ j = i THEN part ELSE dev.stored[r][j]
  BY <1>1, <1>2
<1>6. \A r \in Storages, j \in Slots :
        Sighted([index |-> j, storage |-> r, part |-> new.stored[r][j]], seen, n)
  <2> TAKE r \in Storages, j \in Slots
  <2>1. CASE r = s /\ j = i BY <1>5, <2>1
  <2>2. CASE ~(r = s /\ j = i)
    <3>1. new.stored[r][j] = dev.stored[r][j] BY <1>5, <2>2
    <3> QED BY <3>1 DEF DeviceInv
  <2> QED BY <2>1, <2>2
<1> QED BY <1>1, <1>4, <1>6 DEF DeviceInv

Suits(c, got, seen, n) ==
  /\ IsFiniteSet(got) /\ got \subseteq Entry /\ \A x \in got : Sighted(x, seen, n)
  /\ c.cmd = "cpms" => got = {}
  /\ c.op \in Reading => \A x \in got : x.storage = c.storage /\ (c.cmd = "cmgr" => x.index = c.index)
  /\ c.cmd = "cmgw" => got # {}

LEMMA SeenEntries ==
  ASSUME NEW dev, NEW seen, NEW n, DeviceInv(dev, seen, n), NEW s \in Storages, NEW indexes \in SUBSET Slots,
         NEW got, got = {[index |-> i, storage |-> s, part |-> dev.stored[s][i]] : i \in indexes}
  PROVE  /\ IsFiniteSet(got) /\ got \subseteq Entry /\ \A x \in got : x.storage = s /\ x.index \in indexes
         /\ \A x \in got : Sighted(x, seen, n)
<1>1. IsFiniteSet(indexes) BY MultipartSmsAssumption, FS_Subset
<1>2. IsFiniteSet(got)
  <2> PICK f : f = [i \in indexes |-> [index |-> i, storage |-> s, part |-> dev.stored[s][i]]] OBVIOUS
  <2>1. f \in [indexes -> got] /\ \A x \in got : \E i \in indexes : f[i] = x OBVIOUS
  <2>2. f \in Surjection(indexes, got) BY <2>1 DEF Surjection
  <2> QED BY <1>1, <2>2, FS_Surjection
<1>3. got \subseteq Entry
  <2>1. \A i \in indexes : dev.stored[s][i] \in Parts BY DEF DeviceInv
  <2> QED BY <2>1 DEF Entry
<1>4. \A x \in got : x.storage = s /\ x.index \in indexes OBVIOUS
<1>5. \A x \in got : Sighted(x, seen, n) BY DEF DeviceInv
<1> QED BY <1>2, <1>3, <1>4, <1>5

LEMMA ExecuteKeeps ==
  ASSUME NEW seen, AllInv(daemon, device, Command, seen, inputs), Execute
  PROVE  AllInv(daemon', device', Command, seen, inputs) /\ inputs' = inputs
<1> PICK c : c = Head(daemon.at) OBVIOUS
<1>1. daemon.at # <<>> /\ inputs' = inputs /\ c.status = "sent" BY DEF Execute
<1>2. QueueInv(daemon, device.mem1, Command) /\ IsSeq(daemon.at) /\ DaemonOK(daemon)
      /\ DeviceInv(device, seen, inputs) /\ SmsInv(daemon, daemon.stray, seen, inputs)
  BY DEF AllInv, QueueInv, DaemonOK
<1>3. 1 \in DOMAIN daemon.at /\ c = daemon.at[1]
  <2> PICK t : t = Tail(daemon.at) OBVIOUS
  <2> QED BY <1>1, <1>2, SeqTail
<1>4. CommandOK(c) /\ Runs(c) /\ Writes(daemon, c) BY <1>2, <1>3 DEF QueueInv
<1>5. /\ DOMAIN device = {"mem1", "mem2", "mem3", "stored"}
      /\ device.mem1 \in Storages /\ device.mem2 \in Storages /\ device.mem3 \in Storages
  BY <1>2 DEF DeviceInv
<1>6. IsFiniteSet({}) BY FS_EmptySet
<1>7. ASSUME NEW got, Suits(c, got, seen, inputs),
             NEW new, DeviceInv(new, seen, inputs),
             \/ new.mem1 = device.mem1 /\ c.cmd # "cpms"
             \/ new.mem1 = c.mem1 /\ c.cmd = "cpms"
      PROVE  AllInv(With(c, got), new, Command, seen, inputs)
  <2> PICK e : e = [c EXCEPT !.status = "ok", !.got = got] OBVIOUS
  <2>1. Answers(c, e) /\ CommandOK(e) /\ Runs(e) /\ e.got = got
    <3>1. Answers(c, e) /\ e.status = "ok" /\ e.got = got
      BY <1>4 DEF CommandOK, Answers, CommandFields, Command
    <3>2. CommandOK(e) BY <1>4, <1>7, <3>1 DEF CommandOK, Answers, Suits
    <3>3. Runs(e) BY <1>4, <1>7, <3>1 DEF Runs, Answers, Suits
    <3> QED BY <3>1, <3>2, <3>3
  <2>2. c.cmd # "cpms" => (Selected(e) => Selected(c)) BY <2>1 DEF Answers, Selected
  <2>3. With(c, got) = [daemon EXCEPT !.at[1] = e] BY DEF With
  <2>4. \A x \in e.got : Sighted(x, seen, inputs) BY <1>7, <2>1 DEF Suits
  <2>5. \/ new.mem1 = device.mem1 /\ (Selected(e) => Selected(c))
        \/ new.mem1 = c.mem1 /\ c.cmd = "cpms"
    BY <1>7, <2>2
  <2> QED BY ONLY AllInv(daemon, device, Command, seen, inputs), DeviceInv(new, seen, inputs),
                  <1>1, <1>3, <2>1, <2>3, <2>4, <2>5, AnswerKeeps
<1>8. c.cmd \in Reads => c.op \in Reading /\ c.storage = device.mem1
  BY <1>2, <1>3, <1>4 DEF QueueInv, CommandOK, Selects, Means, Selected, Reads
<1>9. \A indexes \in SUBSET Slots :
        /\ IsFiniteSet(Entries(device.mem1, indexes)) /\ Entries(device.mem1, indexes) \subseteq Entry
        /\ \A x \in Entries(device.mem1, indexes) : x.storage = device.mem1 /\ x.index \in indexes
        /\ \A x \in Entries(device.mem1, indexes) : Sighted(x, seen, inputs)
  BY <1>2, <1>5, SeenEntries DEF Entries
<1>10. ASSUME c.cmd = "cpms",
              device' = [device EXCEPT !.mem1 = c.mem1,
                                       !.mem2 = IF c.mem2 = None THEN @ ELSE c.mem2,
                                       !.mem3 = IF c.mem3 = None THEN @ ELSE c.mem3],
              daemon' = With(c, {})
       PROVE  AllInv(daemon', device', Command, seen, inputs)
  <2>1. c.mem1 \in Storages /\ c.mem2 \in Maybe /\ c.mem3 \in Maybe BY <1>4, <1>10 DEF CommandOK
  <2>2. /\ DOMAIN device' = {"mem1", "mem2", "mem3", "stored"}
        /\ device'.mem1 = c.mem1
        /\ device'.mem2 = (IF c.mem2 = None THEN device.mem2 ELSE c.mem2)
        /\ device'.mem3 = (IF c.mem3 = None THEN device.mem3 ELSE c.mem3)
        /\ device'.stored = device.stored
    BY <1>5, <1>10
  <2>3. device'.mem1 \in Storages /\ device'.mem2 \in Storages /\ device'.mem3 \in Storages
    BY <1>5, <2>1, <2>2 DEF Maybe
  <2>4. DeviceInv(device', seen, inputs) BY <1>2, <2>2, <2>3 DEF DeviceInv
  <2>5. Suits(c, {}, seen, inputs) BY <1>6, <1>10 DEF Suits
  <2> QED BY <1>7, <1>10, <2>2, <2>4, <2>5
<1>11. ASSUME c.cmd = "cmgr", daemon' = With(c, Entries(device.mem1, {c.index} \intersect Stored(device.mem1))),
              device' = device
       PROVE  AllInv(daemon', device', Command, seen, inputs)
  <2> PICK indexes \in SUBSET Slots : indexes = {c.index} \intersect Stored(device.mem1) BY DEF Stored
  <2>1. \A x \in Entries(device.mem1, indexes) : x.storage = c.storage /\ x.index = c.index
    BY <1>8, <1>9, <1>11 DEF Reads
  <2> PICK got : got = Entries(device.mem1, indexes) OBVIOUS
  <2>2. IsFiniteSet(got) /\ got \subseteq Entry /\ \A x \in got : Sighted(x, seen, inputs) BY <1>9
  <2>3. Suits(c, got, seen, inputs) BY <1>11, <2>1, <2>2 DEF Suits
  <2> QED BY <1>2, <1>7, <1>11, <2>3
<1>12. ASSUME c.cmd = "cmgl", daemon' = With(c, Entries(device.mem1, Stored(device.mem1))), device' = device
       PROVE  AllInv(daemon', device', Command, seen, inputs)
  <2> PICK indexes \in SUBSET Slots : indexes = Stored(device.mem1) BY DEF Stored
  <2> PICK got : got = Entries(device.mem1, indexes) OBVIOUS
  <2>1. IsFiniteSet(got) /\ got \subseteq Entry /\ \A x \in got : Sighted(x, seen, inputs) BY <1>9
  <2>2. \A x \in got : x.storage = c.storage BY <1>8, <1>9, <1>12 DEF Reads
  <2>3. Suits(c, got, seen, inputs) BY <1>12, <2>1, <2>2 DEF Suits
  <2> QED BY <1>2, <1>7, <1>12, <2>3
<1>13. ASSUME c.cmd = "cmgd", device' = [device EXCEPT !.stored[device.mem1][c.index] = NoPart],
              daemon' = With(c, {})
       PROVE  AllInv(daemon', device', Command, seen, inputs)
  <2>1. NoPart \in Parts /\ NoPart.origin \notin 1 .. MaxInputs BY MultipartSmsAssumption DEF NoPart, Parts
  <2>2. Sighted([index |-> c.index, storage |-> device.mem1, part |-> NoPart], seen, inputs)
    BY <2>1 DEF Sighted
  <2>3. DeviceInv(device', seen, inputs) /\ device'.mem1 = device.mem1
    BY <1>2, <1>5, <1>13, <2>1, <2>2, StoredOne
  <2>4. Suits(c, {}, seen, inputs) BY <1>6, <1>13 DEF Suits
  <2> QED BY <1>7, <1>13, <2>3, <2>4
<1>14. ASSUME c.cmd = "cmgw", NEW i \in Slots \ Stored(device.mem2),
              device' = [device EXCEPT !.stored[device.mem2][i] = PartOf(c)],
              daemon' = With(c, {[index |-> i, storage |-> device.mem2, part |-> PartOf(c)]})
       PROVE  AllInv(daemon', device', Command, seen, inputs)
  <2>1. c.op = "store" /\ c.op \notin Reading BY <1>4, <1>14 DEF CommandOK, Reading
  <2> PICK m : m = daemon.sms[c.sms] OBVIOUS
  <2>2. SmsOK(m) /\ m.user /\ c.seq \in 1 .. m.max /\ DOMAIN m.parts = 1 .. m.max
    BY <1>2, <1>4, <1>14, <2>1 DEF SmsInv, Writes, Writing
  <2> PICK part : part = PartOf(c) OBVIOUS
  <2>3. part \in Parts /\ part.origin \notin 1 .. MaxInputs
    <3>1. part = [origin |-> m.parts[c.seq].origin, ref |-> m.ref, seq |-> c.seq, max |-> m.max,
                  state |-> "stored"]
      BY DEF PartOf
    <3>2. m.parts[c.seq].origin \notin 1 .. MaxInputs BY <2>2, NotArrived
    <3>3. m.parts[c.seq].origin \in Nat /\ m.ref \in References \union {0} /\ m.max \in Nat
      BY <2>2 DEF SmsOK
    <3>4. c.seq \in Nat BY ONLY <2>2, <3>3
    <3> QED BY ONLY <3>1, <3>2, <3>3, <3>4 DEF Parts
  <2> PICK x : x = [index |-> i, storage |-> device.mem2, part |-> part] OBVIOUS
  <2>4. x \in Entry BY <1>5, <2>3 DEF Entry
  <2>5. Sighted(x, seen, inputs) BY <2>3 DEF Sighted
  <2>6. DeviceInv(device', seen, inputs) /\ device'.mem1 = device.mem1
    BY <1>2, <1>5, <1>14, <2>3, <2>5, StoredOne
  <2> PICK got : got = {x} OBVIOUS
  <2>7. IsFiniteSet(got) /\ got \subseteq Entry /\ got # {} /\ \A y \in got : Sighted(y, seen, inputs)
    BY <2>4, <2>5, FS_Singleton
  <2>8. daemon' = With(c, got) BY <1>14
  <2>9. Suits(c, got, seen, inputs) BY <1>14, <2>1, <2>7 DEF Suits
  <2> QED BY <1>7, <1>14, <2>6, <2>8, <2>9
<1>15. ASSUME c.cmd \in {"cmgs", "cmss"}, device' = device, daemon' = With(c, {})
       PROVE  AllInv(daemon', device', Command, seen, inputs)
  <2>1. Suits(c, {}, seen, inputs) BY <1>6, <1>15 DEF Suits
  <2> QED BY <1>2, <1>7, <1>15, <2>1
<1> QED BY <1>1, <1>10, <1>11, <1>12, <1>13, <1>14, <1>15 DEF Execute

LEMMA RefuseKeeps ==
  ASSUME NEW seen, AllInv(daemon, device, Command, seen, inputs), Refuse
  PROVE  AllInv(daemon', device', Command, seen, inputs)
<1> PICK c : c = Head(daemon.at) OBVIOUS
<1>1. daemon.at # <<>> /\ c.status = "sent" /\ device' = device BY DEF Refuse
<1>2. PICK s \in {"error", "timeout"} : daemon' = [daemon EXCEPT !.at[1].status = s] BY DEF Refuse
<1>3. QueueInv(daemon, device.mem1, Command) /\ IsSeq(daemon.at) /\ DaemonOK(daemon)
      /\ DeviceInv(device, seen, inputs) /\ GotInv(daemon.at, Command, seen, inputs)
  BY DEF AllInv, QueueInv, DaemonOK
<1>4. 1 \in DOMAIN daemon.at /\ c = daemon.at[1]
  <2> PICK t : t = Tail(daemon.at) OBVIOUS
  <2> QED BY <1>1, <1>3, SeqTail
<1>5. CommandOK(c) /\ Runs(c) BY <1>3, <1>4 DEF QueueInv
<1> PICK e : e = [c EXCEPT !.status = s] OBVIOUS
<1>6. Answers(c, e) /\ e.status = s /\ e.got = c.got
  BY <1>5 DEF CommandOK, Answers, CommandFields, Command
<1>7. CommandOK(e) /\ Runs(e) BY <1>5, <1>6 DEF CommandOK, Runs, Answers
<1>8. \A x \in e.got : Sighted(x, seen, inputs) BY <1>3, <1>4, <1>6 DEF GotInv
<1>9. Selected(e) => Selected(c) BY <1>6 DEF Answers, Selected
<1>10. daemon' = [daemon EXCEPT !.at[1] = e]
  BY <1>2, <1>3, <1>4 DEF DaemonOK, DaemonFields
<1> QED BY ONLY AllInv(daemon, device, Command, seen, inputs), <1>1, <1>3, <1>4, <1>6, <1>7, <1>8, <1>9, <1>10,
              AnswerKeeps

(* More has come in.                                                        *)
LEMMA AllLater ==
  ASSUME NEW d, NEW dev, NEW c, NEW seen, NEW n \in Nat, AllInv(d, dev, c, seen, n),
         NEW later, NEW m \in Nat, n <= m, \A o \in 1 .. MaxInputs : o <= n => later[o] = seen[o]
  PROVE  AllInv(d, dev, c, later, m)
<1>1. \A e : Sighted(e, seen, n) => Sighted(e, later, m)
  <2> TAKE e
  <2> SUFFICES ASSUME Sighted(e, seen, n), e.part.origin \in 1 .. MaxInputs PROVE Sighted(e, later, m)
    BY DEF Sighted
  <2> PICK o \in 1 .. MaxInputs : o = e.part.origin OBVIOUS
  <2>1. o <= n /\ seen[o] = e BY DEF Sighted
  <2>2. o <= m BY <2>1
  <2> QED BY <2>1, <2>2 DEF Sighted
<1>2. \A x, k : Knows(x, k, d.stray, seen, n) => Knows(x, k, d.stray, later, m)
  <2> TAKE x, k
  <2> SUFFICES ASSUME Knows(x, k, d.stray, seen, n), x.parts[k].origin \in 1 .. MaxInputs
               PROVE  Knows(x, k, d.stray, later, m)
    BY DEF Knows
  <2> PICK o \in 1 .. MaxInputs : o = x.parts[k].origin OBVIOUS
  <2>1. o <= n BY DEF Knows
  <2>2. o <= m /\ later[o] = seen[o] BY <2>1
  <2> QED BY <2>2 DEF Knows
<1>3. GotInv(d.at, c, later, m) BY <1>1 DEF AllInv, GotInv
<1>4. DeviceInv(dev, later, m)
  <2>1. DeviceInv(dev, seen, n) BY DEF AllInv
  <2>2. \A s \in Storages, i \in Slots :
          Sighted([index |-> i, storage |-> s, part |-> dev.stored[s][i]], later, m)
    BY <1>1, <2>1 DEF DeviceInv
  <2> QED BY <2>1, <2>2 DEF DeviceInv
<1>5. SmsInv(d, d.stray, later, m)
  <2>1. SmsInv(d, d.stray, seen, n) BY DEF AllInv
  <2>2. \A i \in Listed(d) : \A k \in DOMAIN d.sms[i].parts : Knows(d.sms[i], k, d.stray, later, m)
    BY <1>2, <2>1 DEF SmsInv
  <2> QED BY <2>1, <2>2 DEF SmsInv
<1> QED BY <1>3, <1>4, <1>5 DEF AllInv

LEMMA IndicationKeeps ==
  ASSUME NEW d, NEW dev, NEW seen, NEW n, AllInv(d, dev, Command, seen, n),
         NEW storage \in Storages, NEW index, NEW w, w = cmti_received(d, storage, index)
  PROVE  AllInv(w, dev, Command, seen, n)
<1>1. CASE has_part(d, storage, index) \/ ~CanLock(d, storage, None) BY <1>1 DEF cmti_received
<1>2. CASE ~(has_part(d, storage, index) \/ ~CanLock(d, storage, None))
  <2>1. PICK c : c = [Command EXCEPT !.op = "indication", !.storage = storage, !.index = index] OBVIOUS
  <2>2. w = lock_storages(d, storage, None, c) BY <1>2, <2>1 DEF cmti_received
  <2>3. Starts(d, c, storage, None) BY <2>1 DEF Starts, Command, CommandFields, Reading
  <2>4. storage \in Maybe /\ None \in Maybe /\ CanLock(d, storage, None) BY <1>2 DEF Maybe
  <2> QED BY ONLY AllInv(d, dev, Command, seen, n), <2>2, <2>3, <2>4, AllLock
<1> QED BY <1>1, <1>2

(* In text a part is still a part, and of the same origin.                   *)
LEMMA ShownIsPart ==
  ASSUME NEW pdu, NEW part \in Parts
  PROVE  AsShown(pdu, part) \in Parts /\ AsShown(pdu, part).origin = part.origin
<1>1. part.origin \in Nat /\ part.state \in {"received", "stored", "sent"}
      /\ DOMAIN part = {"origin", "ref", "seq", "max", "state"}
  BY DEF Parts
<1>2. CASE pdu \/ part.max = 0 BY <1>2 DEF AsShown
<1>3. CASE ~(pdu \/ part.max = 0)
  <2>1. AsShown(pdu, part) = [origin |-> part.origin, ref |-> 0, seq |-> 0, max |-> 1, state |-> part.state]
    BY <1>1, <1>3 DEF AsShown, Parts
  <2> QED BY <1>1, <2>1 DEF Parts
<1> QED BY <1>2, <1>3

LEMMA ArriveKeeps ==
  ASSUME inputs \in 0 .. MaxInputs, NEW seen, AllInv(daemon, device, Command, seen, inputs), Arrive
  PROVE  inputs' \in 0 .. MaxInputs /\ \E later : AllInv(daemon', device', Command, later, inputs')
<1>1. inputs \in Nat /\ inputs' = inputs + 1 /\ inputs' \in Nat /\ inputs' \in 1 .. MaxInputs
  BY MultipartSmsAssumption DEF Arrive, Used
<1>0. PICK p \in Incoming, i \in Slots \ Stored(device.mem3) :
        /\ device' = [device EXCEPT !.stored[device.mem3][i] =
                        AsShown(daemon.pdu, [origin |-> inputs + 1, ref |-> p.ref, seq |-> p.seq,
                                             max |-> p.max, state |-> "received"])]
        /\ daemon' = cmti_received(daemon, device.mem3, i)
  BY DEF Arrive
<1>2. PICK part :
        /\ part = AsShown(daemon.pdu, [origin |-> inputs + 1, ref |-> p.ref, seq |-> p.seq, max |-> p.max,
                                       state |-> "received"])
        /\ device' = [device EXCEPT !.stored[device.mem3][i] = part]
        /\ daemon' = cmti_received(daemon, device.mem3, i)
  BY <1>0
<1>3. DeviceInv(device, seen, inputs) BY DEF AllInv
<1>4. device.mem3 \in Storages BY <1>3 DEF DeviceInv
<1> PICK x : x = [index |-> i, storage |-> device.mem3, part |-> part] OBVIOUS
<1> PICK later : later = [o \in 1 .. MaxInputs |-> IF o = inputs' THEN x ELSE seen[o]] OBVIOUS
<1>5. \A o \in 1 .. MaxInputs : o <= inputs => later[o] = seen[o] BY <1>1
<1>6. AllInv(daemon, device, Command, later, inputs')
  <2>1. inputs <= inputs' BY <1>1
  <2> PICK m \in Nat : m = inputs' BY <1>1
  <2>2. AllInv(daemon, device, Command, later, m)
    BY ONLY AllInv(daemon, device, Command, seen, inputs), <1>1, <1>5, <2>1, m = inputs', AllLater
  <2> QED BY <2>2
<1>7. part \in Parts /\ part.origin = inputs'
  <2> PICK came : came = [origin |-> inputs + 1, ref |-> p.ref, seq |-> p.seq, max |-> p.max,
                         state |-> "received"]
    OBVIOUS
  <2>1. came \in Parts /\ came.origin = inputs' BY <1>1, MultipartSmsAssumption DEF Parts
  <2>2. part = AsShown(daemon.pdu, came) BY <1>2
  <2> QED BY ONLY <2>1, <2>2, ShownIsPart
<1>8. Sighted(x, later, inputs') BY <1>1, <1>7 DEF Sighted
<1>9. DeviceInv(device', later, inputs') /\ device'.mem1 = device.mem1
  <2>1. DeviceInv(device, later, inputs') BY <1>6 DEF AllInv
  <2> QED BY <1>2, <1>4, <1>7, <1>8, <2>1, StoredOne
<1>10. AllInv(daemon, device', Command, later, inputs') BY <1>6, <1>9 DEF AllInv
<1>11. AllInv(daemon', device', Command, later, inputs') BY <1>2, <1>4, <1>10, IndicationKeeps
<1> QED BY <1>1, <1>11

----------------------------------------------------------------------------
(* The clients.                                                             *)
LEMMA CreateKeeps ==
  ASSUME NEW d, NEW dev, NEW seen, NEW n, AllInv(d, dev, Command, seen, n), NEW size \in Sizes,
         NEW w, w = AddSms(d, [NewSms EXCEPT !.user = TRUE, !.submit = TRUE, !.max = size])
  PROVE  AllInv(w, dev, Command, seen, n)
<1> PICK x : x = [NewSms EXCEPT !.user = TRUE, !.submit = TRUE, !.max = size] OBVIOUS
<1> PICK m : m = [x EXCEPT !.listed = TRUE] OBVIOUS
<1>1. /\ DOMAIN m = SmsFields /\ m.listed = TRUE /\ m.user = TRUE /\ m.multi = FALSE /\ m.storage = None
      /\ m.max = size /\ m.ref = 0 /\ m.parts = <<>> /\ DOMAIN m.parts = {}
      /\ m.submit = TRUE /\ m.state = "unknown"
  BY DEF SmsFields, NewSms
<1>2. SmsOK(m) BY <1>1, MultipartSmsAssumption, FS_EmptySet DEF SmsOK, Maybe
<1>3. DaemonOK(d) /\ SmsInv(d, d.stray, seen, n) BY DEF AllInv, QueueInv
<1>4. /\ \A k \in DOMAIN m.parts : Knows(m, k, d.stray, seen, n)
      /\ \A k, l \in DOMAIN m.parts : SamePlace(m, k, m, l) => k = l
      /\ \A j \in Listed(d) : \A k \in DOMAIN m.parts, l \in DOMAIN d.sms[j].parts : ~SamePlace(m, k, d.sms[j], l)
      /\ \A j \in Listed(d) : ~SameReference(m, d.sms[j])
  BY <1>1 DEF SameReference
<1>5. SmsInv(w, d.stray, seen, n) /\ Files(d, w)
  <2>1. w = AddSms(d, x) /\ m.listed OBVIOUS
  <2> PICK stray : stray = d.stray OBVIOUS
  <2>2. SmsInv(w, stray, seen, n) /\ Files(d, w)
    BY ONLY <1>2, <1>3, <1>4, <2>1, m = [x EXCEPT !.listed = TRUE], stray = d.stray, AddKeeps
  <2> QED BY <2>2
<1>6. w.stray = d.stray BY <1>5 DEF Files
<1> QED BY <1>5, <1>6, AllFiles

LEMMA DeleteKeeps ==
  ASSUME NEW d, NEW dev, NEW seen, NEW n, AllInv(d, dev, Command, seen, n), NEW i \in Ids,
         NEW w, w = sms_delete(d, i)
  PROVE  AllInv(w, dev, Command, seen, n)
<1> PICK s : s = d.sms[i].storage OBVIOUS
<1>1. s \in Maybe BY DEF AllInv, SmsInv, SmsOK
<1>2. CASE s = None
  <2>1. w = DeleteDone(d, i) BY <1>2 DEF sms_delete
  <2> QED BY <2>1, DoneKeeps
<1>3. CASE s # None /\ ~CanLock(d, s, None) BY <1>3 DEF sms_delete
<1>4. CASE s # None /\ CanLock(d, s, None)
  <2>1. s \in Storages /\ None \in Maybe BY <1>1, <1>4 DEF Maybe
  <2>2. PICK c : c = [Command EXCEPT !.op = "delete", !.sms = i, !.seq = -1, !.storage = s] OBVIOUS
  <2>3. w = lock_storages(d, s, None, c) BY <1>4, <2>2 DEF sms_delete
  <2>4. Starts(d, c, s, None) BY <2>1, <2>2 DEF Starts, Command, CommandFields, Reading
  <2> QED BY ONLY AllInv(d, dev, Command, seen, n), <1>1, <1>4, <2>1, <2>3, <2>4, AllLock
<1> QED BY <1>2, <1>3, <1>4

(* What a user wrote is written or sent with its parts and a reference.       *)
Ready2Write(old, m) ==
  /\ SmsOK(m) /\ Changes(old, m) /\ m.user = TRUE /\ m.storage = old.storage
  /\ DOMAIN m.parts = 1 .. m.max

LEMMA GeneratedOK ==
  ASSUME NEW old, SmsOK(old), old.user, NEW i \in Nat, NEW m, m = Generated(old, i)
  PROVE  Ready2Write(old, m)
<1>1. CASE old.parts # <<>> BY <1>1 DEF Generated, SmsOK, Ready2Write, Changes
<1>2. CASE old.parts = <<>>
  <2>1. PICK p : p = [k \in 1 .. old.max |-> [index |-> 0, origin |-> MaxInputs + 1 + i]] OBVIOUS
  <2>2. PICK b \in BOOLEAN : b <=> old.max > 1 OBVIOUS
  <2>3. m = [old EXCEPT !.parts = p, !.multi = (old.max > 1)] BY <1>2, <2>1 DEF Generated
  <2>4. /\ DOMAIN m = SmsFields /\ m.listed = old.listed /\ m.user = old.user /\ m.multi = (old.max > 1)
        /\ m.storage = old.storage /\ m.max = old.max /\ m.ref = old.ref /\ m.parts = p
        /\ m.submit = old.submit /\ m.state = old.state
    BY <2>3 DEF SmsOK, SmsFields, NewSms
  <2>5. DOMAIN p = 1 .. old.max /\ \A k \in DOMAIN p : p[k] = [index |-> 0, origin |-> MaxInputs + 1 + i]
    BY <2>1
  <2>6. MaxInputs + 1 + i \in Nat /\ MaxInputs + 1 + i > MaxInputs BY MultipartSmsAssumption
  <2>7. old.max \in Nat BY DEF SmsOK
  <2>8. IsFiniteSet(1 .. old.max) BY <2>7, FS_Interval
  <2>9. DOMAIN old.parts = 1 .. old.max => DOMAIN p = DOMAIN old.parts BY <2>5
  <2>10. /\ \A k \in DOMAIN p : p[k] \in [index : Slots \union {0}, origin : Nat]
         /\ \A k \in DOMAIN p : p[k].origin > MaxInputs
    BY <2>5, <2>6
  <2>11. SmsOK(m)
    <3>1. m.submit /\ m.state \notin {"receiving", "received"} BY <2>4 DEF SmsOK
    <3> QED BY <2>4, <2>5, <2>8, <2>10, <3>1 DEF SmsOK, StateOK
  <2> QED BY <2>4, <2>5, <2>9, <2>11 DEF Ready2Write, Changes, SmsOK
<1> QED BY <1>1, <1>2

LEMMA PreparedOK ==
  ASSUME NEW d, NEW dev, NEW seen, NEW n, AllInv(d, dev, Command, seen, n), NEW i \in Ids, d.sms[i].user,
         NEW m \in PreparedToStore(d, i) \union PreparedToSend(d, i)
  PROVE  Ready2Write(d.sms[i], m)
<1> PICK old : old = d.sms[i] OBVIOUS
<1> PICK g : g = Generated(old, i) OBVIOUS
<1>1. SmsOK(old) /\ old.user BY DEF AllInv, SmsInv
<1>2. i \in Nat BY MultipartSmsAssumption DEF Ids
<1>3. Ready2Write(old, g) BY <1>1, <1>2, GeneratedOK
<1>4. m = g \/ \E r \in References : m = [g EXCEPT !.ref = r] BY DEF PreparedToStore, PreparedToSend
<1>5. ASSUME NEW r \in References, m = [g EXCEPT !.ref = r] PROVE Ready2Write(old, m)
  <2>1. /\ DOMAIN m = SmsFields /\ m.listed = g.listed /\ m.user = g.user /\ m.multi = g.multi
        /\ m.storage = g.storage /\ m.max = g.max /\ m.ref = r /\ m.parts = g.parts /\ m.state = g.state
        /\ m.submit = g.submit
    BY <1>3, <1>5 DEF Ready2Write, SmsOK, SmsFields, NewSms
  <2>2. SmsOK(m) BY <1>3, <2>1 DEF Ready2Write, SmsOK, StateOK, Whole
  <2>3. Changes(old, m) BY <1>3, <2>1 DEF Ready2Write, Changes
  <2> QED BY <1>3, <2>1, <2>2, <2>3 DEF Ready2Write
<1> QED BY <1>3, <1>4, <1>5

(* What the modem had is sent as it is.                                       *)
LEMMA NothingToPrepare ==
  ASSUME NEW d, NEW dev, NEW seen, NEW n, AllInv(d, dev, Command, seen, n), NEW i \in Listed(d), ~d.sms[i].user,
         NEW m \in PreparedToSend(d, i)
  PROVE  m = d.sms[i] /\ SmsOK(m) /\ m.storage # None
<1>1. SmsOK(d.sms[i]) /\ d.sms[i].listed BY DEF AllInv, SmsInv, Listed
<1>2. d.sms[i].parts # <<>> /\ d.sms[i].storage \in Storages BY <1>1 DEF SmsOK
<1>3. m = d.sms[i] BY <1>2 DEF PreparedToSend, Generated
<1> QED BY <1>1, <1>2, <1>3, MultipartSmsAssumption

LEMMA StoreKeeps ==
  ASSUME NEW d, NEW dev, NEW seen, NEW n, AllInv(d, dev, Command, seen, n), NEW i \in Listed(d),
         d.sms[i].storage = None,
         NEW s \in Storages, NEW m \in PreparedToStore(d, i), NEW v, v = [d EXCEPT !.sms[i] = m],
         NEW w, w = IF (m.multi /\ m.ref = 0) \/ ~CanLock(v, None, s) THEN v
                    ELSE lock_storages(v, None, s, [Command EXCEPT !.op = "store", !.sms = i, !.storage = s])
  PROVE  AllInv(w, dev, Command, seen, n)
<1>1. i \in Ids BY DEF Listed
<1>2. Ready2Write(d.sms[i], m)
  <2>1. SmsOK(d.sms[i]) /\ d.sms[i].listed BY DEF AllInv, SmsInv, Listed
  <2>2. d.sms[i].user BY <2>1, MultipartSmsAssumption DEF SmsOK
  <2> QED BY <1>1, <2>2, PreparedOK
<1>3. AllInv(v, dev, Command, seen, n)
  <2>1. SmsOK(m) /\ Changes(d.sms[i], m) BY <1>2 DEF Ready2Write
  <2> QED BY ONLY AllInv(d, dev, Command, seen, n), v = [d EXCEPT !.sms[i] = m], <1>1, <2>1, AllChange
<1>4. CASE (m.multi /\ m.ref = 0) \/ ~CanLock(v, None, s) BY <1>3, <1>4
<1>5. CASE ~((m.multi /\ m.ref = 0) \/ ~CanLock(v, None, s))
  <2>1. PICK c : c = [Command EXCEPT !.op = "store", !.sms = i, !.storage = s] OBVIOUS
  <2>2. w = lock_storages(v, None, s, c) /\ CanLock(v, None, s) BY <1>5, <2>1
  <2>3. v.sms[i] = m /\ v.used = d.used /\ DaemonOK(d) BY <1>1 DEF AllInv, QueueInv, DaemonOK, DaemonFields
  <2>4. i <= v.used BY <1>1, <2>3 DEF Listed, AllInv, SmsInv
  <2>5. Starts(v, c, None, s)
    BY <1>1, <1>2, <2>1, <2>3, <2>4 DEF Starts, Ready2Write, Command, CommandFields, Reading, Writing
  <2>6. s \in Maybe /\ None \in Maybe BY DEF Maybe
  <2> QED BY ONLY <1>3, <2>2, <2>5, <2>6, AllLock
<1> QED BY <1>4, <1>5

LEMMA SendSmsKeeps ==
  ASSUME NEW d, NEW dev, NEW seen, NEW n, AllInv(d, dev, Command, seen, n), NEW i \in Listed(d),
         NEW m \in PreparedToSend(d, i), NEW v, v = [d EXCEPT !.sms[i] = m],
         NEW c, c = [Command EXCEPT !.op = "send", !.sms = i, !.seq = -1, !.storage = m.storage],
         NEW w, w = IF m.storage = None THEN sms_send_next_part(v, c)
                    ELSE IF ~CanLock(v, None, m.storage) THEN v
                    ELSE lock_storages(v, None, m.storage, c)
  PROVE  AllInv(w, dev, Command, seen, n)
<1> PICK s : s = m.storage OBVIOUS
<1>1. i \in Ids BY DEF Listed
<1>2. SmsOK(m) /\ Changes(d.sms[i], m)
  <2>1. CASE d.sms[i].user BY <1>1, <2>1, PreparedOK DEF Ready2Write
  <2>2. CASE ~d.sms[i].user BY <2>2, NothingToPrepare DEF Changes
  <2> QED BY <2>1, <2>2
<1>3. AllInv(v, dev, Command, seen, n)
  BY ONLY AllInv(d, dev, Command, seen, n), v = [d EXCEPT !.sms[i] = m], <1>1, <1>2, AllChange
<1>4. v.sms[i] = m /\ v.used = d.used /\ DaemonOK(d) BY <1>1 DEF AllInv, QueueInv, DaemonOK, DaemonFields
<1>5. i <= v.used BY <1>1, <1>4 DEF Listed, AllInv, SmsInv
<1>6. s \in Maybe /\ None \in Maybe BY <1>2 DEF SmsOK, Maybe
<1>7. /\ DOMAIN c = CommandFields /\ c.op = "send" /\ c.cmd = "none" /\ c.sms = i /\ c.storage = s
      /\ c.locks1 = FALSE /\ c.locks2 = FALSE /\ c.got = {} /\ c.status = "sent" /\ c.mem3 = None
  BY DEF Command, CommandFields
<1>8. CASE s = None
  <2>1. CommandOK(c) BY <1>6, <1>7, FS_EmptySet DEF CommandOK, Reading, Writing, Reads
  <2>2. Writes(v, c) BY <1>1, <1>5, <1>7 DEF Writes
  <2>3. c.locks1 = Command.locks1 /\ c.locks2 = Command.locks2 /\ c.got \subseteq Command.got /\ ~c.locks1
    BY <1>7 DEF Command
  <2>4. AllInv(v, dev, c, seen, n) BY ONLY <1>3, <2>1, <2>2, <2>3, AllAlike
  <2>5. w = sms_send_next_part(v, c) BY <1>8
  <2> QED BY <1>7, <2>4, <2>5, SendNextKeeps
<1>9. CASE s # None /\ ~CanLock(v, None, s) BY <1>3, <1>9
<1>10. CASE s # None /\ CanLock(v, None, s)
  <2>1. w = lock_storages(v, None, s, c) BY <1>10
  <2>2. Starts(v, c, None, s)
    BY <1>1, <1>5, <1>6, <1>7, <1>10 DEF Starts, Reading, Writing, Maybe
  <2> QED BY ONLY <1>3, <1>6, <1>10, <2>1, <2>2, AllLock
<1> QED BY <1>8, <1>9, <1>10

LEMMA SetDefaultKeeps ==
  ASSUME NEW d, NEW dev, NEW seen, NEW n, AllInv(d, dev, Command, seen, n), NEW s \in Storages,
         NEW w, w = Send([d EXCEPT !.mem2 = s],
                         [Command EXCEPT !.op = "default", !.cmd = "cpms", !.storage = s,
                                         !.mem1 = d.mem1, !.mem2 = s, !.mem3 = s])
  PROVE  AllInv(w, dev, Command, seen, n)
<1>1. DaemonOK(d) BY DEF AllInv, QueueInv
<1>2. PICK v : v = [d EXCEPT !.mem2 = s] OBVIOUS
<1>3. /\ DOMAIN v = DaemonFields
      /\ v.sms = d.sms /\ v.used = d.used /\ v.at = d.at /\ v.mem1 = d.mem1
      /\ v.held1 = d.held1 /\ v.kept = d.kept /\ v.pdu = d.pdu /\ v.held2 = d.held2 /\ v.crashed = d.crashed
      /\ v.mem2 = s /\ v.default = d.default /\ v.loading = d.loading /\ v.stray = d.stray
  BY <1>1, <1>2 DEF DaemonOK, DaemonFields
<1>4. AllInv(v, dev, Command, seen, n) BY <1>1, <1>3, AllField DEF DaemonOK
<1>5. PICK e : e = [Command EXCEPT !.op = "default", !.cmd = "cpms", !.storage = s,
                                  !.mem1 = d.mem1, !.mem2 = s, !.mem3 = s] OBVIOUS
<1>6. /\ DOMAIN e = CommandFields /\ e.op = "default" /\ e.cmd = "cpms" /\ e.storage = s
      /\ e.mem1 = d.mem1 /\ e.mem2 = s /\ e.mem3 = s /\ e.status = "sent" /\ e.got = {}
      /\ e.locks1 = FALSE /\ e.locks2 = FALSE /\ e.locks1 = Command.locks1 /\ e.locks2 = Command.locks2
      /\ e.got \subseteq Command.got
  BY <1>5 DEF CommandFields, Command
<1>7. d.mem1 \in Storages BY <1>1 DEF DaemonOK
<1>8. CommandOK(e) /\ Runs(e) /\ Writes(v, e)
  BY <1>6, <1>7, FS_EmptySet DEF CommandOK, Runs, Writes, Reading, Writing, Reads, Maybe
<1>9. w = Send(v, e) /\ e.mem1 = v.mem1 /\ ~e.locks1 BY <1>2, <1>3, <1>5, <1>6
<1> QED BY ONLY <1>4, <1>6, <1>8, <1>9, AllSend

----------------------------------------------------------------------------
(* The inductive invariant.                                                 *)
LEMMA NewIsOK == SmsOK(NewSms)
<1> PICK m : m = NewSms OBVIOUS
<1>1. /\ DOMAIN m = SmsFields /\ m.listed = FALSE /\ m.user = FALSE /\ m.multi = FALSE
      /\ m.storage = None /\ m.max = 0 /\ m.ref = 0 /\ DOMAIN m.parts = {} /\ m.submit = FALSE
  BY DEF NewSms, SmsFields
<1>2. IsFiniteSet({}) /\ None \in Maybe BY FS_EmptySet DEF Maybe
<1>3. IsFiniteSet(DOMAIN m.parts) BY ONLY <1>1, <1>2
<1>4. \A k \in DOMAIN m.parts : m.parts[k] \in [index : Slots \union {0}, origin : Nat] BY ONLY <1>1
<1>5. m.max \in Nat /\ m.ref \in References \union {0} BY ONLY <1>1
<1>6. m.storage \in Maybe BY ONLY <1>1, <1>2
<1>7. m.listed \in BOOLEAN /\ m.user \in BOOLEAN /\ m.multi \in BOOLEAN /\ m.submit \in BOOLEAN BY ONLY <1>1
<1>8. SmsOK(m) BY ONLY <1>1, <1>3, <1>4, <1>5, <1>6, <1>7 DEF SmsOK
<1> QED BY <1>8

LEMMA InitHolds ==
  ASSUME Init
  PROVE  IInv
<1> PICK s \in Storages, m \in Storages, stored \in InitialStores, pdu \in PduModes :
      /\ device = [mem1 |-> m, mem2 |-> s, mem3 |-> s,
                   stored |-> [r \in Storages |-> [i \in Slots |-> AsShown(pdu, stored[r][i])]]]
      /\ daemon = [mem1 |-> m, mem2 |-> s, held1 |-> FALSE, held2 |-> FALSE, default |-> s,
                   pdu |-> pdu, kept |-> FALSE,
                   sms |-> [i \in Ids |-> NewSms], used |-> 0, at |-> <<>>, loading |-> 0,
                   stray |-> FALSE, crashed |-> FALSE]
  BY DEF Init
<1> PICK seen : seen = [o \in 1 .. MaxInputs |-> 0] OBVIOUS
<1>1. inputs = 0 /\ inputs \in 0 .. MaxInputs BY MultipartSmsAssumption DEF Init
<1>2. IsSeq(daemon.at) /\ DOMAIN daemon.at = {}
  <2>1. <<>> \in Seq({}) /\ DOMAIN <<>> = {} OBVIOUS
  <2>2. daemon.at = <<>> OBVIOUS
  <2> QED BY <2>1, <2>2 DEF IsSeq
<1>3. DaemonOK(daemon) BY <1>2, MultipartSmsAssumption DEF DaemonOK, DaemonFields
<1>4. QueueInv(daemon, device.mem1, Command)
  <2>1. daemon.held1 = FALSE /\ daemon.held2 = FALSE /\ ~Owned(daemon) BY DEF Owned
  <2> QED BY <1>2, <1>3, <2>1, CommandIsOK DEF QueueInv, Alone, Selects, Means, Selected
<1>5. GotInv(daemon.at, Command, seen, inputs) BY <1>2 DEF GotInv, Command
<1>6. DeviceInv(device, seen, inputs)
  <2>1. stored \in [Storages -> [Slots -> Parts]] BY MultipartSmsAssumption
  <2>2. \A r \in Storages, i \in Slots : stored[r][i].origin \notin 1 .. MaxInputs BY MultipartSmsAssumption
  <2>3. PICK shown : shown = [r \in Storages |-> [i \in Slots |-> AsShown(pdu, stored[r][i])]] OBVIOUS
  <2>4. \A r \in Storages, i \in Slots :
          shown[r][i] \in Parts /\ shown[r][i].origin \notin 1 .. MaxInputs
    <3> TAKE r \in Storages, i \in Slots
    <3>1. shown[r][i] = AsShown(pdu, stored[r][i]) /\ stored[r][i] \in Parts BY <2>1, <2>3
    <3> QED BY <2>2, <3>1, ShownIsPart
  <2>5. device.stored = shown BY <2>3
  <2>6. shown \in [Storages -> [Slots -> Parts]] BY <2>3, <2>4
  <2> QED BY <2>4, <2>5, <2>6 DEF DeviceInv, Sighted
<1>7. SmsOK(NewSms) BY NewIsOK
<1>8. \A i \in Ids : daemon.sms[i] = NewSms OBVIOUS
<1>9. Listed(daemon) = {} BY <1>8 DEF Listed, NewSms
<1>10. SmsInv(daemon, daemon.stray, seen, inputs) BY <1>7, <1>8, <1>9 DEF SmsInv, NewSms
<1>11. AllInv(daemon, device, Command, seen, inputs) BY <1>4, <1>5, <1>6, <1>10 DEF AllInv
<1> QED BY <1>1, <1>11 DEF IInv

LEMMA NextKeeps ==
  ASSUME IInv, [Next]_vars
  PROVE  IInv'
<1> PICK seen : AllInv(daemon, device, Command, seen, inputs) BY DEF IInv
<1> SUFFICES inputs' \in 0 .. MaxInputs /\ \E later : AllInv(daemon', device', Command, later, inputs')
  <2>1. Command' = Command BY DEF Command
  <2> QED BY <2>1 DEF IInv
<1>1. inputs \in 0 .. MaxInputs /\ inputs \in Nat BY MultipartSmsAssumption DEF IInv
<1>2. DaemonOK(daemon) BY DEF AllInv, QueueInv
<1>3. ASSUME Used(1)
      PROVE  /\ inputs' \in 0 .. MaxInputs /\ AllInv(daemon, device, Command, seen, inputs')
  <2>1. inputs' \in 0 .. MaxInputs /\ inputs' \in Nat /\ inputs <= inputs'
    BY <1>1, <1>3, MultipartSmsAssumption DEF Used
  <2> PICK m \in Nat : m = inputs' BY <2>1
  <2>2. inputs <= m BY <2>1
  <2>3. \A o \in 1 .. MaxInputs : o <= inputs => seen[o] = seen[o] OBVIOUS
  <2>4. AllInv(daemon, device, Command, seen, m)
    BY ONLY AllInv(daemon, device, Command, seen, inputs), <1>1, <2>2, <2>3, AllLater
  <2> QED BY <2>1, <2>4
<1>4. ASSUME StartLoading PROVE AllInv(daemon', device', Command, seen, inputs') /\ inputs' = inputs
  BY <1>4, LoadKeeps DEF StartLoading
<1>5. ASSUME Answered PROVE AllInv(daemon', device', Command, seen, inputs') /\ inputs' = inputs
  <2> PICK c, d : c = Head(daemon.at) /\ d = [daemon EXCEPT !.at = Tail(@)] OBVIOUS
  <2>1. daemon.at # <<>> /\ daemon' = Ready(d, c) /\ device' = device /\ inputs' = inputs
    BY <1>5 DEF Answered
  <2>2. AllInv(d, device, c, seen, inputs) /\ Runs(c) BY <2>1, AllPop
  <2> QED BY <2>1, <2>2, ReadyKeeps
<1>6. ASSUME Execute PROVE AllInv(daemon', device', Command, seen, inputs') /\ inputs' = inputs
  BY <1>6, ExecuteKeeps
<1>7. ASSUME Refuse PROVE inputs' \in 0 .. MaxInputs /\ AllInv(daemon', device', Command, seen, inputs')
  <2>1. Used(1) /\ AllInv(daemon', device', Command, seen, inputs) BY <1>7, RefuseKeeps DEF Refuse
  <2>2. inputs' \in 0 .. MaxInputs /\ inputs' \in Nat /\ inputs <= inputs'
    BY <1>1, <2>1, MultipartSmsAssumption DEF Used
  <2> PICK m \in Nat : m = inputs' BY <2>2
  <2>3. inputs <= m BY <2>2
  <2>4. \A o \in 1 .. MaxInputs : o <= inputs => seen[o] = seen[o] OBVIOUS
  <2> PICK d, dev : d = daemon' /\ dev = device' OBVIOUS
  <2>5. AllInv(d, dev, Command, seen, inputs) BY <2>1
  <2>6. AllInv(d, dev, Command, seen, m) BY ONLY <1>1, <2>3, <2>4, <2>5, AllLater
  <2> QED BY <2>2, <2>6
<1>8. ASSUME Arrive
      PROVE  inputs' \in 0 .. MaxInputs /\ \E later : AllInv(daemon', device', Command, later, inputs')
  BY <1>1, <1>8, ArriveKeeps
<1>9. ASSUME IndicateAgain PROVE inputs' \in 0 .. MaxInputs /\ AllInv(daemon', device', Command, seen, inputs')
  <2>1. PICK s \in Storages, i \in Slots : daemon' = cmti_received(daemon, s, i)
    BY <1>9 DEF IndicateAgain
  <2>2. device' = device /\ Used(1) BY <1>9 DEF IndicateAgain
  <2> QED BY <1>3, <2>1, <2>2, IndicationKeeps
<1>10. ASSUME Create PROVE inputs' \in 0 .. MaxInputs /\ AllInv(daemon', device', Command, seen, inputs')
  <2>1. PICK size \in Sizes :
          daemon' = AddSms(daemon, [NewSms EXCEPT !.user = TRUE, !.submit = TRUE, !.max = size])
    BY <1>10 DEF Create
  <2>2. device' = device /\ Used(1) BY <1>10 DEF Create
  <2> QED BY <1>3, <2>1, <2>2, CreateKeeps
<1>11. ASSUME Delete PROVE inputs' \in 0 .. MaxInputs /\ AllInv(daemon', device', Command, seen, inputs')
  <2>1. PICK i \in Listed(daemon) : daemon' = sms_delete(daemon, i) BY <1>11 DEF Delete
  <2>2. device' = device /\ Used(1) /\ i \in Ids BY <1>11 DEF Delete, Listed
  <2> QED BY <1>3, <2>1, <2>2, DeleteKeeps
<1>12. ASSUME Store PROVE inputs' \in 0 .. MaxInputs /\ AllInv(daemon', device', Command, seen, inputs')
  <2>1. PICK i \in Listed(daemon), s \in Storages : daemon.sms[i].storage = None /\ \E m \in PreparedToStore(daemon, i) :
          LET d == [daemon EXCEPT !.sms[i] = m] IN
          daemon' = IF (m.multi /\ m.ref = 0) \/ ~CanLock(d, None, s) THEN d
                    ELSE lock_storages(d, None, s, [Command EXCEPT !.op = "store", !.sms = i, !.storage = s])
    BY <1>12 DEF Store
  <2>4. PICK m \in PreparedToStore(daemon, i) :
          LET d == [daemon EXCEPT !.sms[i] = m] IN
          daemon' = IF (m.multi /\ m.ref = 0) \/ ~CanLock(d, None, s) THEN d
                    ELSE lock_storages(d, None, s, [Command EXCEPT !.op = "store", !.sms = i, !.storage = s])
    BY <2>1
  <2>2. PICK v :
          /\ v = [daemon EXCEPT !.sms[i] = m]
          /\ daemon' = IF (m.multi /\ m.ref = 0) \/ ~CanLock(v, None, s) THEN v
                       ELSE lock_storages(v, None, s, [Command EXCEPT !.op = "store", !.sms = i, !.storage = s])
    BY <2>4
  <2>3. device' = device /\ Used(1) BY <1>12 DEF Store
  <2> QED BY <1>3, <2>1, <2>2, <2>3, StoreKeeps
<1>13. ASSUME SendSms PROVE inputs' \in 0 .. MaxInputs /\ AllInv(daemon', device', Command, seen, inputs')
  <2>1. PICK i \in Listed(daemon) : \E m \in PreparedToSend(daemon, i) :
          LET d == [daemon EXCEPT !.sms[i] = m]
              c == [Command EXCEPT !.op = "send", !.sms = i, !.seq = -1, !.storage = m.storage]
          IN daemon' = IF m.storage = None THEN sms_send_next_part(d, c)
                       ELSE IF ~CanLock(d, None, m.storage) THEN d
                       ELSE lock_storages(d, None, m.storage, c)
    BY <1>13 DEF SendSms
  <2>4. PICK m \in PreparedToSend(daemon, i) :
          LET d == [daemon EXCEPT !.sms[i] = m]
              c == [Command EXCEPT !.op = "send", !.sms = i, !.seq = -1, !.storage = m.storage]
          IN daemon' = IF m.storage = None THEN sms_send_next_part(d, c)
                       ELSE IF ~CanLock(d, None, m.storage) THEN d
                       ELSE lock_storages(d, None, m.storage, c)
    BY <2>1
  <2>2. PICK v, c :
          /\ v = [daemon EXCEPT !.sms[i] = m]
          /\ c = [Command EXCEPT !.op = "send", !.sms = i, !.seq = -1, !.storage = m.storage]
          /\ daemon' = IF m.storage = None THEN sms_send_next_part(v, c)
                       ELSE IF ~CanLock(v, None, m.storage) THEN v
                       ELSE lock_storages(v, None, m.storage, c)
    BY <2>4
  <2>3. device' = device /\ Used(1) BY <1>13 DEF SendSms
  <2> QED BY <1>3, <2>1, <2>2, <2>3, SendSmsKeeps
<1>14. ASSUME SetDefaultStorage
       PROVE  inputs' \in 0 .. MaxInputs /\ AllInv(daemon', device', Command, seen, inputs')
  <2>1. PICK s \in Storages :
          daemon' = Send([daemon EXCEPT !.mem2 = s],
                         [Command EXCEPT !.op = "default", !.cmd = "cpms", !.storage = s,
                                         !.mem1 = daemon.mem1, !.mem2 = s, !.mem3 = s])
    BY <1>14 DEF SetDefaultStorage
  <2>2. device' = device /\ Used(1) BY <1>14 DEF SetDefaultStorage
  <2> QED BY <1>3, <2>1, <2>2, SetDefaultKeeps
<1>15. CASE UNCHANGED vars BY <1>1, <1>15 DEF vars
<1> QED BY <1>1, <1>4, <1>5, <1>6, <1>7, <1>8, <1>9, <1>10, <1>11, <1>12, <1>13, <1>14, <1>15 DEF Next

(* In every state the lock of the storages, what is selected, the parts that  *)
(* came in and the messages that they are in belong together.                 *)
THEOREM Invariance == Spec => []IInv
<1>1. Init => IInv BY InitHolds
<1>2. IInv /\ [Next]_vars => IInv' BY NextKeeps
<1> QED BY <1>1, <1>2, PTL DEF Spec

(* LocksAreHeld, of any number of operations: but for the listing of texts,   *)
(* which keeps mem1, every lock has one operation that will release it.       *)
THEOREM SpecLocksAreHeld == Spec => []LocksAreHeld
<1>1. ASSUME NEW at, IsSeq(at), NEW lock, NEW held, held \in BOOLEAN, Alone(at, Command, lock, held), ~Command[lock]
      PROVE  Cardinality({n \in DOMAIN at : at[n][lock]}) = IF held THEN 1 ELSE 0
  <2>1. CASE held
    <3>1. PICK n \in DOMAIN at : at[n][lock] BY <1>1, <2>1 DEF Alone
    <3>2. {m \in DOMAIN at : at[m][lock]} = {n} BY <1>1, <3>1 DEF Alone
    <3> QED BY <2>1, <3>2, FS_Singleton
  <2>2. CASE ~held
    <3>1. {m \in DOMAIN at : at[m][lock]} = {} BY <1>1, <2>2 DEF Alone
    <3> QED BY <2>2, <3>1, FS_EmptySet
  <2> QED BY <2>1, <2>2
<1>2. IInv => LocksAreHeld
  <2> SUFFICES ASSUME IInv PROVE LocksAreHeld OBVIOUS
  <2>1. /\ DaemonOK(daemon)
        /\ Alone(daemon.at, Command, "locks1", Owned(daemon)) /\ Alone(daemon.at, Command, "locks2", daemon.held2)
    BY DEF IInv, AllInv, QueueInv
  <2>2. ~Command["locks1"] /\ ~Command["locks2"] BY DEF Command
  <2>3. /\ Cardinality({n \in DOMAIN daemon.at : daemon.at[n]["locks1"]}) = IF daemon.held1 /\ ~daemon.kept THEN 1 ELSE 0
        /\ Cardinality({n \in DOMAIN daemon.at : daemon.at[n]["locks2"]}) = IF daemon.held2 THEN 1 ELSE 0
    BY <1>1, <2>1, <2>2 DEF DaemonOK, Owned
  <2> QED BY <2>1, <2>3 DEF LocksAreHeld, InFlight, DaemonOK
<1> QED BY <1>2, Invariance, PTL

(* ReadsRightStorage: for any storages, whatever is refused.                  *)
THEOREM SpecReadsRightStorage == Spec => []ReadsRightStorage
<1>1. IInv => ReadsRightStorage
  <2> SUFFICES ASSUME IInv, daemon.at # <<>>, NEW c, c = Head(daemon.at), c.cmd \in Reads
               PROVE  device.mem1 = c.storage
    BY DEF ReadsRightStorage, Reads
  <2>1. QueueInv(daemon, device.mem1, Command) /\ IsSeq(daemon.at) BY DEF IInv, AllInv, QueueInv, DaemonOK
  <2>2. 1 \in DOMAIN daemon.at /\ c = daemon.at[1]
    <3> PICK t : t = Tail(daemon.at) OBVIOUS
    <3> QED BY <2>1, SeqTail
  <2>3. CommandOK(c) BY <2>1, <2>2 DEF QueueInv
  <2>4. c.locks1 /\ c.cmd # "cpms" BY <2>3 DEF CommandOK, Reads
  <2>5. Means(daemon, c) /\ (Selected(c) => device.mem1 = daemon.mem1) BY <2>1, <2>2 DEF QueueInv, Selects
  <2> QED BY <2>4, <2>5 DEF Means, Selected
<1> QED BY <1>1, Invariance, PTL

(* ReceivedIsWhole: for messages of any number of parts, those that the       *)
(* storages held when messaging was enabled included.                         *)
THEOREM SpecReceivedIsWhole == Spec => []ReceivedIsWhole
<1>1. IInv => ReceivedIsWhole
  <2> SUFFICES ASSUME IInv, NEW i \in Listed(daemon), NEW m, m = daemon.sms[i], m.multi
               PROVE  StateOK(m)
    BY DEF ReceivedIsWhole, StateOK
  <2>1. SmsOK(m) /\ m.listed BY DEF IInv, AllInv, SmsInv, Listed
  <2> QED BY <2>1 DEF SmsOK
<1> QED BY <1>1, Invariance, PTL

(* NothingTwice: for any number of arrivals and indications.                  *)
THEOREM SpecNothingTwice == Spec => []NothingTwice
<1>1. IInv => NothingTwice
  <2> SUFFICES ASSUME IInv, ~daemon.stray, NEW i \in Listed(daemon), NEW j \in Listed(daemon),
                      NEW k \in DOMAIN daemon.sms[i].parts, NEW l \in DOMAIN daemon.sms[j].parts,
                      daemon.sms[i].parts[k].origin = daemon.sms[j].parts[l].origin,
                      daemon.sms[i].parts[k].origin \in 1 .. MaxInputs,
                      daemon.sms[i].parts[k].index # 0, daemon.sms[j].parts[l].index # 0
               PROVE  i = j /\ k = l
    BY DEF NothingTwice
  <2> PICK seen : AllInv(daemon, device, Command, seen, inputs) BY DEF IInv
  <2> PICK m, p : m = daemon.sms[i] /\ p = daemon.sms[j] OBVIOUS
  <2>1. SmsInv(daemon, daemon.stray, seen, inputs) /\ i \in Ids /\ j \in Ids BY DEF AllInv, Listed
  <2>2. SmsOK(m) /\ SmsOK(p) /\ Knows(m, k, daemon.stray, seen, inputs) /\ Knows(p, l, daemon.stray, seen, inputs)
    BY <2>1 DEF SmsInv
  <2> PICK e : e = seen[m.parts[k].origin] OBVIOUS
  <2>3. /\ e.part.seq = k /\ (m.multi <=> e.part.ref # 0)
        /\ m.multi => e.part.ref = m.ref /\ e.part.max = m.max
        /\ ~m.multi => e.storage = m.storage /\ e.index = m.parts[k].index
    BY <2>2 DEF Knows
  <2>4. /\ e.part.seq = l /\ (p.multi <=> e.part.ref # 0)
        /\ p.multi => e.part.ref = p.ref /\ e.part.max = p.max
        /\ ~p.multi => e.storage = p.storage /\ e.index = p.parts[l].index
    BY <2>2 DEF Knows
  <2>5. ~m.user /\ ~p.user BY <2>2, NotArrived
  <2>6. CASE m.multi
    <3>1. SameReference(m, p) BY <2>3, <2>4, <2>5, <2>6 DEF SameReference
    <3> QED BY <2>1, <2>3, <2>4, <3>1 DEF SmsInv
  <2>7. CASE ~m.multi
    <3>1. SamePlace(m, k, p, l) BY <2>3, <2>4, <2>7 DEF SamePlace
    <3> QED BY <2>1, <3>1 DEF SmsInv
  <2> QED BY <2>6, <2>7
<1> QED BY <1>1, Invariance, PTL
=============================================================================
