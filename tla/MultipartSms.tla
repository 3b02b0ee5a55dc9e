---------------------------- MODULE MultipartSms ----------------------------
(***************************************************************************)
(* Messaging over AT (src/src/mm-sms-list.c, mm-base-sms.c, mm-sms-at.c    *)
(* and the messaging part of mm-broadband-modem.c): the list of messages   *)
(* that the daemon assembles from parts, the storages of the modem that    *)
(* hold those parts, and the lock of the two storages that are selected    *)
(* with AT+CPMS (mem1 to read, list and delete, mem2 to write and to send  *)
(* from storage).                                                          *)
(*                                                                         *)
(* Every operation is a chain of AT commands of which one is outstanding;  *)
(* the record of that command carries the context of the operation.  The   *)
(* port answers the commands in the order they were sent.  A command is    *)
(* executed by the modem in one step and its answer handled by the daemon  *)
(* in another: an indication may come in between.  The prompt and the data *)
(* of a written message are one command.                                   *)
(***************************************************************************)
EXTENDS Integers, Sequences, FiniteSetsExt

CONSTANTS
  Storages,       \* of messages in the modem
  Slots,          \* indexes of a storage
  References,     \* of multipart messages; all have the same other party
  Incoming,       \* parts that may arrive: [ref, seq, max], ref 0: not multipart
  Sizes,          \* number of parts of the messages that users create
  InitialStores,  \* what the storages may hold when messaging is enabled
  ListOrder,      \* the storages in the order in which they are listed
  PduModes,       \* whether messages may be exchanged as PDUs (TRUE) or as text
  None,           \* no storage (MM_SMS_STORAGE_UNKNOWN)
  MaxSms,         \* bound on the message objects
  MaxInputs       \* bound on arrivals, indications, calls and failures

(* Part number seq of the message that was the origin-th to come into being:   *)
(* what arrives counts from 1 on, what was there before or users write has a   *)
(* number that is out of the bound on arrivals.                                *)
(* state: what the modem says of it when it lists it.                          *)
Parts == [origin : Nat, ref : References \union {0}, seq : Nat, max : Nat,
          state : {"received", "stored", "sent"}]
NoPart == [origin |-> 0, ref |-> 0, seq |-> 0, max |-> 0, state |-> "received"]

(* A message in text is a single one, whatever it is a part of.                *)
AsShown(pdu, part) ==
  IF pdu \/ part.max = 0 THEN part ELSE [part EXCEPT !.ref = 0, !.seq = 0, !.max = 1]

ASSUME MultipartSmsAssumption ==
  /\ Slots \subseteq Nat \ {0} /\ IsFiniteSet(Slots) /\ References \subseteq Nat \ {0}
  /\ None \notin Storages /\ ListOrder \in Seq(Storages)
  /\ \A p \in Incoming : p.seq \in Nat /\ p.max \in Nat /\ p.ref \in References \union {0}
  /\ InitialStores \subseteq [Storages -> [Slots -> Parts]]
  /\ \A stored \in InitialStores, s \in Storages, i \in Slots : stored[s][i].origin \notin 1 .. MaxInputs
  /\ PduModes \subseteq BOOLEAN /\ Sizes \subseteq Nat /\ MaxSms \in Nat /\ MaxInputs \in Nat

VARIABLES
  device,  \* the modem: selected mem1, mem2 and mem3, and what is stored
  daemon,  \* MMBroadbandModemPrivate, the MMSmsList and the commands in flight
  inputs   \* how many of MaxInputs are used up

vars == <<device, daemon, inputs>>

Ids == 1 .. MaxSms

(* MMBaseSmsPrivate.  submit: the PDU type is SUBMIT.  parts: by sequence, the *)
(* index in the storage (0: not stored) and, as a history, the origin of the   *)
(* part.  user is a history as well: a client created the message.             *)
NewSms == [listed |-> FALSE, user |-> FALSE, submit |-> FALSE, state |-> "unknown", storage |-> None,
           multi |-> FALSE, max |-> 0, ref |-> 0, parts |-> <<>>]

(* A command and the context of its operation.                                *)
Command == [op |-> "none", cmd |-> "none", sms |-> 0, seq |-> 0, index |-> 0, storage |-> None,
            locks1 |-> FALSE, locks2 |-> FALSE, mem1 |-> None, mem2 |-> None, mem3 |-> None,
            previous1 |-> None, previous2 |-> None, failed |-> FALSE,
            status |-> "sent", got |-> {}]

(* The storages are known: modem_messaging_init_current_storages has ended.   *)
(* kept is a history: nothing will unlock mem1 any more.                      *)
Init ==
  /\ \E s \in Storages, m \in Storages, stored \in InitialStores, pdu \in PduModes :
       /\ device = [mem1 |-> m, mem2 |-> s, mem3 |-> s,
                    stored |-> [r \in Storages |-> [i \in Slots |-> AsShown(pdu, stored[r][i])]]]
       /\ daemon = [mem1 |-> m, mem2 |-> s, held1 |-> FALSE, held2 |-> FALSE, default |-> s,
                    pdu |-> pdu, kept |-> FALSE,
                    sms |-> [i \in Ids |-> NewSms], used |-> 0, at |-> <<>>, loading |-> 0,
                    stray |-> FALSE, crashed |-> FALSE]
  /\ inputs = 0

----------------------------------------------------------------------------
(* The list of messages.                                                    *)
Listed(d) == {i \in Ids : d.sms[i].listed}

(* Mutant: only the parts of multipart messages are looked at.              *)
has_part_of_multipart(d, storage, index) ==
  \E i \in Listed(d) : /\ d.sms[i].storage = storage /\ d.sms[i].multi
                       /\ \E k \in DOMAIN d.sms[i].parts : d.sms[i].parts[k].index = index

(* mm_sms_list_has_part *)
has_part(d, storage, index) ==
  \E i \in Listed(d) : /\ d.sms[i].storage = storage
                       /\ \E k \in DOMAIN d.sms[i].parts : d.sms[i].parts[k].index = index

(* assemble_sms succeeds *)
Assembles(m) == m.max = 1 \/ \A k \in 1 .. m.max : k \in DOMAIN m.parts

WithPart(m, part, index) ==
  [m EXCEPT !.parts = [k \in DOMAIN @ \union {part.seq} |->
                         IF k = part.seq THEN [index |-> index, origin |-> part.origin] ELSE @[k]]]

(* Mutant: a complete message is taken for an assembled one.                *)
multipart_take_part_counting(m, part, index) ==
  LET with == WithPart(m, part, index)
  IN IF Cardinality(DOMAIN with.parts) = m.max /\ m.state = "receiving"
       THEN [with EXCEPT !.state = "received"] ELSE with

(* mm_base_sms_multipart_take_part, of a part that it does not refuse        *)
multipart_take_part(m, part, index) ==
  LET with == WithPart(m, part, index)
  IN IF Cardinality(DOMAIN with.parts) = m.max /\ Assembles(with) /\ m.state = "receiving"
       THEN [with EXCEPT !.state = "received"] ELSE with

(* The part is not refused.                                                  *)
TakesPart(m, part) ==
  /\ Cardinality(DOMAIN m.parts) < m.max
  /\ part.seq \notin DOMAIN m.parts
  /\ part.seq <= m.max

(* cmp_sms_by_number_reference *)
SameMessage(m, part) == m.multi /\ m.ref = part.ref /\ m.max = part.max

(* _add_sms_internal *)
AddSms(d, m) == [d EXCEPT !.used = @ + 1, !.sms[d.used + 1] = [m EXCEPT !.listed = TRUE]]

(* take_singlepart and take_multipart: the newest message with the reference *)
(* of the part takes it, and stays in its state unless it was incomplete.    *)
(* What was stored or sent from here is a SUBMIT.                            *)
take_new_part(d, part, index, storage, state) ==
  LET same == {i \in Listed(d) : SameMessage(d.sms[i], part)}
      i    == Max(same)
      new  == [NewSms EXCEPT !.state = IF part.ref # 0 /\ state = "received" THEN "receiving" ELSE state,
                             !.submit = part.state # "received", !.storage = storage,
                             !.max = part.max, !.multi = part.ref # 0, !.ref = part.ref]
  IN IF part.ref = 0
       THEN AddSms(d, WithPart(new, part, index))
     ELSE IF same = {}
       THEN IF TakesPart(new, part) THEN AddSms(d, multipart_take_part(new, part, index)) ELSE d
     ELSE IF TakesPart(d.sms[i], part)
       THEN [d EXCEPT !.sms[i] = multipart_take_part(@, part, index)]
     ELSE d

(* mm_sms_list_take_part                                                     *)
take_part(d, part, index, storage, state) ==
  IF has_part(d, storage, index) THEN d ELSE take_new_part(d, part, index, storage, state)

----------------------------------------------------------------------------
(* The lock of the storages.                                                *)

(* Mutant: mem1 is not held against the others.                             *)
CanLockMem1Always(d, mem1, mem2) == ~(mem2 # None /\ d.held2)

CanLock(d, mem1, mem2) == ~(mem1 # None /\ d.held1) /\ ~(mem2 # None /\ d.held2)

Send(d, c) == [d EXCEPT !.at = Append(@, c)]

(* modem_messaging_lock_storages, not refused                                *)
lock_storages(d, mem1, mem2, c) ==
  LET l == [d EXCEPT !.mem1  = IF mem1 = None THEN @ ELSE mem1,
                     !.held1 = @ \/ mem1 # None,
                     !.mem2  = IF mem2 = None THEN @ ELSE mem2,
                     !.held2 = @ \/ mem2 # None]
  IN Send(l, [c EXCEPT !.cmd = "cpms", !.locks1 = mem1 # None, !.locks2 = mem2 # None,
                       !.mem1 = l.mem1, !.mem2 = mem2,
                       !.previous1 = d.mem1, !.previous2 = d.mem2])

(* Mutant: a failed lock stays locked.                                      *)
lock_storages_failed_locked(d, c) ==
  [d EXCEPT !.mem1 = IF c.locks1 THEN c.previous1 ELSE @, !.mem2 = IF c.locks2 THEN c.previous2 ELSE @]

(* lock_storages_cpms_set_ready, with an error                               *)
lock_storages_failed(d, c) ==
  [d EXCEPT !.mem1  = IF c.locks1 THEN c.previous1 ELSE @,
            !.held1 = @ /\ ~c.locks1,
            !.mem2  = IF c.locks2 THEN c.previous2 ELSE @,
            !.held2 = @ /\ ~c.locks2]

(* modem_messaging_unlock_storages, of what the operation locked             *)
unlock_storages(d, c) ==
  [d EXCEPT !.crashed = @ \/ (c.locks1 /\ ~d.held1) \/ (c.locks2 /\ ~d.held2),
            !.held1 = @ /\ ~c.locks1,
            !.held2 = @ /\ ~c.locks2]

----------------------------------------------------------------------------
(* Reading: the initial list and the indications.                           *)

(* load_initial_sms_parts_from_storages: a storage that is locked, here by   *)
(* a deletion, is left out.                                                  *)
load_from_storages(d) ==
  LET from(n) == \A k \in d.loading .. n - 1 : ~CanLock(d, ListOrder[k], None)
      next    == {n \in d.loading .. Len(ListOrder) : from(n) /\ CanLock(d, ListOrder[n], None)}
  IN IF next = {} THEN [d EXCEPT !.loading = Len(ListOrder) + 1]
     ELSE LET n == Min(next)
          IN lock_storages([d EXCEPT !.loading = n], ListOrder[n], None,
                           [Command EXCEPT !.op = "list", !.storage = ListOrder[n]])

LoadNext(d) == load_from_storages([d EXCEPT !.loading = @ + 1])

(* The parts of a list are taken in the order of their indexes, each with the *)
(* state that the modem gives it.                                             *)
LastOf(S) == CHOOSE e \in S : \A o \in S : o.index <= e.index

take_parts(d, all, storage) ==
  LET f[S \in SUBSET all] ==
        IF S = {} THEN d
        ELSE LET l == LastOf(S)
             IN take_part(f[S \ {l}], l.part, l.index, storage, l.part.state)
  IN f[all]

(* sms_pdu_part_list_ready and sms_text_part_list_ready, which leaves mem1    *)
(* locked, whatever the answer is.                                            *)
sms_part_list_ready(d, c) ==
  LET u == IF d.pdu THEN unlock_storages(d, c) ELSE [d EXCEPT !.kept = @ \/ c.locks1]
  IN LoadNext(take_parts(u, c.got, c.storage))

(* cmti_received *)
cmti_received(d, storage, index) ==
  IF has_part(d, storage, index) \/ ~CanLock(d, storage, None) THEN d
  ELSE lock_storages(d, storage, None,
         [Command EXCEPT !.op = "indication", !.storage = storage, !.index = index])

(* sms_part_ready: the part goes to the default storage, whatever storage    *)
(* was indicated.  A text is not understood: only the answer of the PDU mode  *)
(* is parsed.                                                                 *)
sms_part_ready(d, c) ==
  LET u == unlock_storages(d, c)
  IN IF c.status # "ok" \/ c.got = {} \/ ~d.pdu THEN u
     ELSE LET part  == (CHOOSE e \in c.got : TRUE).part
              taken == take_part(u, part, c.index, u.default, "received")
          IN [taken EXCEPT !.stray = @ \/ (taken # u /\ c.storage # u.default)]

----------------------------------------------------------------------------
(* Deleting.                                                                *)

(* delete_ready of the list, mm_base_sms_delete_finish                       *)
DeleteDone(d, i) == [d EXCEPT !.sms[i].listed = FALSE, !.sms[i].state = "unknown"]

(* delete_next_part: parts that are not stored are skipped.                  *)
delete_next_part(d, c) ==
  LET parts == d.sms[c.sms].parts
      left  == {k \in DOMAIN parts : k > c.seq /\ parts[k].index # 0}
      u     == unlock_storages(d, c)
  IN IF left # {}
       THEN Send(d, [c EXCEPT !.cmd = "cmgd", !.status = "sent", !.seq = Min(left),
                              !.index = parts[Min(left)].index])
     ELSE IF c.failed THEN u ELSE DeleteDone(u, c.sms)

(* sms_delete *)
sms_delete(d, i) ==
  IF d.sms[i].storage = None THEN DeleteDone(d, i)
  ELSE IF ~CanLock(d, d.sms[i].storage, None) THEN d
  ELSE lock_storages(d, d.sms[i].storage, None,
         [Command EXCEPT !.op = "delete", !.sms = i, !.seq = -1, !.storage = d.sms[i].storage])

(* delete_part_ready *)
delete_part_ready(d, c) ==
  delete_next_part([d EXCEPT !.sms[c.sms].parts[c.seq].index = 0],
                   [c EXCEPT !.failed = @ \/ c.status # "ok"])

----------------------------------------------------------------------------
(* Storing and sending what users created.                                  *)

(* generate_submit_pdus: as many parts as the text needs                     *)
Generated(m, i) ==
  IF m.parts # <<>> THEN m
  ELSE [m EXCEPT !.parts = [k \in 1 .. m.max |-> [index |-> 0, origin |-> MaxInputs + 1 + i]],
                 !.multi = m.max > 1]

(* mm_sms_list_has_local_multipart_reference                                 *)
UsedReferences(d) ==
  {d.sms[i].ref : i \in {i \in Listed(d) : /\ d.sms[i].multi /\ d.sms[i].submit
                                           /\ d.sms[i].storage # None}}

(* prepare_sms_to_be_stored with set_local_multipart_reference: any reference *)
(* that is not in use may come out (the search starts at a random one), and   *)
(* mm_base_sms_set_multipart_reference keeps one that is already set.         *)
PreparedToStore(d, i) ==
  LET m    == Generated(d.sms[i], i)
      free == References \ UsedReferences(d)
  IN IF m.multi /\ m.ref = 0 /\ free # {} THEN {[m EXCEPT !.ref = r] : r \in free} ELSE {m}

(* prepare_sms_to_be_sent: a random reference                                *)
PreparedToSend(d, i) ==
  LET m == Generated(d.sms[i], i)
  IN IF d.sms[i].parts = <<>> /\ m.multi THEN {[m EXCEPT !.ref = r] : r \in References} ELSE {m}

(* The context, moved to the part k and the command that it takes.           *)
NextPart(d, c, k, cmd) ==
  Send(d, [c EXCEPT !.cmd = cmd, !.status = "sent", !.seq = k,
                    !.index = d.sms[c.sms].parts[k].index])

(* sms_store_next_part, handle_store_ready when all are written              *)
sms_store_next_part(d, c) ==
  IF c.seq < d.sms[c.sms].max THEN NextPart(d, c, c.seq + 1, "cmgw")
  ELSE LET u == unlock_storages(d, c)
       IN [u EXCEPT !.sms[c.sms].storage = c.storage,
                    !.sms[c.sms].state = IF @ = "unknown" THEN "stored" ELSE @]

(* store_msg_data_ready *)
store_msg_data_ready(d, c) ==
  IF c.status # "ok" THEN unlock_storages(d, c)
  ELSE LET e == CHOOSE e \in c.got : TRUE
           w == [d EXCEPT !.sms[c.sms].parts[c.seq].index = e.index,
                          !.stray = @ \/ e.storage # c.storage]
       IN sms_store_next_part(w, c)

(* sms_send_next_part, handle_send_ready when all are sent: all the parts     *)
(* that the message has, which need not be all that it should have.           *)
sms_send_next_part(d, c) ==
  LET left == {k \in DOMAIN d.sms[c.sms].parts : k > c.seq}
  IN IF left # {} THEN NextPart(d, c, Min(left), IF c.storage = None THEN "cmgs" ELSE "cmss")
     ELSE [unlock_storages(d, c) EXCEPT
             !.sms[c.sms].state = IF @ \in {"unknown", "stored"} THEN "sent" ELSE @]

(* send_from_storage_ready, send_generic_msg_data_ready: what cannot be sent *)
(* from storage is sent again, unless there was no answer.                   *)
send_ready(d, c) ==
  IF c.status = "ok" THEN sms_send_next_part(d, c)
  ELSE IF c.cmd = "cmss" /\ c.status = "error"
    THEN sms_send_next_part(d, [c EXCEPT !.storage = None, !.seq = @ - 1])
  ELSE unlock_storages(d, c)

----------------------------------------------------------------------------
(* The answer to a command.                                                 *)

(* The operation goes on once the storages are selected.                    *)
Locked(d, c) ==
  CASE c.op = "indication" -> Send(d, [c EXCEPT !.cmd = "cmgr", !.status = "sent"])
    [] c.op = "list"       -> Send(d, [c EXCEPT !.cmd = "cmgl", !.status = "sent"])
    [] c.op = "delete"     -> delete_next_part(d, c)
    [] c.op = "store"      -> sms_store_next_part(d, c)
    [] c.op = "send"       -> sms_send_next_part(d, c)

NotLocked(d, c) ==
  LET f == lock_storages_failed(d, c) IN IF c.op = "list" THEN LoadNext(f) ELSE f

(* handle_set_default_storage_ready *)
set_default_storage_ready(d, c) == IF c.status = "ok" THEN [d EXCEPT !.default = c.storage] ELSE d

Ready(d, c) ==
  CASE c.op = "default" -> set_default_storage_ready(d, c)
    [] c.op # "default" /\ c.cmd = "cpms" -> IF c.status = "ok" THEN Locked(d, c) ELSE NotLocked(d, c)
    [] c.cmd = "cmgr" -> sms_part_ready(d, c)
    [] c.cmd = "cmgl" -> sms_part_list_ready(d, c)
    [] c.cmd = "cmgd" -> delete_part_ready(d, c)
    [] c.cmd = "cmgw" -> store_msg_data_ready(d, c)
    [] c.cmd \in {"cmss", "cmgs"} -> send_ready(d, c)

Answered ==
  /\ daemon.at # <<>> /\ Head(daemon.at).status # "sent"
  /\ daemon' = Ready([daemon EXCEPT !.at = Tail(@)], Head(daemon.at))
  /\ UNCHANGED <<device, inputs>>

----------------------------------------------------------------------------
(* The modem.                                                               *)
Used(n) == inputs < MaxInputs /\ inputs' = inputs + 1

Stored(s) == {i \in Slots : device.stored[s][i] # NoPart}

(* What there is in a storage, as a reading command returns it.              *)
Entries(s, indexes) == {[index |-> i, storage |-> s, part |-> device.stored[s][i]] : i \in indexes}

PartOf(c) == LET m == daemon.sms[c.sms]
             IN [origin |-> m.parts[c.seq].origin, ref |-> m.ref, seq |-> c.seq, max |-> m.max,
                 state |-> "stored"]

With(c, got) == [daemon EXCEPT !.at[1] = [c EXCEPT !.status = "ok", !.got = got]]

(* The modem does what the command says: the index means one of the selected *)
(* storage.                                                                  *)
Execute ==
  /\ daemon.at # <<>> /\ UNCHANGED inputs
  /\ LET c == Head(daemon.at) IN
     /\ c.status = "sent"
     /\ \/ /\ c.cmd = "cpms"
           /\ device' = [device EXCEPT !.mem1 = c.mem1,
                                       !.mem2 = IF c.mem2 = None THEN @ ELSE c.mem2,
                                       !.mem3 = IF c.mem3 = None THEN @ ELSE c.mem3]
           /\ daemon' = With(c, {})
        \/ /\ c.cmd = "cmgr"
           /\ daemon' = With(c, Entries(device.mem1, {c.index} \intersect Stored(device.mem1)))
           /\ UNCHANGED device
        \/ /\ c.cmd = "cmgl"
           /\ daemon' = With(c, Entries(device.mem1, Stored(device.mem1)))
           /\ UNCHANGED device
        \/ /\ c.cmd = "cmgd"
           /\ device' = [device EXCEPT !.stored[device.mem1][c.index] = NoPart]
           /\ daemon' = With(c, {})
        \/ /\ c.cmd = "cmgw"
           /\ \E i \in Slots \ Stored(device.mem2) :
                /\ device' = [device EXCEPT !.stored[device.mem2][i] = PartOf(c)]
                /\ daemon' = With(c, {[index |-> i, storage |-> device.mem2, part |-> PartOf(c)]})
        \/ /\ c.cmd = "cmgs" \/ (c.cmd = "cmss" /\ c.index \in Stored(device.mem2))
           /\ daemon' = With(c, {})
           /\ UNCHANGED device

(* The command fails, or its answer does not come.                          *)
Refuse ==
  /\ daemon.at # <<>> /\ Head(daemon.at).status = "sent"
  /\ Used(1)
  /\ \E e \in {"error", "timeout"} : daemon' = [daemon EXCEPT !.at[1].status = e]
  /\ UNCHANGED device

(* The bound on the objects: an operation under way may add one.             *)
HasRoom == daemon.used + (IF daemon.held1 /\ ~daemon.kept THEN 1 ELSE 0) < MaxSms

(* A part arrives and is indicated once the handlers are set up.             *)
Enabled == daemon.loading > Len(ListOrder)

Arrive ==
  /\ Enabled /\ HasRoom
  /\ Used(1)
  /\ \E p \in Incoming, i \in Slots \ Stored(device.mem3) :
       LET part == AsShown(daemon.pdu, [origin |-> inputs + 1, ref |-> p.ref, seq |-> p.seq, max |-> p.max,
                                        state |-> "received"]) IN
       /\ device' = [device EXCEPT !.stored[device.mem3][i] = part]
       /\ daemon' = cmti_received(daemon, device.mem3, i)

(* The indication is repeated, on another port.                             *)
IndicateAgain ==
  /\ Enabled /\ HasRoom
  /\ Used(1)
  /\ \E s \in Storages, i \in Slots :
       /\ device.stored[s][i].origin \in 1 .. MaxInputs
       /\ daemon' = cmti_received(daemon, s, i)
  /\ UNCHANGED device

----------------------------------------------------------------------------
(* The clients.                                                             *)

(* handle_create_auth_ready *)
Create ==
  /\ Enabled /\ HasRoom
  /\ Used(1)
  /\ \E n \in Sizes : daemon' = AddSms(daemon, [NewSms EXCEPT !.user = TRUE, !.submit = TRUE, !.max = n])
  /\ UNCHANGED device

(* handle_delete_auth_ready, mm_sms_list_delete_sms                          *)
Delete ==
  /\ Used(1)
  /\ \E i \in Listed(daemon) : daemon' = sms_delete(daemon, i)
  /\ UNCHANGED device

(* handle_store_auth_ready of a message that is not stored, sms_store        *)
Store ==
  /\ Used(1)
  /\ \E i \in Listed(daemon), s \in Storages :
       /\ daemon.sms[i].storage = None
       /\ \E m \in PreparedToStore(daemon, i) :
            LET d == [daemon EXCEPT !.sms[i] = m] IN
            daemon' = IF (m.multi /\ m.ref = 0) \/ ~CanLock(d, None, s) THEN d
                      ELSE lock_storages(d, None, s,
                             [Command EXCEPT !.op = "store", !.sms = i, !.storage = s])
  /\ UNCHANGED device

(* handle_send_auth_ready of a message that is not received or sent, sms_send *)
SendSms ==
  /\ Used(1)
  /\ \E i \in Listed(daemon) :
       /\ daemon.sms[i].state \notin {"received", "receiving", "sent"}
       /\ \E m \in PreparedToSend(daemon, i) :
            LET d == [daemon EXCEPT !.sms[i] = m]
                c == [Command EXCEPT !.op = "send", !.sms = i, !.seq = -1, !.storage = m.storage]
            IN daemon' = IF m.storage = None THEN sms_send_next_part(d, c)
                         ELSE IF ~CanLock(d, None, m.storage) THEN d
                         ELSE lock_storages(d, None, m.storage, c)
  /\ UNCHANGED device

(* handle_set_default_storage_auth_ready, modem_messaging_set_default_storage: *)
(* it takes no lock.                                                           *)
SetDefaultStorage ==
  /\ Used(1)
  /\ \E s \in Storages :
       daemon' = Send([daemon EXCEPT !.mem2 = s],
                      [Command EXCEPT !.op = "default", !.cmd = "cpms", !.storage = s,
                                      !.mem1 = daemon.mem1, !.mem2 = s, !.mem3 = s])
  /\ UNCHANGED device

(* The enabling of the interface lists what is stored.                       *)
StartLoading ==
  /\ daemon.loading = 0
  /\ daemon' = LoadNext(daemon)
  /\ UNCHANGED <<device, inputs>>

Next ==
  \/ StartLoading \/ Answered \/ Execute \/ Refuse \/ Arrive \/ IndicateAgain
  \/ Create \/ Delete \/ Store \/ SendSms \/ SetDefaultStorage

Spec == Init /\ [][Next]_vars

----------------------------------------------------------------------------
(* Type invariant.                                                          *)
TypeOK ==
  /\ device.mem1 \in Storages /\ device.mem2 \in Storages /\ device.mem3 \in Storages
  /\ \A s \in Storages, i \in Slots :
       /\ device.stored[s][i].ref \in References \union {0}
       /\ device.stored[s][i].origin \in 0 .. MaxInputs + 1 + MaxSms
  /\ daemon.mem1 \in Storages /\ daemon.mem2 \in Storages /\ daemon.default \in Storages
  /\ \A i \in Ids :
       /\ daemon.sms[i].state \in {"unknown", "receiving", "received", "stored", "sent"}
       /\ daemon.sms[i].storage \in Storages \union {None}
       /\ daemon.sms[i].listed => i <= daemon.used /\ Cardinality(DOMAIN daemon.sms[i].parts) <= daemon.sms[i].max
  /\ daemon.used \in 0 .. MaxSms
  /\ daemon.loading \in 0 .. Len(ListOrder) + 1
  /\ inputs \in 0 .. MaxInputs

(* mem1 and mem2 are locked exactly while one operation that locked them has *)
(* a command in flight: no operation ends without its unlock or unlocks for  *)
(* another, and the asserts of the unlock hold.  The one exception is the    *)
(* listing of texts, after which mem1 stays locked for good, with no         *)
(* operation that has it.                                                    *)
InFlight(locks(_)) == {n \in DOMAIN daemon.at : locks(daemon.at[n])}
LocksAreHeld ==
  /\ ~daemon.crashed
  /\ daemon.kept => daemon.held1 /\ ~daemon.pdu
  /\ Cardinality(InFlight(LAMBDA c : c.locks1)) = (IF daemon.held1 /\ ~daemon.kept THEN 1 ELSE 0)
  /\ Cardinality(InFlight(LAMBDA c : c.locks2)) = (IF daemon.held2 THEN 1 ELSE 0)

(* A multipart message is received exactly when it has every part: not when  *)
(* parts are repeated, out of range or of a message it only resembles; and   *)
(* what began with a part that came in is received or receiving.  Any part   *)
(* is the whole of a message of one part.                                    *)
Whole(m) == IF m.max = 1 THEN DOMAIN m.parts # {} ELSE \A k \in 1 .. m.max : k \in DOMAIN m.parts
ReceivedIsWhole ==
  \A i \in Listed(daemon) :
    LET m == daemon.sms[i] IN
    m.multi => /\ ~m.submit => m.state \in {"receiving", "received"}
               /\ m.state \in {"receiving", "received"} => (m.state = "received" <=> Whole(m))

(* What reads, lists or deletes by index is executed while the modem has the *)
(* storage selected that the operation means.                                *)
ReadsRightStorage ==
  daemon.at # <<>> =>
    LET c == Head(daemon.at) IN
    c.status = "sent" /\ c.cmd \in {"cmgr", "cmgl", "cmgd"} => device.mem1 = c.storage

(* No part that came in is kept twice, in one message or in two, however      *)
(* often it was indicated or listed: as long as no part was filed under a      *)
(* default storage other than the one it was read from, and of the parts whose *)
(* deletion did not fail.                                                     *)
NothingTwice ==
  ~daemon.stray =>
    \A i, j \in Listed(daemon) :
      \A k \in DOMAIN daemon.sms[i].parts, l \in DOMAIN daemon.sms[j].parts :
        LET p == daemon.sms[i].parts[k]
            q == daemon.sms[j].parts[l]
        IN p.origin = q.origin /\ p.origin \in 1 .. MaxInputs /\ p.index # 0 /\ q.index # 0
             => i = j /\ k = l

(* Deleting a message deletes nothing of another one: an index that is about  *)
(* to be deleted is free or holds the part that the message knows there.      *)
DeletesOnlyItself ==
  daemon.at # <<>> =>
    LET c == Head(daemon.at) IN
    c.status = "sent" /\ c.cmd = "cmgd" =>
      device.stored[device.mem1][c.index].origin \in {0, daemon.sms[c.sms].parts[c.seq].origin}
=============================================================================
