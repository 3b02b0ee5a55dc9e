---------------------------- MODULE ModemOpLock ----------------------------
(***************************************************************************)
(* The exclusive operation lock of a modem object                          *)
(* (src/src/mm-base-modem.c, "Exclusive operation"): D-Bus method handlers *)
(* and state operations (initialize, enable, disable, sync) line up in     *)
(* scheduled_operations, the head of which runs.                           *)
(*                                                                         *)
(* A request is a slot a caller uses again and again.  The result of the   *)
(* wait task reaches its caller in a later main loop iteration (LockReady, *)
(* AbortReady); an unlock may also deliver it in the same iteration, which *)
(* is the behaviour with no other step in between.                         *)
(***************************************************************************)
EXTENDS Integers, Sequences

CONSTANTS
  Requests,   \* slots for concurrent lock requests
  Override,   \* those with MM_OPERATION_PRIORITY_OVERRIDE
  MaxId       \* G_MAXSSIZE, where operation_id wraps

ASSUME ModemOpLockAssumption ==
  /\ Override \subseteq Requests
  /\ MaxId \in Nat

VARIABLES
  ops,        \* scheduled_operations
  forbidden,  \* scheduled_operations_forbidden_forever
  nextId,     \* the static operation_id
  phase,      \* where each request is
  held,       \* the id its caller got, -1 for none
  failed      \* a g_assert failed

vars == <<ops, forbidden, nextId, phase, held, failed>>

Phases == {"idle", "authorizing", "waiting", "granted", "running", "aborting"}

(* OperationInfo; waiting: wait_task is set.                                *)
Operation == [req : Requests, id : 0 .. MaxId, waiting : BOOLEAN]

TypeOK ==
  /\ ops \in Seq(Operation)
  /\ forbidden \in BOOLEAN
  /\ nextId \in 0 .. MaxId
  /\ phase \in [Requests -> Phases]
  /\ held \in [Requests -> -1 .. MaxId]
  /\ failed \in BOOLEAN

Init ==
  /\ ops = <<>>
  /\ forbidden = FALSE
  /\ nextId = 0
  /\ phase = [r \in Requests |-> "idle"]
  /\ held = [r \in Requests |-> -1]
  /\ failed = FALSE

----------------------------------------------------------------------------
(* base_modem_operation_run on a list, with the other requests as ph.        *)
OperationRun(list, ph) ==
  IF list # <<>> /\ list[1].waiting
    THEN /\ ops' = [list EXCEPT ![1].waiting = FALSE]
         /\ phase' = [ph EXCEPT ![list[1].req] = "granted"]
         /\ held' = [held EXCEPT ![list[1].req] = list[1].id]
    ELSE ops' = list /\ phase' = ph /\ UNCHANGED held

Running(list) == {i \in DOMAIN list : ~list[i].waiting}

(* Mutant: the whole list is dropped, the running head with it.             *)
KeptNone(list) == <<>>

(* abort_pending_operations: what stays in the list, and the rest.          *)
Kept(list) ==
  IF Running(list) = {} THEN <<>> ELSE <<list[CHOOSE i \in Running(list) : TRUE]>>

Aborted(list) == {list[i].req : i \in DOMAIN list \ Running(list)}

(* The id after this one: the counter wraps at G_MAXSSIZE.                   *)
IdAfter(id) == IF id = MaxId THEN 0 ELSE id + 1

(* Mutants: no test of the forbidden flag; an override does not abort; a     *)
(* request goes ahead of those who wait.                                     *)
OperationLockAlways(r) ==
  LET info == [req |-> r, id |-> nextId, waiting |-> TRUE]
  IN  /\ nextId' = IdAfter(nextId)
      /\ forbidden' = (forbidden \/ r \in Override)
      /\ OperationRun(Append(ops, info), [phase EXCEPT ![r] = "waiting"])
      /\ UNCHANGED failed

OperationLockNoAbort(r) ==
  LET info == [req |-> r, id |-> nextId, waiting |-> TRUE]
  IN  IF forbidden
        THEN /\ phase' = [phase EXCEPT ![r] = "aborting"]
             /\ UNCHANGED <<ops, forbidden, nextId, held, failed>>
        ELSE /\ nextId' = IdAfter(nextId)
             /\ forbidden' = (r \in Override)
             /\ OperationRun(Append(ops, info), [phase EXCEPT ![r] = "waiting"])
             /\ UNCHANGED failed

OperationLockAhead(r) ==
  LET info == [req |-> r, id |-> nextId, waiting |-> TRUE]
  IN  /\ ~forbidden
      /\ nextId' = IdAfter(nextId)
      /\ OperationRun(IF ops = <<>> THEN <<info>> ELSE <<ops[1], info>> \o Tail(ops),
                      [phase EXCEPT ![r] = "waiting"])
      /\ UNCHANGED <<forbidden, failed>>

(* mm_base_modem_operation_lock.                                            *)
OperationLock(r) ==
  LET info    == [req |-> r, id |-> nextId, waiting |-> TRUE]
      queued  == [phase EXCEPT ![r] = "waiting"]
      dropped == [q \in Requests |-> IF q \in Aborted(ops) THEN "aborting" ELSE queued[q]]
  IN  IF forbidden
        THEN /\ phase' = [phase EXCEPT ![r] = "aborting"]
             /\ UNCHANGED <<ops, forbidden, nextId, held, failed>>
        ELSE /\ nextId' = IdAfter(nextId)
             /\ IF r \in Override
                  THEN /\ forbidden' = TRUE
                       /\ failed' = (failed \/ \E i, j \in Running(ops) : i # j)
                       /\ OperationRun(Append(Kept(ops), info), dropped)
                  ELSE /\ OperationRun(Append(ops, info), queued)
                       /\ UNCHANGED <<forbidden, failed>>

(* The three asserts of mm_base_modem_operation_unlock.                     *)
UnlockAllowed(id) == ops # <<>> /\ ~ops[1].waiting /\ ops[1].id = id

(* Mutant: the next operation is not run.                                   *)
UnlockQuietly(r) ==
  IF UnlockAllowed(held[r])
    THEN /\ ops' = Tail(ops)
         /\ phase' = [phase EXCEPT ![r] = "idle"]
         /\ UNCHANGED <<held, failed>>
    ELSE failed' = TRUE /\ UNCHANGED <<ops, phase, held>>

(* mm_base_modem_operation_unlock                                           *)
Unlock(r) ==
  IF UnlockAllowed(held[r])
    THEN OperationRun(Tail(ops), [phase EXCEPT ![r] = "idle"]) /\ UNCHANGED failed
    ELSE failed' = TRUE /\ UNCHANGED <<ops, phase, held>>

----------------------------------------------------------------------------
(* A D-Bus method: mm_base_modem_authorize_and_operation_lock.              *)
AuthorizeAndLock(r) ==
  /\ ~failed
  /\ phase[r] = "idle"
  /\ phase' = [phase EXCEPT ![r] = "authorizing"]
  /\ UNCHANGED <<ops, forbidden, nextId, held, failed>>

(* authorize_before_lock_ready                                              *)
Refused(r) ==
  /\ ~failed
  /\ phase[r] = "authorizing"
  /\ phase' = [phase EXCEPT ![r] = "idle"]
  /\ UNCHANGED <<ops, forbidden, nextId, held, failed>>

Authorized(r) ==
  /\ ~failed
  /\ phase[r] = "authorizing"
  /\ OperationLock(r)

(* state_operation with MM_OPERATION_LOCK_REQUIRED.                         *)
StateOperation(r) ==
  /\ ~failed
  /\ phase[r] = "idle"
  /\ OperationLock(r)

(* lock_before_state_operation_ready, lock_after_authorize_ready with the   *)
(* id, or with the error.                                                   *)
LockReady(r) ==
  /\ ~failed
  /\ phase[r] = "granted"
  /\ phase' = [phase EXCEPT ![r] = "running"]
  /\ UNCHANGED <<ops, forbidden, nextId, held, failed>>

AbortReady(r) ==
  /\ ~failed
  /\ phase[r] = "aborting"
  /\ phase' = [phase EXCEPT ![r] = "idle"]
  /\ UNCHANGED <<ops, forbidden, nextId, held, failed>>

(* state_operation_ready, or the handler's context is freed.                *)
OperationDone(r) ==
  /\ ~failed
  /\ phase[r] = "running"
  /\ Unlock(r)
  /\ UNCHANGED <<forbidden, nextId>>

Step(r) ==
  \/ AuthorizeAndLock(r) \/ Refused(r) \/ Authorized(r) \/ StateOperation(r)
  \/ LockReady(r) \/ AbortReady(r) \/ OperationDone(r)

Next == \E r \in Requests : Step(r)

(* The main loop delivers results; operations and polkit end, if only by    *)
(* their timeouts.                                                          *)
Fairness ==
  \A r \in Requests :
    /\ WF_vars(LockReady(r)) /\ WF_vars(AbortReady(r)) /\ WF_vars(OperationDone(r))
    /\ WF_vars(Refused(r) \/ Authorized(r))

Spec == Init /\ [][Next]_vars /\ Fairness

----------------------------------------------------------------------------
Holders == {r \in Requests : phase[r] \in {"granted", "running"}}

(* Two operations never run at the same time, whatever is requested, aborted *)
(* and unlocked in between.                                                  *)
MutualExclusion == \A q, r \in Holders : q = r

(* No assert of lock, abort and unlock can fail: the holder is always the     *)
(* head of the list and unlocks with the id of the head, also after the id    *)
(* counter wraps.                                                             *)
AssertsHold == ~failed

(* The lock is never free while somebody waits, and who waits is in the list  *)
(* once: no request is lost or left behind by an abort or an unlock.          *)
NobodyForgotten ==
  \A r \in Requests :
    phase[r] = "waiting" =>
      \E i \in 2 .. Len(ops) : /\ ops[i].req = r /\ ops[i].waiting
                               /\ ops[1].req \in Holders

(* First come, first served: whoever waits is never overtaken, neither by     *)
(* those behind in the list nor by those who ask later, through the grants,   *)
(* aborts and unlocks in between.                                             *)
Ahead(q, r, list) == \E i, j \in 2 .. Len(list) : i < j /\ list[i].req = q /\ list[j].req = r

ServedInOrder ==
  [][\A q, r \in Requests :
       /\ phase[q] = "waiting" /\ phase'[q] = "waiting"
       /\ Ahead(q, r, ops) \/ phase[r] \in {"idle", "authorizing", "aborting"}
       => /\ phase'[r] # "granted"
          /\ phase'[r] = "waiting" => Ahead(q, r, ops')]_vars

(* mm-iface-op-lock.h: after an override request nothing but the override is  *)
(* ever granted the lock.                                                     *)
OverrideIsLast ==
  [][\A r \in Requests \ Override :
       forbidden /\ phase[r] # "granted" => phase'[r] # "granted"]_vars

(* The lock implements the abstract mutex.                                    *)
Mutex == INSTANCE OperationMutex
           WITH holders <- Holders,
                waiting <- {r \in Requests : phase[r] = "waiting"},
                closed  <- forbidden

MutexSpec == Mutex!Spec

(* Every request is granted, refused or aborted.                              *)
EveryRequestEnds ==
  \A r \in Requests : phase[r] \in {"authorizing", "waiting"} ~> phase[r] \in {"idle", "running"}

----------------------------------------------------------------------------
(* The inductive invariant: exactly the head of the list is not waiting, and  *)
(* the phases say what the list says.                                         *)
IInv ==
  /\ TypeOK
  /\ AssertsHold
  /\ \A i \in 1 .. Len(ops) : ops[i].waiting <=> i > 1
  /\ \A i, j \in 1 .. Len(ops) : ops[i].req = ops[j].req => i = j
  /\ \A i \in 2 .. Len(ops) : phase[ops[i].req] = "waiting"
  /\ \A r \in Requests : phase[r] = "waiting" => \E i \in 2 .. Len(ops) : ops[i].req = r
  /\ Len(ops) > 0 => ops[1].req \in Holders /\ held[ops[1].req] = ops[1].id
  /\ \A r \in Holders : Len(ops) > 0 /\ ops[1].req = r
  /\ forbidden => \A i \in 2 .. Len(ops) : ops[i].req \in Override
=============================================================================
