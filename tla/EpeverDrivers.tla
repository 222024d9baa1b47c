--------------------------- MODULE EpeverDrivers ----------------------------
(***************************************************************************)
(* A driver of the Modbus master: drivers/communication/ep_ip2000 or       *)
(* .../tracer6415an, its requests, its receive handlers and the check of a *)
(* reply by master_check_receive (system/rs485.c).                         *)
(*                                                                         *)
(* The callers are tasks that use the driver; the periodic task runs the   *)
(* receive handlers.  All have one priority and interleave.  The master    *)
(* (Uart1Master) takes one request at a time and reports its end once.     *)
(***************************************************************************)
EXTENDS Naturals, FiniteSets

CONSTANTS Callers,
          Nobody,     \* the NULL callback
          MaxLate     \* bound on the replies that are late at once

ASSUME DriverAssumption == Nobody \notin Callers /\ IsFiniteSet(Callers) /\ MaxLate \in Nat

VARIABLES
  driver,   \* which of the two drivers
  users,    \* the callers that use it
  prompt,   \* a request's call returns before its reply is handled
  lock,     \* ep2000_lock, epever_tracer6415an_lock
  err,      \* ep_ip2000err, epever_tracer6415an_err
  slot,     \* the callback registered for each receive handler
  pc, op,   \* where each caller is, and the operation it calls
  flight,   \* the operation whose request the master has, or "none"
  late,     \* operations whose timed out request may still be answered
  handler,  \* where the task is in a receive handler
  ended,    \* the operation whose receive handler runs
  pending,  \* history: the accepted operation each caller waits for
  record    \* what the handler that runs filled its record from

vars == <<driver, users, prompt, lock, err, slot, pc, op, flight, late, handler,
          ended, pending, record>>
settings == <<driver, users, prompt>>

(***************************************************************************)
(* The operations and their requests: the function, the registers or bits  *)
(* asked for, the size the handler compares and the bytes it copies.       *)
(***************************************************************************)
Operations == [ip2000 |-> {"sensors", "status", "over_temp", "read_coil", "write_coil"},
               tracer |-> {"rated", "real_time", "rt_status", "statistical", "settings"}]
Ops == Operations.ip2000 \cup Operations.tracer
Function(o) == CASE o = "over_temp" -> "READ_DISCRETE_INPUTS"
                 [] o = "read_coil" -> "READ_COILS"
                 [] o = "write_coil" -> "WRITE_SINGLE_COIL"
                 [] OTHER -> "READ_INPUT_REGISTERS"
Asked == [sensors |-> 11, status |-> 1, over_temp |-> 1, read_coil |-> 1, write_coil |-> 1,
          rated |-> 14, real_time |-> 29, rt_status |-> 2, statistical |-> 28, settings |-> 112]
Expected(o) == IF o = "statistical" THEN Asked.rt_status ELSE Asked[o]
Copied == [sensors |-> 22, status |-> 2, over_temp |-> 2, read_coil |-> 2, write_coil |-> 2,
           rated |-> 30, real_time |-> 56, rt_status |-> 6, statistical |-> 54, settings |-> 216]
\* Reads and writes of coils share one handler and one callback.
Slot(o) == IF o = "write_coil" THEN "read_coil" ELSE o
Slots == Ops \ {"write_coil"}

(***************************************************************************)
(* A served request is answered with this many bytes, and the master hands *)
(* over this data_size: registers are counted, all else in bytes.          *)
(***************************************************************************)
ReplyBytes(o) == CASE Function(o) = "READ_INPUT_REGISTERS" -> 2 * Asked[o]
                   [] Function(o) = "WRITE_SINGLE_COIL" -> 2
                   [] OTHER -> (Asked[o] + 7) \div 8
DataSizeInBytes(o) == ReplyBytes(o)

DataSize(o) == IF Function(o) = "READ_INPUT_REGISTERS" THEN ReplyBytes(o) \div 2
               ELSE ReplyBytes(o)

Status == {"success", "exception", "failed", "not_match", "busy", "refused"}
NoRecord == [from |-> "none", whole |-> FALSE]
Records == {NoRecord} \cup [from : Ops, whole : BOOLEAN]
CallPC == {"idle", "try", "send", "sent", "test", "free", "return"}

Init == /\ driver \in DOMAIN Operations
        /\ users \in (SUBSET Callers) \ {{}} /\ prompt \in BOOLEAN
        /\ lock = FALSE /\ err = "success" /\ slot = [s \in Slots |-> Nobody]
        /\ pc = [c \in Callers |-> "idle"] /\ op = [c \in Callers |-> "none"]
        /\ flight = "none" /\ late = {} /\ handler = "idle" /\ ended = "none"
        /\ pending = [c \in Callers |-> "none"]
        /\ record = NoRecord

Go(c, from, to) == pc[c] = from /\ pc' = [pc EXCEPT ![c] = to] /\ UNCHANGED settings
Tracer == driver = "tracer"

-----------------------------------------------------------------------------
(***************************************************************************)
(* A call: read_ep2000, rs485_epever_tracer6415an_read_rated_datum, ...    *)
(***************************************************************************)
\* A call that sends the request of the other driver.
CallOther(c, o) ==
  /\ c \in users
  /\ Go(c, "idle", "try")
  /\ op' = [op EXCEPT ![c] = o]
  /\ slot' = IF Tracer THEN [slot EXCEPT ![Slot(o)] = Nobody] ELSE slot
  /\ UNCHANGED <<lock, err, flight, late, handler, ended, pending, record>>

\* The tracer's calls clear the callback before they ask for the lock.
Call(c, o) ==
  /\ c \in users /\ o \in Operations[driver]
  /\ Go(c, "idle", "try")
  /\ op' = [op EXCEPT ![c] = o]
  /\ slot' = IF Tracer THEN [slot EXCEPT ![o] = Nobody] ELSE slot
  /\ UNCHANGED <<lock, err, flight, late, handler, ended, pending, record>>

\* The lock stays taken until the timeout.
Busy(c) ==
  /\ lock
  /\ Go(c, "try", "idle")
  /\ op' = [op EXCEPT ![c] = "none"]
  /\ err' = IF Tracer THEN "busy" ELSE err
  /\ UNCHANGED <<lock, slot, flight, late, handler, ended, pending, record>>

AcquireUnlocked(c) ==
  /\ Go(c, "try", "send")
  /\ lock' = TRUE /\ slot' = [slot EXCEPT ![Slot(op[c])] = c]
  /\ UNCHANGED <<err, op, flight, late, handler, ended, pending, record>>

Acquire(c) ==
  /\ ~ lock
  /\ Go(c, "try", "send")
  /\ lock' = TRUE /\ slot' = [slot EXCEPT ![Slot(op[c])] = c]
  /\ UNCHANGED <<err, op, flight, late, handler, ended, pending, record>>

\* master_send_req takes the request, or refuses it.
Send(c) ==
  /\ Go(c, "send", "sent")
  /\ flight = "none"
  /\ flight' = op[c] /\ pending' = [pending EXCEPT ![c] = op[c]]
  /\ UNCHANGED <<lock, err, slot, op, late, handler, ended, record>>

SendRefused(c) ==
  /\ Go(c, "send", "test")
  /\ err' = "refused"
  /\ UNCHANGED <<lock, slot, op, flight, late, handler, ended, pending, record>>

\* err = MASTER_READ_...(): the result 0 is stored after the request started.
Store(c) ==
  /\ Go(c, "sent", "test")
  /\ err' = "success"
  /\ UNCHANGED <<lock, slot, op, flight, late, handler, ended, pending, record>>

Test(c) ==
  /\ Go(c, "test", IF err = "success" THEN "return" ELSE "free")
  /\ UNCHANGED <<lock, err, slot, op, flight, late, handler, ended, pending, record>>

FreeKeepsLock(c) ==
  /\ Go(c, "free", "return")
  /\ slot' = [slot EXCEPT ![Slot(op[c])] = Nobody]
  /\ UNCHANGED <<lock, err, op, flight, late, handler, ended, pending, record>>

Free(c) ==
  /\ Go(c, "free", "return")
  /\ slot' = [slot EXCEPT ![Slot(op[c])] = Nobody] /\ lock' = FALSE
  /\ UNCHANGED <<err, op, flight, late, handler, ended, pending, record>>

Return(c) ==
  /\ Go(c, "return", "idle")
  /\ op' = [op EXCEPT ![c] = "none"]
  /\ UNCHANGED <<lock, err, slot, flight, late, handler, ended, pending, record>>

CallStep(c) == \/ Busy(c) \/ Acquire(c) \/ Send(c) \/ SendRefused(c) \/ Store(c) \/ Test(c)
               \/ Free(c) \/ Return(c)

-----------------------------------------------------------------------------
(***************************************************************************)
(* The end of a request.                                                   *)
(***************************************************************************)
\* The handler stores the status of a request that failed or was answered by
\* an exception; an unanswered one may be answered later.
EndFailed ==
  /\ flight # "none" /\ handler = "idle"
  /\ prompt => \A c \in users : pc[c] \notin {"sent", "test", "free", "return"}
  /\ err' \in {"failed", "exception"}
  /\ late' \in {late} \cup {l \in {late \cup {flight}} : Cardinality(l) <= MaxLate}
  /\ flight' = "none" /\ ended' = flight /\ handler' = "call"
  /\ UNCHANGED <<lock, slot, pc, op, pending, record, settings>>

\* The master accepts the reply r: to this request, or to an earlier one with
\* the same slave and function, for it has no other way to tell them apart.
Replies == {flight} \cup {r \in late : Function(r) = Function(flight)}

\* The size is not compared.
EndServedUnchecked ==
  /\ flight # "none" /\ handler = "idle"
  /\ prompt => \A c \in users : pc[c] \notin {"sent", "test", "free", "return"}
  /\ \E r \in Replies :
       /\ late' = late \ {r}
       /\ err' = "success"
       /\ record' = [from |-> r, whole |-> Copied[flight] <= ReplyBytes(r)]
  /\ flight' = "none" /\ ended' = flight /\ handler' = "call"
  /\ UNCHANGED <<lock, slot, pc, op, pending, settings>>

EndServed ==
  /\ flight # "none" /\ handler = "idle"
  /\ prompt => \A c \in users : pc[c] \notin {"sent", "test", "free", "return"}
  /\ \E r \in Replies :
       /\ late' = late \ {r}
       /\ IF DataSize(r) = Expected(flight)
            THEN /\ err' = "success"
                 /\ record' = [from |-> r, whole |-> Copied[flight] <= ReplyBytes(r)]
            ELSE err' = "not_match" /\ UNCHANGED record
  /\ flight' = "none" /\ ended' = flight /\ handler' = "call"
  /\ UNCHANGED <<lock, slot, pc, op, pending, settings>>

\* The registered callback is called; error_handler when there is none.
CallBack ==
  /\ handler = "call" /\ handler' = "clear"
  /\ pending' = [c \in Callers |-> IF slot[Slot(ended)] = c THEN "none" ELSE pending[c]]
  /\ UNCHANGED <<lock, err, slot, pc, op, flight, late, ended, record, settings>>

ClearSlot ==
  /\ handler = "clear" /\ handler' = "unlock"
  /\ slot' = [slot EXCEPT ![Slot(ended)] = Nobody]
  /\ UNCHANGED <<lock, err, pc, op, flight, late, ended, pending, record, settings>>

Unlock ==
  /\ handler = "unlock" /\ handler' = "idle"
  /\ lock' = FALSE /\ ended' = "none" /\ record' = NoRecord
  /\ UNCHANGED <<err, slot, pc, op, flight, late, pending, settings>>

Receive == EndFailed \/ EndServed \/ CallBack \/ ClearSlot \/ Unlock

Next == \/ \E c \in Callers : (\E o \in Ops : Call(c, o)) \/ CallStep(c)
        \/ Receive

Spec == Init /\ [][Next]_vars

(***************************************************************************)
(* The tasks keep running, and the master ends every request (RequestsEnd  *)
(* of Uart1Master).                                                        *)
(***************************************************************************)
FairSpec == /\ Spec
            /\ \A c \in Callers : WF_vars(CallStep(c))
            /\ WF_vars(Receive)

-----------------------------------------------------------------------------
(***************************************************************************)
(* Properties.                                                             *)
(***************************************************************************)
TypeOK == /\ driver \in DOMAIN Operations /\ users \in SUBSET Callers /\ prompt \in BOOLEAN
          /\ lock \in BOOLEAN /\ err \in Status
          /\ slot \in [Slots -> Callers \cup {Nobody}]
          /\ pc \in [Callers -> CallPC] /\ op \in [Callers -> Operations[driver] \cup {"none"}]
          /\ flight \in Ops \cup {"none"} /\ late \in SUBSET Ops
          /\ handler \in {"idle", "call", "clear", "unlock"}
          /\ ended \in Ops \cup {"none"}
          /\ pending \in [Callers -> Ops \cup {"none"}]
          /\ record \in Records

(***************************************************************************)
(* LockOwned and RequestsEnd are about calls that return before their reply  *)
(* is handled, and about a tracer with one caller: its busy calls touch    *)
(* the callback and the error of the request in flight.                    *)
(***************************************************************************)
Alone == Cardinality(users) = 1
Calm == prompt /\ (Tracer => Alone)

(***************************************************************************)
(* The driver's lock (ep2000_lock) covers a request from the call to the   *)
(* end of its receive handler: it is taken exactly while one caller sets   *)
(* up a request, the master has it, or the handler runs, and by one of     *)
(* these only.                                                             *)
(***************************************************************************)
Owning(c) == pc[c] \in {"send", "free"} \/ (pc[c] = "test" /\ err # "success")
LockOwned ==
  Calm => /\ lock <=> (\E c \in Callers : Owning(c)) \/ flight # "none" \/ handler # "idle"
          /\ \A c, d \in Callers : Owning(c) /\ Owning(d) => c = d
          /\ flight # "none" => handler = "idle"
          /\ (\E c \in Callers : Owning(c)) => flight = "none" /\ handler = "idle"

(***************************************************************************)
(* Every request ends: it frees the driver for the next one, and the       *)
(* caller of ep_ip2000 whose request was accepted gets its callback,       *)
(* whatever the slave answers and whatever other callers do meanwhile.     *)
(***************************************************************************)
RequestsEnd ==
  /\ Calm /\ lock ~> ~ lock
  /\ \A c \in Callers : prompt /\ ~ Tracer /\ pending[c] # "none" ~> pending[c] = "none"

(***************************************************************************)
(* A late reply to a request that timed out never ends up in the record of *)
(* another operation: the sizes tell the replies of a slave apart.  (The   *)
(* statistical parameters of the tracer are compared with another size,    *)
(* epever_tracer6415an.c:438.)                                             *)
(***************************************************************************)
OwnReply == ended # "statistical" => record.from \in {"none", ended}

(***************************************************************************)
(* "ModBus checker guarantees that element has same size"                  *)
(* (epever_ip2000.c:28, 52, 75, 346, epever_tracer6415an.c:38, 264, 438):  *)
(* a request that the slave served ends with success and a record whose    *)
(* bytes all come from the reply.  Six operations are exceptions: bits and *)
(* coils are counted in bytes (the reply to the over-temperature and to a  *)
(* coil has one, two are copied; the echo of a write has two, one is       *)
(* expected), two records of the tracer are a register longer than what is *)
(* asked for, and the statistical parameters are compared with the size of *)
(* the real-time status, so that no reply of theirs is accepted.           *)
(***************************************************************************)
Torn == {"over_temp", "read_coil", "rated", "rt_status"}
Rejected == {"write_coil", "statistical"}
ServedRecordWhole ==
  [][handler = "idle" /\ handler' = "call" /\ late = {} /\ err' \notin {"failed", "exception"} =>
       IF flight \in Rejected THEN err' = "not_match"
       ELSE err' = "success" /\ (record'.whole <=> flight \notin Torn)]_vars
=============================================================================
