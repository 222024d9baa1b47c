----------------------------- MODULE EpeverProofs -----------------------------
(***************************************************************************)
(* The invariants of EpeverDrivers for any number of callers and of late   *)
(* replies.                                                                *)
(***************************************************************************)
EXTENDS EpeverDrivers, FiniteSetTheorems, TLAPS

Working == {"try", "send", "sent", "test", "free", "return"}

\* Only the callers that use the driver are in a call, each of an operation of
\* it; the replies that are late answer operations of it too.
CallInv == /\ \A c \in Callers : pc[c] # "idle" => c \in users /\ op[c] \in Operations[driver]
           /\ flight \in Operations[driver] \cup {"none"}
           /\ late \subseteq Operations[driver]

\* A call that finds success when it tests the result has its request in flight.
FlightInv == Calm => \A c \in Callers :
               pc[c] = "sent" \/ (pc[c] = "test" /\ err = "success") => flight # "none"

\* The record is filled by the handler that runs, if at all.
RecordInv == handler = "idle" => record = NoRecord

IInv == TypeOK /\ CallInv /\ LockOwned /\ FlightInv /\ RecordInv /\ OwnReply

LEMMA OpFacts ==
  /\ DOMAIN Operations = {"ip2000", "tracer"}
  /\ "none" \notin Ops /\ Operations.ip2000 \subseteq Ops /\ Operations.tracer \subseteq Ops
  /\ \A d \in DOMAIN Operations : Operations[d] \subseteq Ops /\ "none" \notin Operations[d]
BY DEF Operations, Ops

\* The one caller of a driver that has one.
LEMMA OnlyCaller ==
  ASSUME TypeOK, Alone, NEW c \in users, NEW d \in users
  PROVE  c = d
<1>1. IsFiniteSet(users)
  BY DriverAssumption, FS_Subset DEF TypeOK
<1>2. PICK x : users = {x}
  BY <1>1, FS_Singleton DEF Alone
<1> QED BY <1>2

(***************************************************************************)
(* The sizes tell the replies of one slave to one function apart.          *)
(***************************************************************************)
LEMMA SizesDiffer ==
  ASSUME NEW d \in DOMAIN Operations, NEW o \in Operations[d], NEW r \in Operations[d],
         o # "statistical", Function(r) = Function(o), DataSize(r) = Expected(o)
  PROVE  r = o
<1>1. DataSize(r) = Expected(o) /\ Expected(o) = Asked[o]
  BY DEF Expected
<1>2. CASE d = "ip2000"
  <2>1. o \in Operations.ip2000 /\ r \in Operations.ip2000
    BY <1>2
  <2>2. r = "sensors" => DataSize(r) = 11
    BY DEF DataSize, ReplyBytes, Function, Asked
  <2>3. r = "status" => DataSize(r) = 1
    BY DEF DataSize, ReplyBytes, Function, Asked
  <2> QED BY <1>1, <2>1, <2>2, <2>3 DEF Operations, Function, Asked
<1>3. CASE d = "tracer"
  <2>1. o \in Operations.tracer /\ r \in Operations.tracer
    BY <1>3
  <2>2. r = "rated" => DataSize(r) = 14
    BY DEF DataSize, ReplyBytes, Function, Asked
  <2>3. r = "real_time" => DataSize(r) = 29
    BY DEF DataSize, ReplyBytes, Function, Asked
  <2>4. r = "rt_status" => DataSize(r) = 2
    BY DEF DataSize, ReplyBytes, Function, Asked
  <2>5. r = "statistical" => DataSize(r) = 28
    BY DEF DataSize, ReplyBytes, Function, Asked
  <2>6. r = "settings" => DataSize(r) = 112
    BY DEF DataSize, ReplyBytes, Function, Asked
  <2> QED BY <1>1, <2>1, <2>2, <2>3, <2>4, <2>5, <2>6 DEF Operations, Asked
<1> QED BY <1>2, <1>3, OpFacts

(***************************************************************************)
(* Which replies to their own requests the handlers accept, and which fill *)
(* the record.                                                             *)
(***************************************************************************)
LEMMA ReplySizes ==
  ASSUME NEW o \in Ops
  PROVE  /\ DataSize(o) = Expected(o) <=> o \notin Rejected
         /\ o \notin Rejected => (Copied[o] <= ReplyBytes(o) <=> o \notin Torn)
<1>1. CASE o \in Operations.ip2000
  <2>1. CASE o = "sensors"
    BY <2>1 DEF DataSize, ReplyBytes, Function, Asked, Expected, Copied, Rejected, Torn
  <2>2. CASE o = "status"
    BY <2>2 DEF DataSize, ReplyBytes, Function, Asked, Expected, Copied, Rejected, Torn
  <2>3. CASE o = "over_temp"
    BY <2>3 DEF DataSize, ReplyBytes, Function, Asked, Expected, Copied, Rejected, Torn
  <2>4. CASE o = "read_coil"
    BY <2>4 DEF DataSize, ReplyBytes, Function, Asked, Expected, Copied, Rejected, Torn
  <2>5. CASE o = "write_coil"
    BY <2>5 DEF DataSize, ReplyBytes, Function, Asked, Expected, Copied, Rejected, Torn
  <2> QED BY <1>1, <2>1, <2>2, <2>3, <2>4, <2>5 DEF Operations
<1>2. CASE o \in Operations.tracer
  <2>1. CASE o = "rated"
    BY <2>1 DEF DataSize, ReplyBytes, Function, Asked, Expected, Copied, Rejected, Torn
  <2>2. CASE o = "real_time"
    BY <2>2 DEF DataSize, ReplyBytes, Function, Asked, Expected, Copied, Rejected, Torn
  <2>3. CASE o = "rt_status"
    BY <2>3 DEF DataSize, ReplyBytes, Function, Asked, Expected, Copied, Rejected, Torn
  <2>4. CASE o = "statistical"
    BY <2>4 DEF DataSize, ReplyBytes, Function, Asked, Expected, Copied, Rejected, Torn
  <2>5. CASE o = "settings"
    BY <2>5 DEF DataSize, ReplyBytes, Function, Asked, Expected, Copied, Rejected, Torn
  <2> QED BY <1>2, <2>1, <2>2, <2>3, <2>4, <2>5 DEF Operations
<1> QED BY <1>1, <1>2 DEF Ops

-----------------------------------------------------------------------------
LEMMA InitInv == Init => IInv
<1> SUFFICES ASSUME Init PROVE IInv
  OBVIOUS
<1>1. TypeOK
  BY OpFacts DEF Init, TypeOK, Status, CallPC, Records
<1>2. CallInv /\ LockOwned /\ FlightInv
  BY OpFacts DEF Init, CallInv, LockOwned, FlightInv, Owning
<1>3. RecordInv /\ OwnReply
  BY DEF Init, RecordInv, OwnReply, NoRecord
<1> QED BY <1>1, <1>2, <1>3 DEF IInv

(***************************************************************************)
(* The calls.                                                              *)
(***************************************************************************)
LEMMA CallTypes ==
  ASSUME TypeOK, CallInv, NEW c \in Callers, (\E o \in Ops : Call(c, o)) \/ CallStep(c)
  PROVE  TypeOK' /\ CallInv'
<1> USE OpFacts DEF TypeOK, CallInv, CallPC, Status, settings, Go
<1>1. ASSUME NEW o \in Ops, Call(c, o) PROVE TypeOK' /\ CallInv'
  BY <1>1 DEF Call
<1>2. CASE Busy(c)
  BY <1>2 DEF Busy
<1>3. CASE Acquire(c)
  BY <1>3 DEF Acquire
<1>4. CASE Send(c) \/ SendRefused(c)
  BY <1>4 DEF Send, SendRefused
<1>5. CASE Store(c) \/ Test(c)
  BY <1>5 DEF Store, Test
<1>6. CASE Free(c) \/ Return(c)
  BY <1>6 DEF Free, Return
<1> QED BY <1>1, <1>2, <1>3, <1>4, <1>5, <1>6 DEF CallStep

LEMMA CallKeepsInv ==
  ASSUME IInv, NEW c \in Callers, (\E o \in Ops : Call(c, o)) \/ CallStep(c)
  PROVE  IInv'
<1>1. TypeOK' /\ CallInv'
  BY CallTypes DEF IInv
<1>2. UNCHANGED <<record, handler, ended>>
  BY DEF CallStep, Call, Busy, Acquire, Send, SendRefused, Store, Test, Free, Return
<1>3. RecordInv' /\ OwnReply'
  BY <1>2 DEF IInv, RecordInv, OwnReply
<1>4. ASSUME Calm'
      PROVE  /\ LockOwned' /\ FlightInv'
  <2>1. Calm
    BY <1>4 DEF Calm, Alone, Tracer, CallStep, Call, Busy, Acquire, Send, SendRefused, Store,
                Test, Free, Return, Go, settings
  <2> USE <2>1, OpFacts DEF IInv, TypeOK, CallInv, LockOwned, FlightInv, Owning, CallPC, settings, Go
  <2>2. ASSUME NEW o \in Ops, Call(c, o) PROVE LockOwned' /\ FlightInv'
    BY <2>2 DEF Call
  <2>3. CASE Busy(c)
    <3>1. err' = err \/ \A d \in Callers \ {c} : pc[d] = "idle"
      BY <2>3, OnlyCaller DEF Busy, Calm, CallInv
    <3> QED BY <2>3, <3>1 DEF Busy
  <2>4. CASE Acquire(c)
    BY <2>4 DEF Acquire
  <2>5. CASE Send(c)
    BY <2>5 DEF Send
  <2>6. CASE SendRefused(c)
    BY <2>6 DEF SendRefused
  <2>7. CASE Store(c)
    BY <2>7 DEF Store
  <2>8. CASE Test(c)
    BY <2>8 DEF Test
  <2>9. CASE Free(c)
    BY <2>9 DEF Free
  <2>10. CASE Return(c)
    BY <2>10 DEF Return
  <2> QED BY <2>2, <2>3, <2>4, <2>5, <2>6, <2>7, <2>8, <2>9, <2>10 DEF CallStep
<1> QED BY <1>1, <1>3, <1>4 DEF IInv, LockOwned, FlightInv

(***************************************************************************)
(* The end of a request.                                                   *)
(***************************************************************************)
LEMMA EndKeepsInv ==
  ASSUME IInv, EndFailed \/ EndServed
  PROVE  IInv'
<1> USE OpFacts
<1>1. /\ flight # "none" /\ handler = "idle" /\ flight \in Operations[driver] /\ flight \in Ops
      /\ record = NoRecord
      /\ prompt => \A c \in users : pc[c] \notin {"sent", "test", "free", "return"}
      /\ flight' = "none" /\ ended' = flight /\ handler' = "call"
      /\ UNCHANGED <<lock, slot, pc, op, pending, settings>>
  BY DEF IInv, TypeOK, CallInv, RecordInv, EndFailed, EndServed
<1>2. late' \subseteq Operations[driver]
  BY <1>1 DEF IInv, CallInv, EndFailed, EndServed
<1>3. err' \in Status
  BY DEF EndFailed, EndServed, Status
<1>4. /\ record' \in Records
      /\ flight # "statistical" => record'.from \in {"none", flight}
  <2>1. CASE EndFailed
    BY <1>1, <2>1 DEF EndFailed, Records, NoRecord
  <2>2. CASE EndServed
    <3>1. CASE record' = record
      BY <1>1, <3>1 DEF Records, NoRecord
    <3>2. CASE record' # record
      <4>1. PICK r \in Replies : /\ DataSize(r) = Expected(flight)
                                 /\ record' = [from |-> r, whole |-> Copied[flight] <= ReplyBytes(r)]
        BY <2>2, <3>2 DEF EndServed
      <4>2. r \in Operations[driver] /\ Function(r) = Function(flight) /\ r \in Ops
            /\ driver \in DOMAIN Operations
        BY <1>1, <4>1 DEF Replies, IInv, CallInv, TypeOK
      <4>3. flight # "statistical" => r = flight
        BY <1>1, <4>1, <4>2, SizesDiffer
      <4>4. (Copied[flight] <= ReplyBytes(r)) \in BOOLEAN
        OBVIOUS
      <4> QED BY <4>1, <4>2, <4>3, <4>4 DEF Records
    <3> QED BY <3>1, <3>2
  <2> QED BY <2>1, <2>2
<1>5. TypeOK' /\ CallInv'
  BY <1>1, <1>2, <1>3, <1>4 DEF IInv, TypeOK, CallInv, settings
<1>6. LockOwned' /\ FlightInv'
  <2>1. Calm' = Calm
    BY <1>1 DEF Calm, Tracer, Alone, settings
  <2>2. Calm => \A c \in Callers : pc[c] \notin {"sent", "test", "free"}
    BY <1>1 DEF Calm, IInv, CallInv
  <2> QED BY <1>1, <2>1, <2>2 DEF IInv, LockOwned, FlightInv, Owning
<1>7. RecordInv' /\ OwnReply'
  BY <1>1, <1>4 DEF RecordInv, OwnReply
<1> QED BY <1>5, <1>6, <1>7 DEF IInv

LEMMA HandlerKeepsInv ==
  ASSUME IInv, CallBack \/ ClearSlot \/ Unlock
  PROVE  IInv'
<1>1. UNCHANGED <<err, pc, op, flight, late, settings>>
  BY DEF CallBack, ClearSlot, Unlock
<1>2. Calm' = Calm
  BY <1>1 DEF Calm, Tracer, Alone, settings
<1>3. TypeOK' /\ CallInv'
  <2>1. slot' \in [Slots -> Callers \cup {Nobody}]
    BY DEF IInv, TypeOK, CallBack, ClearSlot, Unlock
  <2>2. pending' \in [Callers -> Ops \cup {"none"}]
    BY DEF IInv, TypeOK, CallBack, ClearSlot, Unlock
  <2>3. record' \in Records
    BY DEF IInv, TypeOK, CallBack, ClearSlot, Unlock, Records
  <2>4. /\ handler' \in {"idle", "call", "clear", "unlock"} /\ ended' \in Ops \cup {"none"}
        /\ lock' \in BOOLEAN
    BY DEF IInv, TypeOK, CallBack, ClearSlot, Unlock
  <2> QED BY <1>1, <2>1, <2>2, <2>3, <2>4 DEF IInv, TypeOK, CallInv, settings
<1>4. LockOwned' /\ FlightInv'
  BY <1>1, <1>2 DEF IInv, TypeOK, LockOwned, FlightInv, Owning, CallBack, ClearSlot, Unlock
<1>5. RecordInv' /\ OwnReply'
  BY DEF IInv, RecordInv, OwnReply, CallBack, ClearSlot, Unlock, NoRecord
<1> QED BY <1>3, <1>4, <1>5 DEF IInv

LEMMA StepInv == IInv /\ [Next]_vars => IInv'
<1> SUFFICES ASSUME IInv, [Next]_vars PROVE IInv'
  OBVIOUS
<1>1. CASE UNCHANGED vars
  BY <1>1 DEF vars, IInv, TypeOK, CallInv, LockOwned, FlightInv, RecordInv, OwnReply, Calm,
              Alone, Tracer, Owning
<1> QED BY <1>1, CallKeepsInv, EndKeepsInv, HandlerKeepsInv DEF Next, Receive

LEMMA Invariance == Spec => []IInv
BY InitInv, StepInv, PTL DEF Spec

(***************************************************************************)
(* The callers, the handler and what they share keep their types.          *)
(***************************************************************************)
THEOREM TypeCorrect == Spec => []TypeOK
<1>1. IInv => TypeOK
  BY DEF IInv
<1> QED BY <1>1, Invariance, PTL

(***************************************************************************)
(* The driver's lock covers a request from the call to the end of its      *)
(* receive handler and has one owner, for any number of callers of         *)
(* ep_ip2000 and for one of the tracer.                                    *)
(***************************************************************************)
THEOREM OneOwner == Spec => []LockOwned
<1>1. IInv => LockOwned
  BY DEF IInv
<1> QED BY <1>1, Invariance, PTL

(***************************************************************************)
(* However many replies are late, none ends up in the record of another    *)
(* operation, but for the statistical parameters.                          *)
(***************************************************************************)
THEOREM RepliesTold == Spec => []OwnReply
<1>1. IInv => OwnReply
  BY DEF IInv
<1> QED BY <1>1, Invariance, PTL

(***************************************************************************)
(* A request that the slave served ends with success and a record whose    *)
(* bytes all come from the reply, for exactly the four operations that are *)
(* neither Torn nor Rejected.                                              *)
(***************************************************************************)
Whole == handler = "idle" /\ handler' = "call" /\ late = {}
         /\ err' \notin {"failed", "exception"} =>
           IF flight \in Rejected THEN err' = "not_match"
           ELSE err' = "success" /\ (record'.whole <=> flight \notin Torn)

THEOREM RecordsFilled == Spec => ServedRecordWhole
<1>1. IInv /\ [Next]_vars => [Whole]_vars
  <2> SUFFICES ASSUME IInv, Next, handler = "idle", handler' = "call", late = {},
                      err' \notin {"failed", "exception"}
               PROVE  IF flight \in Rejected THEN err' = "not_match"
                      ELSE err' = "success" /\ (record'.whole <=> flight \notin Torn)
    BY DEF Whole
  <2>1. EndServed
    BY DEF Next, Receive, EndFailed, CallBack, ClearSlot, Unlock, CallStep, Call, Busy, Acquire,
           Send, SendRefused, Store, Test, Free, Return
  <2>2. Replies = {flight} /\ flight \in Ops
    BY <2>1 DEF Replies, EndServed, IInv, TypeOK
  <2>3. IF DataSize(flight) = Expected(flight)
          THEN err' = "success" /\ record'.whole = (Copied[flight] <= ReplyBytes(flight))
          ELSE err' = "not_match"
    BY <2>1, <2>2 DEF EndServed
  <2> QED BY <2>2, <2>3, ReplySizes
<1> QED BY <1>1, Invariance, PTL DEF Spec, ServedRecordWhole, Whole
=============================================================================
