---------------------------- MODULE Uart1Proofs -----------------------------
(***************************************************************************)
(* The types of Uart1Master for every set of drivers, and its invariants   *)
(* for timeouts that do not pass while the request is still being sent.    *)
(***************************************************************************)
EXTENDS Uart1Master, TLAPS

(***************************************************************************)
(* The inductive invariant, in parts: who holds the master's lock, ...     *)
(***************************************************************************)
Resting == task \in {"idle", "master_callback"}
Watching == task \in {"load", "decide"}
MasterInv ==
  /\ locked => master_lock
  /\ \A r \in Requesters : req[r] # "idle" => master_lock /\ (Resting \/ Watching)
  /\ \A r, s \in Requesters : req[r] # "idle" /\ req[s] # "idle" => r = s
  /\ task \notin {"idle", "load", "decide", "master_callback"} => master_lock

\* ... how far a request in preparation has come, ...
RequestInv ==
  \A r \in Requesters :
    /\ req[r] \in {"fill", "busy", "lock", "fail"} => ~ locked /\ Resting
    /\ SettingUp(r) => locked /\ dma4 = "off" /\ ~ rx /\ ~ tim2
    /\ req[r] \in {"monitor", "turn", "stop", "arm"} => ~ monitor /\ Resting
    /\ req[r] \in {"stop", "arm", "go"} => Driven("transmit")
    /\ req[r] = "go" => monitor /\ Sending /\ (task = "decide" => final = "none")

\* ... what the hardware may do in each phase of a transfer, ...
HardwareInv ==
  /\ dma4 = "on" => /\ Driven("transmit") /\ ~ rx /\ ~ tim2
                    /\ locked /\ monitor /\ Sending
                    /\ Resting \/ Watching
                    /\ task = "decide" => final = "none"
  /\ rx => Driven("receive") /\ ~ tim2
  /\ ~ locked /\ task # "turn" => Driven("transmit")

\* ... and how far the task has come with ending it.
TaskInv ==
  /\ Watching \/ (Ending /\ task # "turn") => locked
  /\ Watching => monitor
  /\ task \in {"dma_off", "unmonitor", "unlock"} => ~ tim2
  /\ task \in {"unmonitor", "unlock"} => dma4 = "off" /\ ~ rx
  /\ task = "unlock" => ~ monitor
  /\ task \in {"turn", "callback", "master_unlock"} => ~ locked

QuietInv == ~ locked => dma4 = "off" /\ ~ rx /\ ~ tim2 /\ ~ monitor

IInv == /\ QuietInv
        /\ MasterInv /\ RequestInv /\ HardwareInv /\ TaskInv

-----------------------------------------------------------------------------
(***************************************************************************)
(* The invariant holds initially and every step keeps it: the steps of a   *)
(* request, ...                                                            *)
(***************************************************************************)
LEMMA InitHolds == Init => IInv
<1> SUFFICES ASSUME Init PROVE IInv
  OBVIOUS
<1> USE DEF Init, Resting, Watching, SettingUp, Ending, Sending, Driven
<1>1. QuietInv /\ MasterInv
  BY DEF QuietInv, MasterInv
<1>2. RequestInv
  BY DEF RequestInv
<1>3. HardwareInv /\ TaskInv
  BY DEF HardwareInv, TaskInv
<1> QED BY <1>1, <1>2, <1>3 DEF IInv

LEMMA RequestKeeps ==
  ASSUME NEW r \in Requesters, TypeOK, IInv, Request(r) \/ RequestStep(r)
  PROVE  IInv'
<1> USE DEF vars, control, hardware, bus, master, taskState, settings, GoReq, GoTask,
            Resting, Watching, SettingUp, Ending, Sending, Driven, SetDriver
<1>1. CASE Request(r)
  <2>1. QuietInv'
    BY <1>1 DEF IInv, Request, QuietInv
  <2>2. MasterInv'
    BY <1>1 DEF IInv, Request, MasterInv
  <2>3. RequestInv'
    BY <1>1 DEF IInv, Request, RequestInv, MasterInv, TaskInv
  <2>4. HardwareInv'
    BY <1>1 DEF IInv, Request, HardwareInv
  <2>5. TaskInv'
    BY <1>1 DEF IInv, Request, TaskInv
  <2> QED BY <2>1, <2>2, <2>3, <2>4, <2>5 DEF IInv
<1>2. CASE Fill(r)
  <2>1. QuietInv'
    BY <1>2 DEF IInv, Fill, QuietInv
  <2>2. MasterInv'
    BY <1>2 DEF IInv, Fill, MasterInv, TypeOK
  <2>3. RequestInv'
    BY <1>2 DEF IInv, Fill, RequestInv, TypeOK
  <2>4. HardwareInv'
    BY <1>2 DEF IInv, Fill, HardwareInv
  <2>5. TaskInv'
    BY <1>2 DEF IInv, Fill, TaskInv
  <2> QED BY <2>1, <2>2, <2>3, <2>4, <2>5 DEF IInv
<1>3. CASE CheckBusy(r)
  <2>1. QuietInv'
    BY <1>3 DEF IInv, CheckBusy, QuietInv
  <2>2. MasterInv'
    BY <1>3 DEF IInv, CheckBusy, MasterInv
  <2>3. RequestInv'
    BY <1>3 DEF IInv, CheckBusy, RequestInv
  <2>4. HardwareInv'
    BY <1>3 DEF IInv, CheckBusy, HardwareInv
  <2>5. TaskInv'
    BY <1>3 DEF IInv, CheckBusy, TaskInv
  <2> QED BY <2>1, <2>2, <2>3, <2>4, <2>5 DEF IInv
<1>4. CASE LockUart(r)
  <2>1. QuietInv'
    BY <1>4 DEF IInv, LockUart, QuietInv
  <2>2. MasterInv'
    BY <1>4 DEF IInv, LockUart, MasterInv
  <2>3. RequestInv'
    BY <1>4 DEF IInv, LockUart, RequestInv, TypeOK, QuietInv, MasterInv
  <2>4. HardwareInv'
    BY <1>4 DEF IInv, LockUart, HardwareInv
  <2>5. TaskInv'
    BY <1>4 DEF IInv, LockUart, TaskInv, MasterInv
  <2> QED BY <2>1, <2>2, <2>3, <2>4, <2>5 DEF IInv
<1>5. CASE StopUart(r)
  <2>1. QuietInv'
    BY <1>5 DEF IInv, StopUart, QuietInv
  <2>2. MasterInv'
    BY <1>5 DEF IInv, StopUart, MasterInv
  <2>3. RequestInv'
    BY <1>5 DEF IInv, StopUart, RequestInv
  <2>4. HardwareInv'
    BY <1>5 DEF IInv, StopUart, HardwareInv
  <2>5. TaskInv'
    BY <1>5 DEF IInv, StopUart, TaskInv, RequestInv
  <2> QED BY <2>1, <2>2, <2>3, <2>4, <2>5 DEF IInv
<1>6. CASE ArmUart(r)
  <2>1. QuietInv'
    BY <1>6 DEF IInv, ArmUart, QuietInv, RequestInv
  <2>2. MasterInv'
    BY <1>6 DEF IInv, ArmUart, MasterInv
  <2>3. RequestInv'
    BY <1>6 DEF IInv, ArmUart, RequestInv, TypeOK, MasterInv
  <2>4. HardwareInv'
    BY <1>6 DEF IInv, ArmUart, HardwareInv
  <2>5. TaskInv'
    BY <1>6 DEF IInv, ArmUart, TaskInv, MasterInv
  <2> QED BY <2>1, <2>2, <2>3, <2>4, <2>5 DEF IInv
<1>7. CASE StartDma4(r)
  <2>1. QuietInv'
    BY <1>7 DEF IInv, StartDma4, QuietInv, RequestInv
  <2>2. MasterInv'
    BY <1>7 DEF IInv, StartDma4, MasterInv
  <2>3. RequestInv'
    BY <1>7 DEF IInv, StartDma4, RequestInv, TypeOK, MasterInv
  <2>4. HardwareInv'
    BY <1>7 DEF IInv, StartDma4, HardwareInv, MasterInv, RequestInv
  <2>5. TaskInv'
    BY <1>7 DEF IInv, StartDma4, TaskInv, MasterInv
  <2> QED BY <2>1, <2>2, <2>3, <2>4, <2>5 DEF IInv
<1>8. CASE Fail(r)
  <2>1. QuietInv'
    BY <1>8 DEF IInv, Fail, QuietInv
  <2>2. MasterInv'
    BY <1>8 DEF IInv, Fail, MasterInv, TypeOK, RequestInv
  <2>3. RequestInv'
    BY <1>8 DEF IInv, Fail, RequestInv
  <2>4. HardwareInv'
    BY <1>8 DEF IInv, Fail, HardwareInv
  <2>5. TaskInv'
    BY <1>8 DEF IInv, Fail, TaskInv
  <2> QED BY <2>1, <2>2, <2>3, <2>4, <2>5 DEF IInv
<1>9. CASE StopMonitor(r)
  <2>1. QuietInv'
    BY <1>9 DEF IInv, StopMonitor, QuietInv
  <2>2. MasterInv'
    BY <1>9 DEF IInv, StopMonitor, MasterInv
  <2>3. RequestInv'
    BY <1>9 DEF IInv, StopMonitor, RequestInv, MasterInv
  <2>4. HardwareInv'
    BY <1>9 DEF IInv, StopMonitor, HardwareInv, RequestInv
  <2>5. TaskInv'
    BY <1>9 DEF IInv, StopMonitor, TaskInv, RequestInv
  <2> QED BY <2>1, <2>2, <2>3, <2>4, <2>5 DEF IInv
<1>10. CASE TurnToTransmit(r)
  <2>1. QuietInv'
    BY <1>10 DEF IInv, TurnToTransmit, QuietInv
  <2>2. MasterInv'
    BY <1>10 DEF IInv, TurnToTransmit, MasterInv
  <2>3. RequestInv'
    BY <1>10 DEF IInv, TurnToTransmit, RequestInv, MasterInv
  <2>4. HardwareInv'
    BY <1>10 DEF IInv, TurnToTransmit, HardwareInv, RequestInv
  <2>5. TaskInv'
    BY <1>10 DEF IInv, TurnToTransmit, TaskInv
  <2> QED BY <2>1, <2>2, <2>3, <2>4, <2>5 DEF IInv
<1> QED BY <1>1, <1>2, <1>3, <1>4, <1>5, <1>6, <1>7, <1>8, <1>9, <1>10 DEF RequestStep

\* ... of the handlers, ...
LEMMA HandlerKeeps ==
  ASSUME TypeOK, IInv, Handler
  PROVE  IInv'
<1> USE DEF vars, control, hardware, bus, master, taskState, settings, GoReq, GoTask,
            Resting, Watching, SettingUp, Ending, Sending, Driven, SetDriver
<1>1. CASE Dma4Complete
  <2>1. QuietInv'
    BY <1>1 DEF IInv, Dma4Complete, QuietInv
  <2>2. MasterInv'
    BY <1>1 DEF IInv, Dma4Complete, MasterInv
  <2>3. RequestInv'
    BY <1>1 DEF IInv, Dma4Complete, RequestInv
  <2>4. HardwareInv'
    BY <1>1 DEF IInv, Dma4Complete, HardwareInv
  <2>5. TaskInv'
    BY <1>1 DEF IInv, Dma4Complete, TaskInv, HardwareInv
  <2> QED BY <2>1, <2>2, <2>3, <2>4, <2>5 DEF IInv
<1>2. CASE Dma4Error
  <2>1. QuietInv'
    BY <1>2 DEF IInv, Dma4Error, QuietInv
  <2>2. MasterInv'
    BY <1>2 DEF IInv, Dma4Error, MasterInv
  <2>3. RequestInv'
    BY <1>2 DEF IInv, Dma4Error, RequestInv
  <2>4. HardwareInv'
    BY <1>2 DEF IInv, Dma4Error, HardwareInv
  <2>5. TaskInv'
    BY <1>2 DEF IInv, Dma4Error, TaskInv
  <2> QED BY <2>1, <2>2, <2>3, <2>4, <2>5 DEF IInv
<1>3. CASE Tim2
  <2>1. QuietInv'
    BY <1>3 DEF IInv, Tim2, QuietInv
  <2>2. MasterInv'
    BY <1>3 DEF IInv, Tim2, MasterInv
  <2>3. RequestInv'
    BY <1>3 DEF IInv, Tim2, RequestInv
  <2>4. HardwareInv'
    BY <1>3 DEF IInv, Tim2, HardwareInv, QuietInv
  <2>5. TaskInv'
    BY <1>3 DEF IInv, Tim2, TaskInv
  <2> QED BY <2>1, <2>2, <2>3, <2>4, <2>5 DEF IInv
<1>4. CASE Dma5Overflow
  <2>1. QuietInv'
    BY <1>4 DEF IInv, Dma5Overflow, QuietInv
  <2>2. MasterInv'
    BY <1>4 DEF IInv, Dma5Overflow, MasterInv
  <2>3. RequestInv'
    BY <1>4 DEF IInv, Dma5Overflow, RequestInv
  <2>4. HardwareInv'
    BY <1>4 DEF IInv, Dma5Overflow, HardwareInv
  <2>5. TaskInv'
    BY <1>4 DEF IInv, Dma5Overflow, TaskInv
  <2> QED BY <2>1, <2>2, <2>3, <2>4, <2>5 DEF IInv
<1>5. CASE Usart1Idle
  <2>1. QuietInv'
    BY <1>5 DEF IInv, Usart1Idle, QuietInv
  <2>2. MasterInv'
    BY <1>5 DEF IInv, Usart1Idle, MasterInv
  <2>3. RequestInv'
    BY <1>5 DEF IInv, Usart1Idle, RequestInv
  <2>4. HardwareInv'
    BY <1>5 DEF IInv, Usart1Idle, HardwareInv
  <2>5. TaskInv'
    BY <1>5 DEF IInv, Usart1Idle, TaskInv
  <2> QED BY <2>1, <2>2, <2>3, <2>4, <2>5 DEF IInv
<1>6. CASE ReceiveError
  <2>1. QuietInv'
    BY <1>6 DEF IInv, ReceiveError, QuietInv
  <2>2. MasterInv'
    BY <1>6 DEF IInv, ReceiveError, MasterInv
  <2>3. RequestInv'
    BY <1>6 DEF IInv, ReceiveError, RequestInv
  <2>4. HardwareInv'
    BY <1>6 DEF IInv, ReceiveError, HardwareInv
  <2>5. TaskInv'
    BY <1>6 DEF IInv, ReceiveError, TaskInv
  <2> QED BY <2>1, <2>2, <2>3, <2>4, <2>5 DEF IInv
<1> QED BY <1>1, <1>2, <1>3, <1>4, <1>5, <1>6 DEF Handler

\* ... and of the task, for which no timeout may pass before the request has
\* left: otherwise TIM2 can start again between TimerOff and DmaOff.
LEMMA TaskKeeps ==
  ASSUME ~ early, TypeOK, IInv, TaskStep
  PROVE  IInv'
<1> USE DEF vars, control, hardware, bus, master, taskState, settings, GoReq, GoTask,
            Resting, Watching, SettingUp, Ending, Sending, Driven, SetDriver
<1>1. CASE TaskPoll
  <2>1. QuietInv'
    BY <1>1 DEF IInv, TaskPoll, QuietInv
  <2>2. MasterInv'
    BY <1>1 DEF IInv, TaskPoll, MasterInv
  <2>3. RequestInv'
    BY <1>1 DEF IInv, TaskPoll, RequestInv, QuietInv
  <2>4. HardwareInv'
    BY <1>1 DEF IInv, TaskPoll, HardwareInv
  <2>5. TaskInv'
    BY <1>1 DEF IInv, TaskPoll, TaskInv, QuietInv
  <2> QED BY <2>1, <2>2, <2>3, <2>4, <2>5 DEF IInv
<1>2. CASE TaskLoad
  <2>1. QuietInv'
    BY <1>2 DEF IInv, TaskLoad, QuietInv
  <2>2. MasterInv'
    BY <1>2 DEF IInv, TaskLoad, MasterInv
  <2>3. RequestInv'
    BY <1>2 DEF IInv, TaskLoad, RequestInv
  <2>4. HardwareInv'
    BY <1>2 DEF IInv, TaskLoad, HardwareInv
  <2>5. TaskInv'
    BY <1>2 DEF IInv, TaskLoad, TaskInv
  <2> QED BY <2>1, <2>2, <2>3, <2>4, <2>5 DEF IInv
<1>3. CASE TaskEnds
  <2>1. QuietInv'
    BY <1>3 DEF IInv, TaskEnds, QuietInv
  <2>2. MasterInv'
    <3>1. ASSUME NEW r \in Requesters, req[r] # "idle" PROVE FALSE
      <4>1. req[r] = "go"
        BY <1>3, <3>1 DEF IInv, TaskEnds, TypeOK, ReqPC, RequestInv
      <4>2. Sending /\ final = "none" /\ dma4 = "off"
        BY <1>3, <4>1 DEF IInv, TaskEnds, RequestInv
      <4> QED BY <1>3, <4>2 DEF TaskEnds
    <3>2. \A r \in Requesters : req[r] = "idle"
      BY <3>1
    <3> QED BY <1>3, <3>2 DEF IInv, TaskEnds, MasterInv, TaskInv
  <2>3. RequestInv'
    BY <1>3 DEF IInv, TaskEnds, RequestInv
  <2>4. HardwareInv'
    BY <1>3 DEF IInv, TaskEnds, HardwareInv
  <2>5. TaskInv'
    BY <1>3 DEF IInv, TaskEnds, TaskInv
  <2> QED BY <2>1, <2>2, <2>3, <2>4, <2>5 DEF IInv
<1>4. CASE TaskExpires
  <2>1. QuietInv'
    BY <1>4 DEF IInv, TaskExpires, QuietInv
  <2>2. MasterInv'
    <3>1. ASSUME NEW r \in Requesters, req[r] # "idle" PROVE FALSE
      <4>1. req[r] = "go"
        BY <1>4, <3>1 DEF IInv, TaskExpires, TypeOK, ReqPC, RequestInv
      <4>2. Sending /\ final = "none" /\ dma4 = "off"
        BY <1>4, <4>1 DEF IInv, TaskExpires, RequestInv
      <4> QED BY <1>4, <4>2 DEF TaskExpires
    <3>2. \A r \in Requesters : req[r] = "idle"
      BY <3>1
    <3> QED BY <1>4, <3>2 DEF IInv, TaskExpires, MasterInv, TaskInv
  <2>3. RequestInv'
    BY <1>4 DEF IInv, TaskExpires, RequestInv
  <2>4. HardwareInv'
    BY <1>4 DEF IInv, TaskExpires, HardwareInv
  <2>5. TaskInv'
    BY <1>4 DEF IInv, TaskExpires, TaskInv
  <2> QED BY <2>1, <2>2, <2>3, <2>4, <2>5 DEF IInv
<1>5. CASE TaskWaits
  <2>1. QuietInv'
    BY <1>5 DEF IInv, TaskWaits, QuietInv
  <2>2. MasterInv'
    BY <1>5 DEF IInv, TaskWaits, MasterInv
  <2>3. RequestInv'
    BY <1>5 DEF IInv, TaskWaits, RequestInv
  <2>4. HardwareInv'
    BY <1>5 DEF IInv, TaskWaits, HardwareInv
  <2>5. TaskInv'
    BY <1>5 DEF IInv, TaskWaits, TaskInv
  <2> QED BY <2>1, <2>2, <2>3, <2>4, <2>5 DEF IInv
<1>6. CASE TimerOff
  <2>1. QuietInv'
    BY <1>6 DEF IInv, TimerOff, QuietInv
  <2>2. MasterInv'
    BY <1>6 DEF IInv, TimerOff, MasterInv
  <2>3. RequestInv'
    BY <1>6 DEF IInv, TimerOff, RequestInv
  <2>4. HardwareInv'
    BY <1>6 DEF IInv, TimerOff, HardwareInv
  <2>5. TaskInv'
    BY <1>6 DEF IInv, TimerOff, TaskInv
  <2> QED BY <2>1, <2>2, <2>3, <2>4, <2>5 DEF IInv
<1>7. CASE DmaOff
  <2>1. QuietInv'
    BY <1>7 DEF IInv, DmaOff, QuietInv
  <2>2. MasterInv'
    BY <1>7 DEF IInv, DmaOff, MasterInv
  <2>3. RequestInv'
    BY <1>7 DEF IInv, DmaOff, RequestInv
  <2>4. HardwareInv'
    BY <1>7 DEF IInv, DmaOff, HardwareInv
  <2>5. TaskInv'
    BY <1>7 DEF IInv, DmaOff, TaskInv
  <2> QED BY <2>1, <2>2, <2>3, <2>4, <2>5 DEF IInv
<1>8. CASE MonitorOff
  <2>1. QuietInv'
    BY <1>8 DEF IInv, MonitorOff, QuietInv
  <2>2. MasterInv'
    BY <1>8 DEF IInv, MonitorOff, MasterInv
  <2>3. RequestInv'
    BY <1>8 DEF IInv, MonitorOff, RequestInv, MasterInv
  <2>4. HardwareInv'
    BY <1>8 DEF IInv, MonitorOff, HardwareInv
  <2>5. TaskInv'
    BY <1>8 DEF IInv, MonitorOff, TaskInv
  <2> QED BY <2>1, <2>2, <2>3, <2>4, <2>5 DEF IInv
<1>9. CASE UnlockUart
  <2>1. QuietInv'
    BY <1>9 DEF IInv, UnlockUart, QuietInv, TaskInv
  <2>2. MasterInv'
    BY <1>9 DEF IInv, UnlockUart, MasterInv
  <2>3. RequestInv'
    BY <1>9 DEF IInv, UnlockUart, RequestInv, MasterInv
  <2>4. HardwareInv'
    BY <1>9 DEF IInv, UnlockUart, HardwareInv, TaskInv
  <2>5. TaskInv'
    BY <1>9 DEF IInv, UnlockUart, TaskInv
  <2> QED BY <2>1, <2>2, <2>3, <2>4, <2>5 DEF IInv
<1>10. CASE UartCallback
  <2>1. QuietInv'
    BY <1>10 DEF IInv, UartCallback, QuietInv
  <2>2. MasterInv'
    BY <1>10 DEF IInv, UartCallback, MasterInv
  <2>3. RequestInv'
    BY <1>10 DEF IInv, UartCallback, RequestInv
  <2>4. HardwareInv'
    BY <1>10 DEF IInv, UartCallback, HardwareInv
  <2>5. TaskInv'
    BY <1>10 DEF IInv, UartCallback, TaskInv
  <2> QED BY <2>1, <2>2, <2>3, <2>4, <2>5 DEF IInv
<1>11. CASE MasterUnlock
  <2>1. QuietInv'
    BY <1>11 DEF IInv, MasterUnlock, QuietInv
  <2>2. MasterInv'
    BY <1>11 DEF IInv, MasterUnlock, MasterInv, TaskInv
  <2>3. RequestInv'
    BY <1>11 DEF IInv, MasterUnlock, RequestInv
  <2>4. HardwareInv'
    BY <1>11 DEF IInv, MasterUnlock, HardwareInv
  <2>5. TaskInv'
    BY <1>11 DEF IInv, MasterUnlock, TaskInv
  <2> QED BY <2>1, <2>2, <2>3, <2>4, <2>5 DEF IInv
<1>12. CASE MasterCallback
  <2>1. QuietInv'
    BY <1>12 DEF IInv, MasterCallback, QuietInv
  <2>2. MasterInv'
    BY <1>12 DEF IInv, MasterCallback, MasterInv
  <2>3. RequestInv'
    BY <1>12 DEF IInv, MasterCallback, RequestInv
  <2>4. HardwareInv'
    BY <1>12 DEF IInv, MasterCallback, HardwareInv
  <2>5. TaskInv'
    BY <1>12 DEF IInv, MasterCallback, TaskInv
  <2> QED BY <2>1, <2>2, <2>3, <2>4, <2>5 DEF IInv
<1>13. CASE TurnBack
  <2>1. QuietInv'
    BY <1>13 DEF IInv, TurnBack, QuietInv
  <2>2. MasterInv'
    BY <1>13 DEF IInv, TurnBack, MasterInv, TaskInv
  <2>3. RequestInv'
    BY <1>13 DEF IInv, TurnBack, RequestInv, MasterInv
  <2>4. HardwareInv'
    BY <1>13 DEF IInv, TurnBack, HardwareInv, QuietInv, TaskInv
  <2>5. TaskInv'
    BY <1>13 DEF IInv, TurnBack, TaskInv
  <2> QED BY <2>1, <2>2, <2>3, <2>4, <2>5 DEF IInv
<1> QED BY <1>1, <1>2, <1>3, <1>4, <1>5, <1>6, <1>7, <1>8, <1>9, <1>10, <1>11, <1>12, <1>13 DEF
           TaskStep

\* ... and of the slave beside the master.
LEMMA SlaveKeeps ==
  ASSUME TypeOK, IInv, SlaveStep
  PROVE  IInv'
<1> USE DEF vars, control, hardware, bus, master, taskState, settings, GoReq, GoTask,
            Resting, Watching, SettingUp, Ending, Sending, Driven, SetDriver
<1>1. CASE SlaveLoadsPort
  <2>1. QuietInv'
    BY <1>1 DEF IInv, SlaveLoadsPort, QuietInv
  <2>2. MasterInv'
    BY <1>1 DEF IInv, SlaveLoadsPort, MasterInv
  <2>3. RequestInv'
    BY <1>1 DEF IInv, SlaveLoadsPort, RequestInv
  <2>4. HardwareInv'
    BY <1>1 DEF IInv, SlaveLoadsPort, HardwareInv
  <2>5. TaskInv'
    BY <1>1 DEF IInv, SlaveLoadsPort, TaskInv
  <2> QED BY <2>1, <2>2, <2>3, <2>4, <2>5 DEF IInv
<1>2. CASE SlaveStoresPort
  <2>6. ASSUME NEW d \in Directions, Driven(d) PROVE Driven(d)'
    <3>1. PICK loaded \in stale : pin' = loaded /\ undone' = (undone \/ pin # loaded)
      BY <1>2 DEF SlaveStoresPort
    <3> QED BY <2>6, <3>1
  <2>7. \A d \in Directions : Driven(d) => Driven(d)'
    BY <2>6
  <2>8. "transmit" \in Directions /\ "receive" \in Directions
    BY DEF Directions
  <2> HIDE DEF Driven
  <2>1. QuietInv'
    BY <1>2 DEF IInv, SlaveStoresPort, QuietInv
  <2>2. MasterInv'
    BY <1>2 DEF IInv, SlaveStoresPort, MasterInv
  <2>3. RequestInv'
    BY <1>2, <2>7, <2>8 DEF IInv, SlaveStoresPort, RequestInv
  <2>4. HardwareInv'
    BY <1>2, <2>7, <2>8 DEF IInv, SlaveStoresPort, HardwareInv
  <2>5. TaskInv'
    BY <1>2 DEF IInv, SlaveStoresPort, TaskInv
  <2> QED BY <2>1, <2>2, <2>3, <2>4, <2>5 DEF IInv
<1> QED BY <1>1, <1>2 DEF SlaveStep

LEMMA StutterKeeps == ASSUME IInv, UNCHANGED vars PROVE IInv'
BY DEF vars, IInv, QuietInv, MasterInv, RequestInv, HardwareInv, TaskInv,
       Resting, Watching, SettingUp, Ending, Sending, Driven

LEMMA SettingsStay == [Next]_vars => early' = early
BY DEF Next, RequestStep, Request, Fill, CheckBusy, LockUart,
       StopMonitor, TurnToTransmit, StopUart, ArmUart, StartDma4, Fail,
       Handler, Dma4Complete, Dma4Error, Tim2, Dma5Overflow, Usart1Idle, ReceiveError,
       TaskStep, TaskPoll, TaskLoad, TaskEnds, TaskExpires, TaskWaits, TimerOff, DmaOff,
       MonitorOff, UnlockUart, TurnBack, UartCallback, MasterUnlock, MasterCallback,
       SlaveStep, SlaveLoadsPort, SlaveStoresPort, GoReq, GoTask, settings, vars

-----------------------------------------------------------------------------
(***************************************************************************)
(* The state of the master keeps its types, however early timeouts pass.   *)
(***************************************************************************)
THEOREM TypeCorrect == Spec => []TypeOK
<1>1. Init => TypeOK
  BY DEF Init, TypeOK, FinalOK, ReqPC, TaskPC, Statuses, Directions
<1>2. TypeOK /\ [Next]_vars => TypeOK'
  <2> SUFFICES ASSUME TypeOK PROVE [Next]_vars => TypeOK'
    OBVIOUS
  <2> USE DEF TypeOK, control, hardware, bus, master, taskState, settings, GoReq, GoTask
  <2>1. ASSUME NEW r \in Requesters, Request(r) \/ RequestStep(r) PROVE TypeOK'
    <3>1. CASE Request(r)
      <4>1. FinalOK'
        BY <3>1 DEF Request, FinalOK
      <4> QED BY <3>1, <4>1 DEF Request, ReqPC
    <3>2. CASE Fill(r)
      <4>1. FinalOK'
        BY <3>2 DEF Fill, FinalOK
      <4> QED BY <3>2, <4>1 DEF Fill, ReqPC
    <3>3. CASE CheckBusy(r)
      <4>1. FinalOK'
        BY <3>3 DEF CheckBusy, FinalOK
      <4> QED BY <3>3, <4>1 DEF CheckBusy, ReqPC
    <3>4. CASE LockUart(r)
      <4>1. FinalOK'
        BY <3>4 DEF LockUart, FinalOK
      <4> QED BY <3>4, <4>1 DEF LockUart, ReqPC
    <3>5. CASE StopUart(r)
      <4>1. FinalOK'
        BY <3>5 DEF StopUart, FinalOK
      <4>2. req' \in [Requesters -> ReqPC]
        BY <3>5 DEF StopUart, ReqPC
      <4>3. dma4' \in {"off", "on", "done"} /\ rx' \in BOOLEAN
        BY <3>5 DEF StopUart
      <4> QED BY <3>5, <4>1, <4>2, <4>3 DEF StopUart
    <3>6. CASE ArmUart(r)
      <4>1. FinalOK'
        BY <3>6 DEF ArmUart, FinalOK
      <4> QED BY <3>6, <4>1 DEF ArmUart, ReqPC, Statuses
    <3>7. CASE StartDma4(r)
      <4>1. FinalOK'
        BY <3>7 DEF StartDma4, FinalOK
      <4> QED BY <3>7, <4>1 DEF StartDma4, ReqPC
    <3>8. CASE Fail(r)
      <4>1. FinalOK'
        BY <3>8 DEF Fail, FinalOK
      <4>2. master_lock' \in BOOLEAN
        BY <3>8 DEF Fail
      <4> QED BY <3>8, <4>1, <4>2 DEF Fail, ReqPC
    <3>9. CASE StopMonitor(r)
      <4>1. FinalOK'
        BY <3>9 DEF StopMonitor, FinalOK
      <4>2. monitor' \in BOOLEAN
        BY <3>9 DEF StopMonitor
      <4> QED BY <3>9, <4>1, <4>2 DEF StopMonitor, ReqPC
    <3>10. CASE TurnToTransmit(r)
      <4>1. FinalOK'
        BY <3>10 DEF TurnToTransmit, FinalOK
      <4>2. pin' \in Directions /\ undone' \in BOOLEAN
        BY <3>10 DEF TurnToTransmit, SetDriver, Directions
      <4> QED BY <3>10, <4>1, <4>2 DEF TurnToTransmit, ReqPC
    <3> QED BY <2>1, <3>1, <3>2, <3>3, <3>4, <3>5, <3>6, <3>7, <3>8, <3>9, <3>10 DEF RequestStep
  <2>2. ASSUME Handler PROVE TypeOK'
    <3>1. CASE Dma4Complete
      <4>1. FinalOK'
        BY <3>1 DEF Dma4Complete, FinalOK
      <4> QED BY <3>1, <4>1 DEF Dma4Complete, Statuses
    <3>2. CASE Dma4Error
      <4>1. FinalOK'
        BY <3>2 DEF Dma4Error, FinalOK
      <4> QED BY <3>2, <4>1 DEF Dma4Error, Statuses
    <3>3. CASE Tim2
      <4>1. FinalOK'
        BY <3>3 DEF Tim2, FinalOK
      <4>2. pin' \in Directions /\ undone' \in BOOLEAN
        BY <3>3 DEF Tim2, SetDriver, Directions
      <4> QED BY <3>3, <4>1, <4>2 DEF Tim2, Statuses
    <3>4. CASE Dma5Overflow
      <4>1. FinalOK'
        BY <3>4 DEF Dma5Overflow, FinalOK
      <4> QED BY <3>4, <4>1 DEF Dma5Overflow, Statuses
    <3>5. CASE Usart1Idle
      <4>1. FinalOK'
        BY <3>5 DEF Usart1Idle, FinalOK
      <4> QED BY <3>5, <4>1 DEF Usart1Idle, Statuses
    <3>6. CASE ReceiveError
      <4>1. FinalOK'
        BY <3>6 DEF ReceiveError, FinalOK
      <4> QED BY <3>6, <4>1 DEF ReceiveError, Statuses
    <3> QED BY <2>2, <3>1, <3>2, <3>3, <3>4, <3>5, <3>6 DEF Handler
  <2>3. ASSUME TaskStep PROVE TypeOK'
    <3>1. CASE TaskPoll
      <4>1. FinalOK'
        BY <3>1 DEF TaskPoll, Statuses, Finals, FinalOK
      <4> QED BY <3>1, <4>1 DEF TaskPoll, TaskPC
    <3>2. CASE TaskLoad
      <4>1. FinalOK'
        BY <3>2 DEF TaskLoad, Statuses, Finals, FinalOK
      <4> QED BY <3>2, <4>1 DEF TaskLoad, TaskPC
    <3>3. CASE TaskEnds
      <4>1. FinalOK'
        BY <3>3 DEF TaskEnds, Statuses, Finals, FinalOK
      <4> QED BY <3>3, <4>1 DEF TaskEnds, TaskPC
    <3>4. CASE TaskExpires
      <4>1. FinalOK'
        BY <3>4 DEF TaskExpires, Statuses, Finals, FinalOK
      <4> QED BY <3>4, <4>1 DEF TaskExpires, TaskPC
    <3>5. CASE TaskWaits
      <4>1. FinalOK'
        BY <3>5 DEF TaskWaits, Statuses, Finals, FinalOK
      <4> QED BY <3>5, <4>1 DEF TaskWaits, TaskPC
    <3>6. CASE TimerOff
      <4>1. FinalOK'
        BY <3>6 DEF TimerOff, Statuses, Finals, FinalOK
      <4>2. tim2' \in BOOLEAN
        BY <3>6 DEF TimerOff
      <4> QED BY <3>6, <4>1, <4>2 DEF TimerOff, TaskPC
    <3>7. CASE DmaOff
      <4>1. FinalOK'
        BY <3>7 DEF DmaOff, Statuses, Finals, FinalOK
      <4>2. rx' \in BOOLEAN
        BY <3>7 DEF DmaOff
      <4> QED BY <3>7, <4>1, <4>2 DEF DmaOff, TaskPC
    <3>8. CASE MonitorOff
      <4>1. FinalOK'
        BY <3>8 DEF MonitorOff, Statuses, Finals, FinalOK
      <4>2. monitor' \in BOOLEAN
        BY <3>8 DEF MonitorOff
      <4> QED BY <3>8, <4>1, <4>2 DEF MonitorOff, TaskPC
    <3>9. CASE UnlockUart
      <4>1. FinalOK'
        BY <3>9 DEF UnlockUart, Statuses, Finals, FinalOK
      <4>2. locked' \in BOOLEAN
        BY <3>9 DEF UnlockUart
      <4> QED BY <3>9, <4>1, <4>2 DEF UnlockUart, TaskPC
    <3>10. CASE UartCallback
      <4>1. FinalOK'
        BY <3>10 DEF UartCallback, Statuses, Finals, FinalOK, Checked
      <4> QED BY <3>10, <4>1 DEF UartCallback, TaskPC
    <3>11. CASE MasterUnlock
      <4>1. FinalOK'
        BY <3>11 DEF MasterUnlock, Statuses, Finals, FinalOK
      <4>2. master_lock' \in BOOLEAN
        BY <3>11 DEF MasterUnlock
      <4> QED BY <3>11, <4>1, <4>2 DEF MasterUnlock, TaskPC
    <3>12. CASE MasterCallback
      <4>1. FinalOK'
        BY <3>12 DEF MasterCallback, Statuses, Finals, FinalOK
      <4>2. driver_lock' \in [Requesters -> BOOLEAN]
        BY <3>12 DEF MasterCallback
      <4> QED BY <3>12, <4>1, <4>2 DEF MasterCallback, TaskPC
    <3>13. CASE TurnBack
      <4>1. FinalOK'
        BY <3>13 DEF TurnBack, Statuses, Finals, FinalOK
      <4>2. pin' \in Directions /\ undone' \in BOOLEAN
        BY <3>13 DEF TurnBack, SetDriver, Directions
      <4> QED BY <3>13, <4>1, <4>2 DEF TurnBack, TaskPC
    <3> QED BY <2>3, <3>1, <3>2, <3>3, <3>4, <3>5, <3>6, <3>7, <3>8, <3>9, <3>10, <3>11, <3>12, <3>13
            DEF TaskStep
  <2>4. ASSUME UNCHANGED vars PROVE TypeOK'
    BY <2>4 DEF vars, FinalOK
  <2>5. ASSUME SlaveStep PROVE TypeOK'
    <3>1. CASE SlaveLoadsPort
      <4>1. FinalOK'
        BY <3>1 DEF SlaveLoadsPort, FinalOK
      <4>2. stale' \in SUBSET Directions
        BY <3>1 DEF SlaveLoadsPort
      <4> QED BY <3>1, <4>1, <4>2 DEF SlaveLoadsPort
    <3>2. CASE SlaveStoresPort
      <4>1. FinalOK'
        BY <3>2 DEF SlaveStoresPort, FinalOK
      <4>2. PICK loaded \in stale : /\ pin' = loaded /\ stale' \in {stale, stale \ {loaded}}
                                    /\ undone' = (undone \/ pin # loaded)
        BY <3>2 DEF SlaveStoresPort
      <4>3. pin' \in Directions /\ stale' \in SUBSET Directions /\ undone' \in BOOLEAN
        BY <4>2
      <4> QED BY <3>2, <4>1, <4>3 DEF SlaveStoresPort
    <3> QED BY <2>5, <3>1, <3>2 DEF SlaveStep
  <2> QED BY <2>1, <2>2, <2>3, <2>4, <2>5 DEF Next
<1> QED BY <1>1, <1>2, PTL DEF Spec

LEMMA Invariance == Spec => [](~ early => IInv)
<1>1. TypeOK /\ (~ early => IInv) /\ [Next]_vars => (~ early => IInv)'
  BY SettingsStay, RequestKeeps, HandlerKeeps, TaskKeeps, SlaveKeeps, StutterKeeps DEF Next
<1> QED BY <1>1, InitHolds, TypeCorrect, PTL DEF Spec

(***************************************************************************)
(* Of requests that leave before their timeout (~ early): the MAX485       *)
(* driver points towards the bus while the transmit channel sends and      *)
(* between transfers, and away from it while the receiver is enabled, but  *)
(* for a pin that a store of the slave's code has undone since.            *)
(***************************************************************************)
THEOREM BusDirection == Spec => []DriverDirection
<1>1. (~ early => IInv) => DriverDirection
  BY DEF IInv, HardwareInv, DriverDirection
<1> QED BY <1>1, Invariance, PTL

(***************************************************************************)
(* Whatever ends a transfer of requests that leave before their timeout    *)
(* (~ early), an unlocked UART1 has both channels, the receiver, the gap   *)
(* timer and the monitor off.                                              *)
(***************************************************************************)
THEOREM QuietUart == Spec => []QuietWhenUnlocked
<1>1. (~ early => IInv) => QuietWhenUnlocked
  BY DEF IInv, QuietInv, QuietWhenUnlocked
<1> QED BY <1>1, Invariance, PTL

(***************************************************************************)
(* uart1_control.locked keeps requests that leave before their timeout     *)
(* (~ early) apart: one is set up at a time, and not while the task ends   *)
(* another.                                                                *)
(***************************************************************************)
THEOREM SingleTransfer == Spec => []OneTransfer
<1>1. (~ early => IInv) => OneTransfer
  <2> SUFFICES ASSUME ~ early, IInv PROVE OneTransfer
    BY DEF OneTransfer
  <2>1. \A r, s \in Requesters : SettingUp(r) /\ SettingUp(s) => r = s
    BY DEF IInv, MasterInv, SettingUp
  <2>2. \A r \in Requesters : req[r] \in {"monitor", "turn", "stop", "arm"} => ~ Ending
    BY DEF IInv, RequestInv, Resting, Ending
  <2>3. \A r \in Requesters : SettingUp(r) => locked /\ dma4 = "off" /\ ~ rx
    BY DEF IInv, RequestInv
  <2> QED BY <2>1, <2>2, <2>3 DEF OneTransfer
<1> QED BY <1>1, Invariance, PTL

(***************************************************************************)
(* TIM2_IRQHandler, which reads the request's timeout and starts the       *)
(* receiver, runs under the lock of UART1 when requests leave before their *)
(* timeout (~ early).                                                      *)
(***************************************************************************)
THEOREM LockedIsr == Spec => IsrAccessOnlyLocked
<1>1. (~ early => IInv) => [~ early /\ Tim2 => locked]_vars
  BY DEF IInv, QuietInv, Tim2
<1> QED BY <1>1, Invariance, PTL DEF IsrAccessOnlyLocked
=============================================================================
