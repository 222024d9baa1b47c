---------------------------- MODULE Uart1Master -----------------------------
(***************************************************************************)
(* The Modbus master on UART1: the request path of system/rs485.c          *)
(* (master_send_req, _master_send_req, _master_receive) and the transfer   *)
(* engine of system/hal_uart.c (uart1_transmit, uart1_receive, the         *)
(* handlers of DMA1 channels 4 and 5, USART1 and TIM2, and the task step   *)
(* process_uart1_time_event).                                              *)
(*                                                                         *)
(* Requesters are the drivers: each holds its own lock (ep2000_lock ...)   *)
(* from a request to its callback.  Requesters and the periodic task are   *)
(* tasks of equal priority and interleave; a handler preempts them and is  *)
(* one step.  A call that gives up on a taken lock changes nothing and is  *)
(* not a step.                                                             *)
(*                                                                         *)
(* The pin of the MAX485 is a bit of GPIOA_ODR, and so is that of the      *)
(* slave on UART2.  Both drivers read, modify and write the register       *)
(* (rs485.h:205).  Such a write sets one's own bit as it should be, in the *)
(* step that stores; but it stores the other's bit as it was when it was   *)
(* loaded.  Of the slave there are here only its loads and its stores.     *)
(***************************************************************************)
EXTENDS Naturals

CONSTANTS Requesters,     \* drivers of the firmware
          Nobody          \* no callback registered yet

ASSUME Uart1Assumption == Nobody \notin Requesters

VARIABLES
  driver_lock,   \* the lock of each driver, taken until its callback
  master_lock,   \* master_rs485_rtu.lock
  callback,      \* master_rs485_rtu.callback
  locked,        \* uart1_control.locked
  monitor,       \* uart1_control.start_monitore
  status,        \* uart1_control.status_register
  uart_callback, \* "send" (_master_send_req) or "receive" (_master_receive)
  dma4,          \* transmit channel: "off", "on", or "done" but still enabled
  rx,            \* receive channel DMA5 and RE enabled
  tim2,          \* TIM2 counting
  pin,           \* MAX485 driver: "transmit" or "receive"
  stale,         \* the pin as the slave's code has loaded it, but not yet stored
  undone,        \* history: has a store of the slave changed the pin since
                 \* this driver last set it?
  buffer,        \* modbus_master_buffer: "request", "invalid", "reply",
                 \* "corrupt" or "oversized" (257 bytes)
  req,           \* where each requester is inside master_send_req
  task,          \* where the task is inside process_uart1_time_event
  final,         \* the status that it hands to the callback
  served,        \* whose callback was registered when the request ended
  users,         \* the drivers that send requests
  early,         \* may timeout_ms pass while a request is sent?
  slave          \* is there a slave on UART2 (IMPLEMENT_RS485_SLAVE_OVER_UART2)?

vars == <<driver_lock, master_lock, callback, locked, monitor, status, uart_callback,
          dma4, rx, tim2, pin, stale, undone, buffer, req, task, final, served,
          users, early, slave>>
settings == <<stale, users, early, slave>>
control == <<locked, monitor, status, uart_callback>>
bus == <<pin, undone>>
hardware == <<dma4, rx, tim2, bus>>
master == <<driver_lock, master_lock, callback>>
taskState == <<task, final, served>>

Statuses == {"none", "transfer_complete", "receive_complete", "error", "overflow"}
Finals == {"receive_and_process", "error", "overflow", "timeout", "success", "invalid"}
Directions == {"transmit", "receive"}
ReqPC == {"idle", "fill", "busy", "lock", "monitor", "turn", "stop", "arm", "go", "fail"}
TaskPC == {"idle", "load", "decide", "tim_off", "dma_off", "unmonitor", "unlock", "turn",
           "callback", "master_unlock", "master_callback"}

Init == /\ driver_lock = [r \in Requesters |-> FALSE]
        /\ master_lock = FALSE /\ callback = Nobody
        /\ locked = FALSE /\ monitor = FALSE /\ status = "none" /\ uart_callback = "send"
        /\ dma4 = "off" /\ rx = FALSE /\ tim2 = FALSE
        /\ pin = "transmit" /\ stale = {} /\ undone = FALSE
        /\ buffer = "invalid"
        /\ req = [r \in Requesters |-> "idle"]
        /\ task = "idle" /\ final = "none" /\ served = Nobody
        /\ users \in (SUBSET Requesters) \ {{}} /\ early \in BOOLEAN /\ slave \in BOOLEAN

GoReq(r, from, to) == /\ req[r] = from /\ req' = [req EXCEPT ![r] = to]
                      /\ UNCHANGED settings
GoTask(from, to) == task = from /\ task' = to /\ UNCHANGED settings

\* MASTER_RS485_DRIVER_TRANSMIT_MODE and MASTER_RS485_DRIVER_RECEIVE_MODE: the
\* store of the register.
SetDriver(direction) == pin' = direction /\ undone' = FALSE

-----------------------------------------------------------------------------
(***************************************************************************)
(* A driver call, master_send_req and uart1_transmit.                      *)
(***************************************************************************)
\* The driver takes its lock and master_send_req takes the master's.
Request(r) ==
  /\ r \in users /\ ~ driver_lock[r] /\ ~ master_lock
  /\ GoReq(r, "idle", "fill")
  /\ driver_lock' = [driver_lock EXCEPT ![r] = TRUE]
  /\ master_lock' = TRUE
  /\ UNCHANGED <<callback, control, hardware, buffer, taskState>>

\* The fields are filled in and the frame is built, or refused.
Fill(r) ==
  /\ \/ GoReq(r, "fill", "busy") /\ buffer' = "request"
     \/ GoReq(r, "fill", "fail") /\ UNCHANGED buffer
  /\ callback' = r
  /\ UNCHANGED <<driver_lock, master_lock, control, hardware, taskState>>

CheckBusy(r) ==
  /\ GoReq(r, "busy", IF dma4 # "off" \/ rx THEN "fail" ELSE "lock")
  /\ UNCHANGED <<master, control, hardware, buffer, taskState>>

LockUartForgotten(r) ==
  /\ GoReq(r, "lock", IF locked THEN "fail" ELSE "monitor")
  /\ UNCHANGED <<master, control, hardware, buffer, taskState>>

LockUart(r) ==
  /\ GoReq(r, "lock", IF locked THEN "fail" ELSE "monitor")
  /\ locked' = TRUE
  /\ UNCHANGED <<master, monitor, status, uart_callback, hardware, buffer, taskState>>

StopMonitor(r) ==
  /\ GoReq(r, "monitor", "turn")
  /\ monitor' = FALSE
  /\ UNCHANGED <<master, locked, status, uart_callback, hardware, buffer, taskState>>

TurnToTransmit(r) ==
  /\ GoReq(r, "turn", "stop")
  /\ SetDriver("transmit")
  /\ UNCHANGED <<master, control, dma4, rx, tim2, buffer, taskState>>

StopUart(r) ==
  /\ GoReq(r, "stop", "arm")
  /\ rx' = FALSE /\ dma4' = "off"
  /\ UNCHANGED <<master, control, tim2, bus, buffer, taskState>>

ArmUart(r) ==
  /\ GoReq(r, "arm", "go")
  /\ status' = "none" /\ uart_callback' = "send" /\ monitor' = TRUE
  /\ UNCHANGED <<master, locked, hardware, buffer, taskState>>

StartDma4(r) ==
  /\ GoReq(r, "go", "idle")
  /\ dma4' = "on"
  /\ UNCHANGED <<master, control, rx, tim2, bus, buffer, taskState>>

\* An error return: the master's lock and the driver's are freed.
FailKeepsMaster(r) ==
  /\ GoReq(r, "fail", "idle")
  /\ driver_lock' = [driver_lock EXCEPT ![r] = FALSE]
  /\ UNCHANGED <<master_lock, callback, control, hardware, buffer, taskState>>

Fail(r) ==
  /\ GoReq(r, "fail", "idle")
  /\ master_lock' = FALSE
  /\ driver_lock' = [driver_lock EXCEPT ![r] = FALSE]
  /\ UNCHANGED <<callback, control, hardware, buffer, taskState>>

RequestStep(r) == \/ Fill(r) \/ CheckBusy(r) \/ LockUart(r) \/ StopMonitor(r)
                  \/ TurnToTransmit(r) \/ StopUart(r) \/ ArmUart(r) \/ StartDma4(r) \/ Fail(r)

-----------------------------------------------------------------------------
(***************************************************************************)
(* Interrupt handlers.                                                     *)
(***************************************************************************)
\* The last byte of the request left the memory: the gap timer starts.
Dma4Complete ==
  /\ dma4 = "on"
  /\ dma4' = "done" /\ tim2' = TRUE /\ status' = "transfer_complete"
  /\ UNCHANGED <<master, locked, monitor, uart_callback, rx, bus, buffer, req, taskState, settings>>

\* A transfer error also disables the channel (reference manual).
Dma4Error ==
  /\ dma4 = "on"
  /\ dma4' = "off" /\ status' = "error"
  /\ UNCHANGED <<master, locked, monitor, uart_callback, rx, tim2, bus, buffer, req, taskState, settings>>

\* TIM2 (one pulse): the gap after the request is over, uart1_receive is
\* called on the lock that uart1_transmit took.  No interrupt that writes
\* GPIOA_ODR is more urgent, so nothing comes between its load and its store.
Tim2KeepsPin ==
  /\ tim2
  /\ tim2' = FALSE
  /\ buffer' = "invalid"
  /\ monitor' = TRUE /\ status' = "none" /\ uart_callback' = "receive"
  /\ rx' = TRUE /\ dma4' = "off"
  /\ UNCHANGED <<master, locked, bus, req, taskState, settings>>

Tim2 ==
  /\ tim2
  /\ tim2' = FALSE
  /\ buffer' = "invalid"
  /\ monitor' = TRUE /\ status' = "none" /\ uart_callback' = "receive"
  /\ SetDriver("receive") /\ rx' = TRUE /\ dma4' = "off"
  /\ UNCHANGED <<master, locked, req, taskState, settings>>

\* DMA5 took a byte too many: the slave's frame fills the whole buffer.
Dma5Overflow ==
  /\ rx
  /\ buffer' = "oversized" /\ status' = "overflow"
  /\ UNCHANGED <<master, locked, monitor, uart_callback, hardware, req, taskState, settings>>

\* The line is idle after a frame of the slave.
Usart1Idle ==
  /\ rx
  /\ buffer' \in IF buffer \in {"invalid", "request"} THEN {"reply", "corrupt"} ELSE {buffer}
  /\ status' = "receive_complete"
  /\ UNCHANGED <<master, locked, monitor, uart_callback, hardware, req, taskState, settings>>

\* USART1 parity, framing, noise or overrun error, or a DMA5 transfer error.
ReceiveError ==
  /\ rx
  /\ buffer' \in {buffer, "corrupt"}
  /\ status' = "error"
  /\ UNCHANGED <<master, locked, monitor, uart_callback, hardware, req, taskState, settings>>

Handler == Dma4Complete \/ Dma4Error \/ Tim2 \/ Dma5Overflow \/ Usart1Idle \/ ReceiveError

-----------------------------------------------------------------------------
(***************************************************************************)
(* process_uart1_time_event, called every millisecond.                     *)
(***************************************************************************)
TaskPoll == /\ monitor
            /\ GoTask("idle", "load")
            /\ UNCHANGED <<master, control, hardware, buffer, req, final, served>>

TaskLoad == /\ GoTask("load", "decide")
            /\ final' = status
            /\ UNCHANGED <<master, control, hardware, buffer, req, served>>

\* A reply or an error is latched.
TaskEndsUntranslated ==
  /\ final \in {"receive_complete", "error", "overflow"}
  /\ GoTask("decide", "tim_off")
  /\ UNCHANGED <<master, control, hardware, buffer, req, final, served>>

TaskEnds == /\ final \in {"receive_complete", "error", "overflow"}
            /\ GoTask("decide", "tim_off")
            /\ final' = IF final = "receive_complete" THEN "receive_and_process" ELSE final
            /\ UNCHANGED <<master, control, hardware, buffer, req, served>>

\* is_timeout_ms
Sending == uart_callback = "send" /\ status = "none"
TaskExpires == /\ final \in {"none", "transfer_complete"}
               /\ ~ Sending \/ (early /\ dma4 = "on")
               /\ GoTask("decide", "tim_off")
               /\ final' = "timeout"
               /\ UNCHANGED <<master, control, hardware, buffer, req, served>>

TaskWaits == /\ final \in {"none", "transfer_complete"}
             /\ GoTask("decide", "idle")
             /\ final' = "none"
             /\ UNCHANGED <<master, control, hardware, buffer, req, served>>

TimerOff == /\ GoTask("tim_off", "dma_off")
            /\ tim2' = FALSE
            /\ UNCHANGED <<master, control, dma4, rx, bus, buffer, req, final, served>>

DmaOffKeepsReceiver ==
  /\ GoTask("dma_off", "unmonitor")
  /\ dma4' = "off"
  /\ UNCHANGED <<master, control, rx, tim2, bus, buffer, req, final, served>>

DmaOff == /\ GoTask("dma_off", "unmonitor")
          /\ dma4' = "off" /\ rx' = FALSE
          /\ UNCHANGED <<master, control, tim2, bus, buffer, req, final, served>>

MonitorOff == /\ GoTask("unmonitor", "unlock")
              /\ monitor' = FALSE
              /\ UNCHANGED <<master, locked, status, uart_callback, hardware, buffer, req, final, served>>

\* The lock is freed, then the driver chip goes back to transmit mode.
UnlockUart == /\ GoTask("unlock", "turn")
              /\ locked' = FALSE
              /\ UNCHANGED <<master, monitor, status, uart_callback, hardware, buffer, req,
                             final, served>>

TurnBack == /\ GoTask("turn", "callback")
            /\ SetDriver("transmit")
            /\ UNCHANGED <<master, control, dma4, rx, tim2, buffer, req, final, served>>

\* uart_callback: _master_send_req hands any status on, _master_receive
\* checks a received frame (address, function, size, CRC).
Checked == CASE buffer = "reply" -> {"success"}
             [] buffer = "oversized" -> {"success", "invalid"}
             [] OTHER -> {"invalid"}
UartCallback == /\ GoTask("callback", "master_unlock")
                /\ final' \in IF uart_callback = "receive" /\ final = "receive_and_process"
                                THEN Checked ELSE {final}
                /\ served' = callback
                /\ UNCHANGED <<master, control, hardware, buffer, req>>

MasterUnlock == /\ GoTask("master_unlock", "master_callback")
                /\ master_lock' = FALSE
                /\ UNCHANGED <<driver_lock, callback, control, hardware, buffer, req, final, served>>

\* master_rs485_rtu.callback is read only now; the driver frees its lock.
MasterCallback == /\ GoTask("master_callback", "idle")
                  /\ driver_lock' = [driver_lock EXCEPT ![callback] = FALSE]
                  /\ final' = "none" /\ served' = Nobody
                  /\ UNCHANGED <<master_lock, callback, control, hardware, buffer, req>>

TaskStep == \/ TaskPoll \/ TaskLoad \/ TaskEnds \/ TaskExpires \/ TaskWaits \/ TimerOff
            \/ DmaOff \/ MonitorOff \/ UnlockUart \/ TurnBack \/ UartCallback
            \/ MasterUnlock \/ MasterCallback

-----------------------------------------------------------------------------
(***************************************************************************)
(* The slave writes its own bit of GPIOA_ODR, from a task or the handler   *)
(* of DMA7; interrupts and other tasks may come between load and store.    *)
(***************************************************************************)
SlaveLoadsPort ==
  /\ slave
  /\ stale' = stale \cup {pin}
  /\ UNCHANGED <<master, control, hardware, buffer, req, taskState, users, early, slave>>

\* Some other code may have loaded the same.
SlaveStoresPort ==
  \E loaded \in stale :
    /\ stale' \in {stale, stale \ {loaded}}
    /\ pin' = loaded /\ undone' = (undone \/ pin # loaded)
    /\ UNCHANGED <<master, control, dma4, rx, tim2, buffer, req, taskState, users, early, slave>>

SlaveStep == SlaveLoadsPort \/ SlaveStoresPort

Next == \/ \E r \in Requesters : Request(r) \/ RequestStep(r)
        \/ Handler
        \/ TaskStep
        \/ SlaveStep

Spec == Init /\ [][Next]_vars

(***************************************************************************)
(* The tasks keep running and a timeout that is polled for ever expires.   *)
(* Nothing is assumed of the line, the slaves and the DMA, except that the *)
(* DMA ends before the timeout when that is the case (~ early).            *)
(***************************************************************************)
FairSpec == /\ Spec
            /\ \A r \in Requesters : WF_vars(RequestStep(r))
            /\ WF_vars(TaskStep) /\ SF_vars(TaskExpires)
            /\ WF_vars(~ early /\ (Dma4Complete \/ Dma4Error))

-----------------------------------------------------------------------------
(***************************************************************************)
(* Properties.                                                             *)
(***************************************************************************)
\* What the task has latched at each of its steps.
FinalOK == final \in CASE task \in {"idle", "load"} -> {"none"}
                       [] task = "decide" -> Statuses
                       [] OTHER -> Finals

TypeOK == /\ driver_lock \in [Requesters -> BOOLEAN]
          /\ master_lock \in BOOLEAN /\ callback \in Requesters \cup {Nobody}
          /\ locked \in BOOLEAN /\ monitor \in BOOLEAN /\ status \in Statuses
          /\ uart_callback \in {"send", "receive"}
          /\ dma4 \in {"off", "on", "done"} /\ rx \in BOOLEAN /\ tim2 \in BOOLEAN
          /\ pin \in Directions /\ stale \in SUBSET Directions /\ undone \in BOOLEAN
          /\ buffer \in {"request", "invalid", "reply", "corrupt", "oversized"}
          /\ req \in [Requesters -> ReqPC]
          /\ task \in TaskPC
          /\ FinalOK
          /\ served \in Requesters \cup {Nobody}
          /\ users \in SUBSET Requesters /\ early \in BOOLEAN /\ slave \in BOOLEAN

(***************************************************************************)
(* The bus driver points the right way: towards the bus while the transmit *)
(* channel sends and between transfers, away from it while the receiver is *)
(* enabled, and never are both enabled.  The one exception is a pin that a *)
(* store of the slave's code has undone (rs485.h:205) and that this driver *)
(* has not set since.  (This and the next properties need a request that   *)
(* leaves before its timeout: otherwise the transmit handler can start the *)
(* gap timer between the two steps that stop it and the channel,           *)
(* hal_uart.c:427 and 432.)                                                *)
(***************************************************************************)
Driven(direction) == pin = direction \/ undone
DriverDirection == ~ early => /\ dma4 = "on" => Driven("transmit") /\ ~ rx
                              /\ rx => Driven("receive")
                              /\ ~ locked /\ task # "turn" => Driven("transmit")

(***************************************************************************)
(* "Timeout always releases lock and disables DMA safely" (hal_uart.c:382),*)
(* and so do all other ends: whenever uart1_control.locked is free, both   *)
(* DMA channels, the receiver and the gap timer are off, and the monitor   *)
(* is off, so that no status of an old transfer is taken for a new one.    *)
(***************************************************************************)
QuietWhenUnlocked == ~ early /\ ~ locked => dma4 = "off" /\ ~ rx /\ ~ tim2 /\ ~ monitor

(***************************************************************************)
(* "uart1_control.locked prevents concurrent TX/RX operations"             *)
(* (hal_uart.c:380): while one request is being set up no other is, and    *)
(* the task is not ending one, the turn of the bus driver included.        *)
(***************************************************************************)
SettingUp(r) == req[r] \in {"monitor", "turn", "stop", "arm", "go"}
Ending == task \in {"tim_off", "dma_off", "unmonitor", "unlock", "turn"}
OneTransfer ==
  ~ early => /\ \A r, s \in Requesters : SettingUp(r) /\ SettingUp(s) => r = s
             /\ \A r \in Requesters : req[r] \in {"monitor", "turn", "stop", "arm"} => ~ Ending
             /\ (\E r \in Requesters : SettingUp(r)) => locked /\ dma4 = "off" /\ ~ rx

(***************************************************************************)
(* Every request ends: the locks of the UART, the master and the driver    *)
(* are freed whatever the line, the slave and the DMA do, and however      *)
(* early the timeout passes; the driver's when it is the only one (see     *)
(* CallsRegisteredCallback).                                               *)
(***************************************************************************)
RequestsEnd ==
  /\ locked ~> ~ locked
  /\ master_lock ~> ~ master_lock
  /\ \A r \in Requesters : users = {r} /\ driver_lock[r] ~> ~ driver_lock[r]

(***************************************************************************)
(* "ISR may access master_rs485_rtu only when locked = true"               *)
(* (hal_uart.c:381): TIM2_IRQHandler reads its timeout_ms.                 *)
(***************************************************************************)
IsrAccessOnlyLocked == [][~ early /\ Tim2 => locked]_vars

(***************************************************************************)
(* process_uart1_time_event "calls the registered callback with the final  *)
(* status" (hal_uart.c:376): the one that was registered with the request  *)
(* that ended.                                                             *)
(***************************************************************************)
CallsRegisteredCallback == task = "master_callback" => callback = served
=============================================================================
