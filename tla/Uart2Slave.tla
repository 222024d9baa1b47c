----------------------------- MODULE Uart2Slave -----------------------------
(***************************************************************************)
(* The Modbus slave on UART2 (system/hal_uart.c, slave_send_resp of        *)
(* system/rs485.c): after rs485_slave_start_listen the handlers of DMA1    *)
(* channels 6 and 7, USART2 and TIM3 pass one frame after the other from   *)
(* the receiver to the transmitter and back; process_uart2_time_event      *)
(* restarts the slave after an error.                                      *)
(*                                                                         *)
(* A handler preempts the tasks and is one step; TIM3, the only one that   *)
(* calls uart2_receive and uart2_transmit, is the most urgent of them.     *)
(*                                                                         *)
(* The pin of the MAX485 is a bit of GPIOA_ODR, and so is that of the      *)
(* master on UART1.  Both drivers read, modify and write the register      *)
(* (rs485.h:208).  Such a write sets one's own bit as it should be, in the *)
(* step that stores; but it stores the other's bit as it was when it was   *)
(* loaded.  Of the master there are here only its loads and its stores.    *)
(***************************************************************************)
EXTENDS Naturals

VARIABLES
  monitor,  \* uart2_control.start_monitore
  status,   \* uart2_control.status_register
  dma6,     \* receive channel enabled
  re,       \* USART2 receiver enabled (RE)
  dma7,     \* transmit channel enabled
  te,       \* USART2 transmitter enabled (TE)
  tim3,     \* TIM3 counting
  pin,      \* MAX485 driver: "transmit" or "receive"
  stale,    \* the pin as the master's code has loaded it, but not yet stored
  undone,   \* history: has a store of the master changed the pin since this
            \* driver last set it?
  buffer,   \* modbus_slave_buffer: a frame of Received or an answer of Answers
  pc,       \* where the task and the starter of the slave are
  seen,     \* status_register as the task loaded it
  debug,    \* slave_rs485_rtu.enable_listening_debug
  disturbed,\* may the receive channel overflow (a frame longer than the buffer)
            \* or fail, and USART2 interrupt with neither an error nor the idle
            \* flag set?
  master    \* is there a master on UART1 (IMPLEMENT_RS485_MASTER_OVER_UART1)?

vars == <<monitor, status, dma6, re, dma7, te, tim3, pin, stale, undone, buffer, pc, seen,
          debug, disturbed, master>>
settings == <<stale, debug, disturbed, master>>
bus == <<pin, undone>>
hardware == <<dma6, re, dma7, te, tim3, bus>>

Statuses == {"none", "transfer_complete", "receive_complete", "wait_restart", "error"}
\* A request for holding registers that the slave has, one that it refuses
\* (another function, a quantity outside 1..125, registers it does not have),
\* and a frame for another slave or with a wrong CRC.
Received == {"valid", "refused", "other"}
Answers == {"reply", "exception"}
Directions == {"transmit", "receive"}
Procs == {"task", "starter"}
PC == {"idle", "load", "decide", "fail", "fail_tim", "fail_off", "fail_wait", "report",
       "restart", "rx_pin", "rx_off", "rx_arm", "rx_on"}

Go(p, from, to) == /\ pc[p] = from /\ pc' = [pc EXCEPT ![p] = to]
                   /\ UNCHANGED settings

\* SLAVE_RS485_DRIVER_TRANSMIT_MODE and SLAVE_RS485_DRIVER_RECEIVE_MODE: the
\* store of the register.
SetDriver(direction) == pin' = direction /\ undone' = FALSE

\* After init_slave_rs485; a task calls rs485_slave_start_listen once.
Init == /\ monitor = FALSE /\ status = "none"
        /\ dma6 = FALSE /\ re = FALSE /\ dma7 = FALSE /\ te = FALSE /\ tim3 = FALSE
        /\ pin = "receive" /\ stale = {} /\ undone = FALSE
        /\ buffer = "other"
        /\ pc = [p \in Procs |-> IF p = "starter" THEN "rx_pin" ELSE "idle"]
        /\ seen = "none"
        /\ debug \in BOOLEAN /\ disturbed \in BOOLEAN /\ master \in BOOLEAN

-----------------------------------------------------------------------------
(***************************************************************************)
(* uart2_receive, when a task calls it.                                    *)
(***************************************************************************)
RxPin(p) == /\ Go(p, "rx_pin", "rx_off")
            /\ SetDriver("receive")
            /\ UNCHANGED <<monitor, status, dma6, re, dma7, te, tim3, buffer, seen>>

RxOff(p) == /\ Go(p, "rx_off", "rx_arm")
            /\ monitor' = FALSE
            /\ te' = FALSE /\ re' = FALSE /\ dma6' = FALSE /\ dma7' = FALSE
            /\ UNCHANGED <<status, tim3, bus, buffer, seen>>

RxArm(p) == /\ Go(p, "rx_arm", "rx_on")
            /\ status' = "none" /\ monitor' = TRUE
            /\ UNCHANGED <<hardware, buffer, seen>>

RxOn(p) == /\ Go(p, "rx_on", "idle")
           /\ dma6' = TRUE /\ re' = TRUE
           /\ UNCHANGED <<monitor, status, dma7, te, tim3, bus, buffer, seen>>

StartListen(p) == RxPin(p) \/ RxOff(p) \/ RxArm(p) \/ RxOn(p)

(***************************************************************************)
(* uart2_receive and uart2_transmit, when the TIM3 handler calls them.  No *)
(* interrupt that writes GPIOA_ODR is more urgent, so nothing comes        *)
(* between its load and its store here.                                    *)
(***************************************************************************)
ListenKeepsPin == /\ te' = FALSE /\ dma7' = FALSE
                  /\ status' = "none" /\ monitor' = TRUE
                  /\ dma6' = TRUE /\ re' = TRUE
                  /\ UNCHANGED <<bus, buffer>>

Listen == /\ SetDriver("receive") /\ te' = FALSE /\ dma7' = FALSE
          /\ status' = "none" /\ monitor' = TRUE
          /\ dma6' = TRUE /\ re' = TRUE
          /\ UNCHANGED buffer

Answer == /\ buffer' = IF buffer = "valid" THEN "reply" ELSE "exception"
          /\ SetDriver("transmit") /\ re' = FALSE /\ dma6' = FALSE
          /\ status' = "none" /\ monitor' = TRUE
          /\ dma7' = TRUE /\ te' = TRUE

-----------------------------------------------------------------------------
(***************************************************************************)
(* Interrupt handlers.                                                     *)
(***************************************************************************)
\* The frame is longer than the buffer.
Dma6Overflow == /\ disturbed /\ re /\ dma6
                /\ status' = "error"
                /\ buffer' \in Received
                /\ UNCHANGED <<monitor, hardware, pc, seen, settings>>

\* A transfer error also disables the channel (reference manual).
Dma6Error == /\ disturbed /\ re /\ dma6
             /\ status' = "error" /\ dma6' = FALSE
             /\ UNCHANGED <<monitor, re, dma7, te, tim3, bus, buffer, pc, seen, settings>>

\* DMA7: the last byte left the memory, the timer covers its time on the bus.
Dma7Complete == /\ dma7 /\ te
                /\ dma7' = FALSE /\ tim3' = TRUE /\ status' = "transfer_complete"
                /\ UNCHANGED <<monitor, dma6, re, te, bus, buffer, pc, seen, settings>>

Dma7Error == /\ dma7 /\ te
             /\ dma7' = FALSE /\ SetDriver("receive") /\ status' = "error"
             /\ UNCHANGED <<monitor, dma6, re, te, tim3, buffer, pc, seen, settings>>

Usart2Error == /\ re
               /\ dma6' = FALSE /\ re' = FALSE /\ status' = "error"
               /\ buffer' \in {buffer, "other"}
               /\ UNCHANGED <<monitor, dma7, te, tim3, bus, pc, seen, settings>>

\* The line is idle after a frame: the timer waits for the gap between frames.
Usart2Idle == /\ re
              /\ dma6' = FALSE /\ re' = FALSE
              /\ tim3' = TRUE /\ status' = "receive_complete"
              /\ buffer' \in Received
              /\ UNCHANGED <<monitor, dma7, te, bus, pc, seen, settings>>

Usart2Spurious == /\ disturbed /\ re
                  /\ status' = "error"
                  /\ UNCHANGED <<monitor, hardware, buffer, pc, seen, settings>>

\* slave_send_resp answers a request for this slave, unless the copy of the
\* holding registers times out on slave_rs485_rtu.lock; a request without an
\* answer and any other frame is ignored, or reported when debugging.
Tim3Received == /\ status = "receive_complete"
                /\ \/ buffer \in {"valid", "refused"} /\ Answer
                   \/ buffer # "refused" /\ ~ debug /\ Listen
                   \/ buffer # "refused" /\ debug /\ status' = "error"
                      /\ UNCHANGED <<monitor, dma6, re, dma7, te, bus, buffer>>

Tim3SentDeaf == /\ status = "transfer_complete"
                /\ SetDriver("receive") /\ te' = FALSE /\ status' = "none"
                /\ UNCHANGED <<monitor, dma6, re, dma7, buffer>>

Tim3Sent == status = "transfer_complete" /\ Listen

Tim3Unexpected == /\ status \notin {"receive_complete", "transfer_complete"}
                  /\ SetDriver("receive")
                  /\ dma6' = FALSE /\ dma7' = FALSE /\ re' = FALSE /\ te' = FALSE
                  /\ status' = "error"
                  /\ UNCHANGED <<monitor, buffer>>

Tim3 == /\ tim3
        /\ tim3' = FALSE
        /\ Tim3Received \/ Tim3Sent \/ Tim3Unexpected
        /\ UNCHANGED <<pc, seen, settings>>

Sent == Dma7Complete \/ Dma7Error
Handler == \/ Dma6Overflow \/ Dma6Error \/ Sent \/ Usart2Error \/ Usart2Idle
           \/ Usart2Spurious \/ Tim3

-----------------------------------------------------------------------------
(***************************************************************************)
(* process_uart2_time_event, called every millisecond.                     *)
(***************************************************************************)
TaskPoll == /\ monitor
            /\ Go("task", "idle", "load")
            /\ UNCHANGED <<monitor, status, hardware, buffer, seen>>

TaskLoad == /\ Go("task", "load", "decide")
            /\ seen' = status
            /\ UNCHANGED <<monitor, status, hardware, buffer>>

\* Nothing to do, or the pause after an error is not over.
TaskWaits == /\ seen # "error"
             /\ Go("task", "decide", "idle")
             /\ seen' = "none"
             /\ UNCHANGED <<monitor, status, hardware, buffer>>

\* is_timeout_ms
TaskExpires == /\ seen = "wait_restart"
               /\ Go("task", "decide", "restart")
               /\ seen' = "none"
               /\ UNCHANGED <<monitor, status, hardware, buffer>>

TaskRestart == /\ Go("task", "restart", "rx_pin")
               /\ status' = "none"
               /\ UNCHANGED <<monitor, hardware, buffer, seen>>

TaskFailsOnZero == /\ seen \in {"error", "none"}
                   /\ Go("task", "decide", "fail")
                   /\ UNCHANGED <<monitor, status, hardware, buffer, seen>>

TaskFails == /\ seen = "error"
             /\ Go("task", "decide", "fail")
             /\ UNCHANGED <<monitor, status, hardware, buffer, seen>>

FailPin == /\ Go("task", "fail", "fail_tim")
           /\ SetDriver("receive")
           /\ UNCHANGED <<monitor, status, dma6, re, dma7, te, tim3, buffer, seen>>

FailTimerOff == /\ Go("task", "fail_tim", "fail_off")
                /\ tim3' = FALSE
                /\ UNCHANGED <<monitor, status, dma6, re, dma7, te, bus, buffer, seen>>

FailOff == /\ Go("task", "fail_off", "fail_wait")
           /\ dma7' = FALSE /\ dma6' = FALSE /\ re' = FALSE /\ te' = FALSE
           /\ UNCHANGED <<monitor, status, tim3, bus, buffer, seen>>

FailWaitForgotten == /\ Go("task", "fail_wait", "report")
                     /\ status' = "none"
                     /\ UNCHANGED <<monitor, hardware, buffer, seen>>

FailWait == /\ Go("task", "fail_wait", "report")
            /\ status' = "wait_restart"
            /\ UNCHANGED <<monitor, hardware, buffer, seen>>

\* uart_callback: the error goes to error_handler.
FailReport == /\ Go("task", "report", "idle")
              /\ seen' = "none"
              /\ UNCHANGED <<monitor, status, hardware, buffer>>

TaskStep == \/ TaskPoll \/ TaskLoad \/ TaskWaits \/ TaskExpires \/ TaskRestart
            \/ TaskFails \/ FailPin \/ FailTimerOff \/ FailOff \/ FailWait \/ FailReport
            \/ StartListen("task")

-----------------------------------------------------------------------------
(***************************************************************************)
(* The master writes its own bit of GPIOA_ODR, from a task (hal_uart.c:334 *)
(* and 447); TIM3 and other tasks may come between load and store.         *)
(***************************************************************************)
MasterLoadsPort ==
  /\ master
  /\ stale' = stale \cup {pin}
  /\ UNCHANGED <<monitor, status, hardware, buffer, pc, seen, debug, disturbed, master>>

\* Some other code may have loaded the same.
MasterStoresPort ==
  \E loaded \in stale :
    /\ stale' \in {stale, stale \ {loaded}}
    /\ pin' = loaded /\ undone' = (undone \/ pin # loaded)
    /\ UNCHANGED <<monitor, status, dma6, re, dma7, te, tim3, buffer, pc, seen,
                   debug, disturbed, master>>

MasterStep == MasterLoadsPort \/ MasterStoresPort

Next == StartListen("starter") \/ Handler \/ TaskStep \/ MasterStep

Spec == Init /\ [][Next]_vars

(***************************************************************************)
(* The tasks keep running, a pause that is polled for ever ends, TIM3      *)
(* fires once it counts, and an enabled transmitter empties its channel.   *)
(* Nothing is assumed of the bus and its master.                           *)
(***************************************************************************)
FairSpec == /\ Spec
            /\ WF_vars(StartListen("starter")) /\ WF_vars(TaskStep) /\ SF_vars(TaskExpires)
            /\ WF_vars(Tim3) /\ WF_vars(Sent)

-----------------------------------------------------------------------------
(***************************************************************************)
(* Properties.                                                             *)
(***************************************************************************)
HardwareOK == /\ dma6 \in BOOLEAN /\ re \in BOOLEAN /\ dma7 \in BOOLEAN /\ te \in BOOLEAN
              /\ tim3 \in BOOLEAN
              /\ pin \in Directions /\ undone \in BOOLEAN
TypeOK == /\ HardwareOK
          /\ monitor \in BOOLEAN /\ status \in Statuses
          /\ stale \in SUBSET Directions
          /\ buffer \in Received \cup Answers
          /\ pc \in [Procs -> PC]
          /\ seen \in Statuses
          /\ debug \in BOOLEAN /\ disturbed \in BOOLEAN /\ master \in BOOLEAN
          /\ pc["task"] \in {"fail", "fail_tim", "fail_off", "fail_wait", "report"} => seen = "error"

(***************************************************************************)
(* On a bus whose frames fit the buffer the slave drives the bus while it  *)
(* sends an answer and until the last byte of it is out, and at no other   *)
(* time: neither while it listens nor when it is idle, has failed, pauses  *)
(* or starts again.  The one exception is a pin that a store of the        *)
(* master's code has undone (rs485.h:208) and that this driver has not set *)
(* since: there the slave may keep the bus, and is deaf.                   *)
(***************************************************************************)
LastByteOut == status = "transfer_complete" /\ te /\ tim3
BusDirection == ~ disturbed => /\ dma7 => te /\ ~ re /\ (pin = "transmit" \/ undone)
                               /\ pin = "transmit" => dma7 \/ LastByteOut \/ undone

(***************************************************************************)
(* On such a bus the slave is always in one of its modes, and each has     *)
(* something that ends it: the receiver, the gap timer, the transmitter or *)
(* the poll.  process_uart2_time_event does nothing for status 0, 1 and 2, *)
(* so a slave with one of these and nothing running would be deaf for good.*)
(***************************************************************************)
Listening == status = "none" /\ re /\ dma6 /\ ~ dma7 /\ ~ te /\ ~ tim3
GapBefore == status = "receive_complete" /\ tim3 /\ ~ re /\ ~ dma6 /\ ~ dma7 /\ ~ te
Answering == status = "none" /\ dma7 /\ te /\ ~ re /\ ~ dma6 /\ ~ tim3
GapAfter == status = "transfer_complete" /\ tim3 /\ ~ re /\ ~ dma6 /\ ~ dma7
Failed == status = "error" /\ ~ dma6 /\ ~ dma7 /\ ~ tim3
Pausing == status = "wait_restart" /\ ~ re /\ ~ dma6 /\ ~ dma7 /\ ~ te /\ ~ tim3
Restarting == \E p \in Procs : pc[p] \in {"restart", "rx_pin", "rx_off", "rx_arm", "rx_on"}

Awake == Restarting \/ /\ monitor
                       /\ \/ Listening \/ GapBefore \/ Answering \/ GapAfter
                          \/ Failed \/ Pausing
NeverDeaf == ~ disturbed => Awake

(***************************************************************************)
(* process_uart2_time_event "ensures DMA1/USART2 are disabled on failure"  *)
(* (hal_uart.c:930): they are when it reports the failure.  True on such a *)
(* bus, but not on every bus: after an oversized frame the idle line can   *)
(* start TIM3, and TIM3 an answer, between the steps of the failure path.  *)
(***************************************************************************)
DisabledOnFailure == pc["task"] = "report" => ~ dma6 /\ ~ dma7 /\ ~ re /\ ~ te
QuietFailure == ~ disturbed => DisabledOnFailure

(***************************************************************************)
(* On such a bus an answer that was started is only ended by its channel:  *)
(* no step of the task and no other handler cuts it.                       *)
(***************************************************************************)
AnswerNotCut == [][~ disturbed /\ dma7 /\ ~ dma7' => Sent]_vars

(***************************************************************************)
(* The slave always listens again, whatever the bus does: after a frame,   *)
(* after an answer and after every error; and with the bus driver turned   *)
(* to receive, but for two cases in which it keeps the bus and is deaf.    *)
(*   - A store of the master's code turns the pin back that TIM3 turned to *)
(*     receive after the load (rs485.h:205); nothing that the slave then   *)
(*     does by itself sets it again.                                       *)
(*   - After an oversized frame or a DMA error the pause of the failure    *)
(*     path can find the receiver on, and an answer started by TIM3 after  *)
(*     uart2_receive has turned the pin (hal_uart.c:797), but before it    *)
(*     stops the receiver, is cut with the pin at transmit.                *)
(***************************************************************************)
ListensAgain == []<>(re /\ dma6 /\ (pin = "receive" \/ undone \/ disturbed))
=============================================================================
