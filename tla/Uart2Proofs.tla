---------------------------- MODULE Uart2Proofs -----------------------------
(***************************************************************************)
(* The types of Uart2Slave on every bus, and its invariants on a bus whose *)
(* frames fit the buffer, with and without debugging and a master beside.  *)
(***************************************************************************)
EXTENDS Uart2Slave, TLAPS

(***************************************************************************)
(* The inductive invariant: the mode of the slave, ...                     *)
(***************************************************************************)
AllOff == ~ re /\ ~ dma6 /\ ~ dma7 /\ ~ te /\ ~ tim3

ModeInv ==
  /\ Restarting => AllOff
  /\ ~ Restarting => /\ monitor
                     /\ \/ Listening \/ GapBefore \/ Answering \/ GapAfter
                        \/ (Failed /\ ~ re) \/ Pausing

PinInv == /\ dma7 => pin = "transmit" \/ undone
          /\ pin = "transmit" => dma7 \/ LastByteOut \/ undone

\* ... where a start of the receiver by a task has come, ...
StartInv ==
  /\ pc["starter"] \in {"idle", "rx_pin", "rx_off", "rx_arm", "rx_on"}
  /\ pc["starter"] # "idle" => status = "none" /\ pc["task"] \in {"idle", "load", "decide"}
  /\ pc["starter"] \in {"rx_pin", "rx_off", "rx_arm"} => ~ monitor /\ pc["task"] = "idle"
  /\ \A p \in Procs : pc[p] = "rx_on" => status = "none" /\ monitor

\* ... and what the task knows of the status it loaded.
SeenInv ==
  /\ seen = "error" => status = "error" \/ pc["task"] \in {"fail_wait", "report"}
  /\ seen = "wait_restart" => status = "wait_restart"
  /\ seen # "none" => pc["task"] \in {"decide", "fail", "fail_tim", "fail_off", "fail_wait", "report"}
  /\ pc["task"] \in {"fail", "fail_tim", "fail_off"} => status = "error"
  /\ pc["task"] = "fail_wait" => status = "error" /\ ~ te
  /\ pc["task"] = "report" => Pausing

IInv == ModeInv /\ PinInv /\ StartInv /\ SeenInv

-----------------------------------------------------------------------------
(***************************************************************************)
(* The invariant holds initially and every step keeps it: a start of the   *)
(* receiver by a task, ...                                                 *)
(***************************************************************************)
LEMMA InitHolds == Init => IInv
BY DEF Init, Procs, LastByteOut, IInv, ModeInv, PinInv, StartInv, SeenInv, AllOff, Restarting,
       Listening, GapBefore, Answering, GapAfter, Failed, Pausing

LEMMA StartKeeps ==
  ASSUME NEW p \in Procs, TypeOK, IInv, StartListen(p)
  PROVE  IInv'
<1> USE DEF vars, hardware, bus, settings, SetDriver, LastByteOut, Go, Procs, Restarting, AllOff,
            Listening, GapBefore, Answering, GapAfter, Failed, Pausing
<1>1. CASE RxOff(p)
  <2>1. ModeInv'
    BY <1>1 DEF IInv, RxOff, ModeInv
  <2>2. PinInv'
    BY <1>1 DEF IInv, RxOff, PinInv, ModeInv
  <2>3. StartInv'
    BY <1>1 DEF IInv, RxOff, StartInv
  <2>4. SeenInv'
    BY <1>1 DEF IInv, RxOff, SeenInv
  <2> QED BY <2>1, <2>2, <2>3, <2>4 DEF IInv
<1>2. CASE RxArm(p)
  <2>1. ModeInv'
    BY <1>2 DEF IInv, RxArm, ModeInv
  <2>2. PinInv'
    BY <1>2 DEF IInv, RxArm, PinInv, ModeInv
  <2>3. StartInv'
    BY <1>2 DEF IInv, RxArm, StartInv, TypeOK
  <2>4. SeenInv'
    BY <1>2 DEF IInv, RxArm, SeenInv, StartInv
  <2> QED BY <2>1, <2>2, <2>3, <2>4 DEF IInv
<1>3. CASE RxOn(p)
  <2>1. ModeInv'
    BY <1>3 DEF IInv, RxOn, ModeInv, TypeOK, StartInv
  <2>2. PinInv'
    BY <1>3 DEF IInv, RxOn, PinInv
  <2>3. StartInv'
    BY <1>3 DEF IInv, RxOn, StartInv
  <2>4. SeenInv'
    BY <1>3 DEF IInv, RxOn, SeenInv, StartInv
  <2> QED BY <2>1, <2>2, <2>3, <2>4 DEF IInv
<1>4. CASE RxPin(p)
  <2>1. ModeInv'
    BY <1>4 DEF IInv, RxPin, ModeInv
  <2>2. PinInv'
    BY <1>4 DEF IInv, RxPin, PinInv, ModeInv
  <2>3. StartInv'
    BY <1>4 DEF IInv, RxPin, StartInv
  <2>4. SeenInv'
    BY <1>4 DEF IInv, RxPin, SeenInv
  <2> QED BY <2>1, <2>2, <2>3, <2>4 DEF IInv
<1> QED BY <1>1, <1>2, <1>3, <1>4 DEF StartListen

\* ... the handlers, ...
LEMMA HandlerKeeps ==
  ASSUME ~ disturbed, TypeOK, IInv, Handler
  PROVE  IInv'
<1> USE DEF vars, hardware, bus, settings, SetDriver, LastByteOut, Go, Procs, Restarting, AllOff,
            Listening, GapBefore, Answering, GapAfter, Failed, Pausing
<1>1. CASE Dma6Overflow
  BY <1>1 DEF Dma6Overflow
<1>2. CASE Dma6Error
  BY <1>2 DEF Dma6Error
<1>3. CASE Dma7Complete
  <2>1. ModeInv'
    BY <1>3 DEF IInv, Dma7Complete, ModeInv
  <2>2. PinInv'
    BY <1>3 DEF IInv, Dma7Complete, PinInv, ModeInv
  <2>3. StartInv'
    BY <1>3 DEF IInv, Dma7Complete, StartInv, ModeInv
  <2>4. SeenInv'
    BY <1>3 DEF IInv, Dma7Complete, SeenInv, ModeInv
  <2> QED BY <2>1, <2>2, <2>3, <2>4 DEF IInv
<1>4. CASE Dma7Error
  <2>1. ModeInv'
    BY <1>4 DEF IInv, Dma7Error, ModeInv
  <2>2. PinInv'
    BY <1>4 DEF IInv, Dma7Error, PinInv
  <2>3. StartInv'
    BY <1>4 DEF IInv, Dma7Error, StartInv, ModeInv
  <2>4. SeenInv'
    BY <1>4 DEF IInv, Dma7Error, SeenInv, ModeInv
  <2> QED BY <2>1, <2>2, <2>3, <2>4 DEF IInv
<1>5. CASE Usart2Error
  <2>1. ModeInv'
    BY <1>5 DEF IInv, Usart2Error, ModeInv
  <2>2. PinInv'
    BY <1>5 DEF IInv, Usart2Error, PinInv, ModeInv
  <2>3. StartInv'
    BY <1>5 DEF IInv, Usart2Error, StartInv, ModeInv
  <2>4. SeenInv'
    BY <1>5 DEF IInv, Usart2Error, SeenInv, ModeInv
  <2> QED BY <2>1, <2>2, <2>3, <2>4 DEF IInv
<1>6. CASE Usart2Idle
  <2>1. ModeInv'
    BY <1>6 DEF IInv, Usart2Idle, ModeInv
  <2>2. PinInv'
    BY <1>6 DEF IInv, Usart2Idle, PinInv, ModeInv
  <2>3. StartInv'
    BY <1>6 DEF IInv, Usart2Idle, StartInv, ModeInv
  <2>4. SeenInv'
    BY <1>6 DEF IInv, Usart2Idle, SeenInv, ModeInv
  <2> QED BY <2>1, <2>2, <2>3, <2>4 DEF IInv
<1>7. CASE Usart2Spurious
  BY <1>7 DEF Usart2Spurious
<1>8. CASE Tim3
  <2>1. ModeInv'
    BY <1>8 DEF IInv, Tim3, ModeInv, Tim3Received, Tim3Sent, Tim3Unexpected, Listen,
           Answer
  <2>2. PinInv'
    BY <1>8 DEF IInv, Tim3, PinInv, Tim3Received, Tim3Sent, Tim3Unexpected, Listen,
           Answer, ModeInv
  <2>3. StartInv'
    BY <1>8 DEF IInv, Tim3, StartInv, Tim3Received, Tim3Sent, Tim3Unexpected, Listen,
           Answer, ModeInv
  <2>4. SeenInv'
    BY <1>8 DEF IInv, Tim3, SeenInv, Tim3Received, Tim3Sent, Tim3Unexpected, Listen,
           Answer, ModeInv
  <2> QED BY <2>1, <2>2, <2>3, <2>4 DEF IInv
<1> QED BY <1>1, <1>2, <1>3, <1>4, <1>5, <1>6, <1>7, <1>8 DEF Handler, Sent

\* ... and the task.
LEMMA TaskKeeps ==
  ASSUME TypeOK, IInv, TaskStep
  PROVE  IInv'
<1> USE DEF vars, hardware, bus, settings, SetDriver, LastByteOut, Go, Procs, Restarting, AllOff,
            Listening, GapBefore, Answering, GapAfter, Failed, Pausing
<1>1. CASE TaskPoll
  <2>1. ModeInv'
    BY <1>1 DEF IInv, TaskPoll, ModeInv
  <2>2. PinInv'
    BY <1>1 DEF IInv, TaskPoll, PinInv
  <2>3. StartInv'
    BY <1>1 DEF IInv, TaskPoll, StartInv
  <2>4. SeenInv'
    BY <1>1 DEF IInv, TaskPoll, SeenInv
  <2> QED BY <2>1, <2>2, <2>3, <2>4 DEF IInv
<1>2. CASE TaskLoad
  <2>1. ModeInv'
    BY <1>2 DEF IInv, TaskLoad, ModeInv
  <2>2. PinInv'
    BY <1>2 DEF IInv, TaskLoad, PinInv
  <2>3. StartInv'
    BY <1>2 DEF IInv, TaskLoad, StartInv
  <2>4. SeenInv'
    BY <1>2 DEF IInv, TaskLoad, SeenInv, TypeOK
  <2> QED BY <2>1, <2>2, <2>3, <2>4 DEF IInv
<1>3. CASE TaskWaits
  <2>1. ModeInv'
    BY <1>3 DEF IInv, TaskWaits, ModeInv
  <2>2. PinInv'
    BY <1>3 DEF IInv, TaskWaits, PinInv
  <2>3. StartInv'
    BY <1>3 DEF IInv, TaskWaits, StartInv
  <2>4. SeenInv'
    BY <1>3 DEF IInv, TaskWaits, SeenInv
  <2> QED BY <2>1, <2>2, <2>3, <2>4 DEF IInv
<1>4. CASE TaskExpires
  <2>1. ModeInv'
    BY <1>4 DEF IInv, TaskExpires, ModeInv, SeenInv
  <2>2. PinInv'
    BY <1>4 DEF IInv, TaskExpires, PinInv
  <2>3. StartInv'
    BY <1>4 DEF IInv, TaskExpires, StartInv, SeenInv
  <2>4. SeenInv'
    BY <1>4 DEF IInv, TaskExpires, SeenInv
  <2> QED BY <2>1, <2>2, <2>3, <2>4 DEF IInv
<1>5. CASE TaskRestart
  <2>1. ModeInv'
    BY <1>5 DEF IInv, TaskRestart, ModeInv
  <2>2. PinInv'
    BY <1>5 DEF IInv, TaskRestart, PinInv, ModeInv
  <2>3. StartInv'
    BY <1>5 DEF IInv, TaskRestart, StartInv
  <2>4. SeenInv'
    BY <1>5 DEF IInv, TaskRestart, SeenInv
  <2> QED BY <2>1, <2>2, <2>3, <2>4 DEF IInv
<1>6. CASE TaskFails
  <2>1. ModeInv'
    BY <1>6 DEF IInv, TaskFails, ModeInv
  <2>2. PinInv'
    BY <1>6 DEF IInv, TaskFails, PinInv
  <2>3. StartInv'
    BY <1>6 DEF IInv, TaskFails, StartInv, SeenInv
  <2>4. SeenInv'
    BY <1>6 DEF IInv, TaskFails, SeenInv
  <2> QED BY <2>1, <2>2, <2>3, <2>4 DEF IInv
<1>7. CASE FailTimerOff
  <2>1. ModeInv'
    BY <1>7 DEF IInv, FailTimerOff, ModeInv, SeenInv
  <2>2. PinInv'
    BY <1>7 DEF IInv, FailTimerOff, PinInv, SeenInv
  <2>3. StartInv'
    BY <1>7 DEF IInv, FailTimerOff, StartInv
  <2>4. SeenInv'
    BY <1>7 DEF IInv, FailTimerOff, SeenInv
  <2> QED BY <2>1, <2>2, <2>3, <2>4 DEF IInv
<1>8. CASE FailOff
  <2>1. ModeInv'
    BY <1>8 DEF IInv, FailOff, ModeInv, SeenInv
  <2>2. PinInv'
    BY <1>8 DEF IInv, FailOff, PinInv, ModeInv, SeenInv
  <2>3. StartInv'
    BY <1>8 DEF IInv, FailOff, StartInv
  <2>4. SeenInv'
    BY <1>8 DEF IInv, FailOff, SeenInv
  <2> QED BY <2>1, <2>2, <2>3, <2>4 DEF IInv
<1>9. CASE FailWait
  <2>1. ModeInv'
    BY <1>9 DEF IInv, FailWait, ModeInv, SeenInv
  <2>2. PinInv'
    BY <1>9 DEF IInv, FailWait, PinInv, SeenInv
  <2>3. StartInv'
    BY <1>9 DEF IInv, FailWait, StartInv
  <2>4. SeenInv'
    BY <1>9 DEF IInv, FailWait, SeenInv, TypeOK, ModeInv
  <2> QED BY <2>1, <2>2, <2>3, <2>4 DEF IInv
<1>10. CASE FailReport
  <2>1. ModeInv'
    BY <1>10 DEF IInv, FailReport, ModeInv
  <2>2. PinInv'
    BY <1>10 DEF IInv, FailReport, PinInv
  <2>3. StartInv'
    BY <1>10 DEF IInv, FailReport, StartInv
  <2>4. SeenInv'
    BY <1>10 DEF IInv, FailReport, SeenInv
  <2> QED BY <2>1, <2>2, <2>3, <2>4 DEF IInv
<1>11. CASE StartListen("task")
  BY <1>11, StartKeeps
<1>12. CASE FailPin
  <2>1. ModeInv'
    BY <1>12 DEF IInv, FailPin, ModeInv
  <2>2. PinInv'
    BY <1>12 DEF IInv, FailPin, PinInv, ModeInv, SeenInv
  <2>3. StartInv'
    BY <1>12 DEF IInv, FailPin, StartInv
  <2>4. SeenInv'
    BY <1>12 DEF IInv, FailPin, SeenInv
  <2> QED BY <2>1, <2>2, <2>3, <2>4 DEF IInv
<1> QED BY <1>11, <1>12, <1>1, <1>2, <1>3, <1>4, <1>5, <1>6, <1>7, <1>8, <1>9, <1>10 DEF TaskStep

\* The master's code changes nothing but the pin, and owns up to it.
LEMMA MasterKeeps ==
  ASSUME IInv, MasterStep
  PROVE  IInv'
<1> USE DEF vars, hardware, bus, Go, Procs, Restarting, AllOff, LastByteOut,
            Listening, GapBefore, Answering, GapAfter, Failed, Pausing
<1>1. CASE MasterLoadsPort
  BY <1>1 DEF MasterLoadsPort, IInv, ModeInv, PinInv, StartInv, SeenInv
<1>2. CASE MasterStoresPort
  <2>1. PICK loaded \in stale : pin' = loaded /\ undone' = (undone \/ pin # loaded)
    BY <1>2 DEF MasterStoresPort
  <2>2. UNCHANGED <<monitor, status, dma6, re, dma7, te, tim3, pc, seen>>
    BY <1>2 DEF MasterStoresPort
  <2>3. PinInv'
    <3>1. CASE undone \/ pin # loaded
      BY <2>1, <2>2, <3>1 DEF IInv, PinInv
    <3>2. CASE ~ undone /\ pin = loaded
      BY <2>1, <2>2, <3>2 DEF IInv, PinInv
    <3> QED BY <3>1, <3>2
  <2>4. ModeInv' /\ StartInv' /\ SeenInv'
    BY <2>2 DEF IInv, ModeInv, StartInv, SeenInv
  <2> QED BY <2>3, <2>4 DEF IInv
<1> QED BY <1>1, <1>2 DEF MasterStep

LEMMA StutterKeeps == ASSUME IInv, UNCHANGED vars PROVE IInv'
BY DEF vars, LastByteOut, IInv, ModeInv, PinInv, StartInv, SeenInv, AllOff, Restarting,
       Listening, GapBefore, Answering, GapAfter, Failed, Pausing

LEMMA SettingsStay == [Next]_vars => disturbed' = disturbed
BY DEF Next, MasterStep, MasterLoadsPort, MasterStoresPort, StartListen, RxPin, FailPin, RxOff, RxArm, RxOn, Handler, Sent, Dma6Overflow, Dma6Error, Dma7Complete,
       Dma7Error, Usart2Error, Usart2Idle, Usart2Spurious, Tim3, TaskStep, TaskPoll, TaskLoad,
       TaskWaits, TaskExpires, TaskRestart, TaskFails, FailTimerOff, FailOff, FailWait, FailReport,
       Go, settings, vars

-----------------------------------------------------------------------------
(***************************************************************************)
(* The state of the slave keeps its types, whatever the bus does, and the  *)
(* task ends a failure it has loaded.                                      *)
(***************************************************************************)
THEOREM TypeCorrect == Spec => []TypeOK
<1>1. Init => TypeOK
  BY DEF Init, TypeOK, HardwareOK, Procs, PC, Statuses, Received, Directions
<1>2. ASSUME TypeOK, [Next]_vars PROVE TypeOK'
  <2> USE <1>2 DEF TypeOK, HardwareOK, Procs, PC, Statuses, Received, Answers, hardware,
                 bus, settings, SetDriver
  <2>0. "transmit" \in Directions /\ "receive" \in Directions
    BY DEF Directions
  <2> USE <2>0
  <2>1. ASSUME NEW p \in Procs, StartListen(p) PROVE TypeOK'
    <3>1. CASE RxOff(p)
      <4>1. HardwareOK'
        BY <3>1 DEF RxOff, Go
      <4>2. pc' \in [Procs -> PC]
        BY <3>1 DEF RxOff, Go
      <4>3. pc'["task"] = pc["task"] \/ pc'["task"] = "rx_arm"
        BY <3>1 DEF RxOff, Go
      <4>4. monitor' = FALSE /\ UNCHANGED <<status, stale, buffer, seen, settings>>
        BY <3>1 DEF RxOff, Go
      <4> HIDE DEF HardwareOK, PC, Procs, Statuses, Received, Answers
      <4> QED BY <4>1, <4>2, <4>3, <4>4
    <3>2. CASE RxArm(p)
      BY <3>2 DEF RxArm, Go
    <3>3. CASE RxOn(p)
      BY <3>3 DEF RxOn, Go
    <3>4. CASE RxPin(p)
      <4>1. HardwareOK'
        BY <3>4 DEF RxPin, Go
      <4> HIDE DEF HardwareOK
      <4> QED BY <3>4, <4>1 DEF RxPin, Go
    <3> QED BY <2>1, <3>1, <3>2, <3>3, <3>4 DEF StartListen
  <2>2. CASE Handler
    <3>1. CASE Dma6Overflow
      BY <3>1 DEF Dma6Overflow
    <3>2. CASE Dma6Error
      <4>1. HardwareOK'
        BY <3>2 DEF Dma6Error
      <4> HIDE DEF HardwareOK
      <4> QED BY <3>2, <4>1 DEF Dma6Error
    <3>3. CASE Sent
      <4>1. HardwareOK'
        BY <3>3 DEF Sent, Dma7Complete, Dma7Error
      <4> HIDE DEF HardwareOK
      <4> QED BY <3>3, <4>1 DEF Sent, Dma7Complete, Dma7Error
    <3>4. CASE Usart2Error
      <4>1. HardwareOK'
        BY <3>4 DEF Usart2Error
      <4> HIDE DEF HardwareOK
      <4> QED BY <3>4, <4>1 DEF Usart2Error
    <3>5. CASE Usart2Idle
      BY <3>5 DEF Usart2Idle
    <3>6. CASE Usart2Spurious
      BY <3>6 DEF Usart2Spurious
    <3>7. CASE Tim3
      <4>1. HardwareOK'
        BY <3>7 DEF Tim3, Tim3Received, Tim3Sent, Tim3Unexpected, Listen, Answer
      <4> HIDE DEF HardwareOK
      <4> QED BY <3>7, <4>1 DEF Tim3, Tim3Received, Tim3Sent, Tim3Unexpected, Listen, Answer
    <3> QED BY <2>2, <3>1, <3>2, <3>3, <3>4, <3>5, <3>6, <3>7 DEF Handler
  <2>3. CASE TaskStep
    <3>1. CASE TaskPoll \/ TaskLoad \/ TaskWaits
      BY <3>1 DEF TaskPoll, TaskLoad, TaskWaits, Go
    <3>2. CASE TaskExpires \/ TaskRestart \/ TaskFails
      BY <3>2 DEF TaskExpires, TaskRestart, TaskFails, Go
    <3>3. CASE FailPin \/ FailTimerOff
      <4>1. HardwareOK'
        BY <3>3 DEF FailPin, FailTimerOff, Go
      <4> HIDE DEF HardwareOK
      <4> QED BY <3>3, <4>1 DEF FailPin, FailTimerOff, Go
    <3>4. CASE FailOff
      <4>1. HardwareOK'
        BY <3>4 DEF FailOff, Go
      <4> HIDE DEF HardwareOK
      <4> QED BY <3>4, <4>1 DEF FailOff, Go
    <3>5. CASE FailWait \/ FailReport
      BY <3>5 DEF FailWait, FailReport, Go
    <3>6. CASE StartListen("task")
      BY <2>1, <3>6
    <3> QED BY <2>3, <3>1, <3>2, <3>3, <3>4, <3>5, <3>6 DEF TaskStep
  <2>4. CASE UNCHANGED vars
    BY <2>4 DEF vars
  <2>5. CASE MasterStep
    <3>1. CASE MasterLoadsPort
      BY <3>1 DEF MasterLoadsPort
    <3>2. CASE MasterStoresPort
      <4>1. PICK loaded \in stale : /\ pin' = loaded /\ stale' \in {stale, stale \ {loaded}}
                                    /\ undone' = (undone \/ pin # loaded)
        BY <3>2 DEF MasterStoresPort
      <4>2. pin' \in Directions /\ stale' \in SUBSET Directions /\ undone' \in BOOLEAN
        BY <4>1
      <4> QED BY <3>2, <4>2 DEF MasterStoresPort
    <3> QED BY <2>5, <3>1, <3>2 DEF MasterStep
  <2> QED BY <2>1, <2>2, <2>3, <2>4, <2>5 DEF Next
<1> QED BY <1>1, <1>2, PTL DEF Spec

(***************************************************************************)
(* The inductive invariant holds for ever on a bus whose frames fit.       *)
(***************************************************************************)
LEMMA Invariance == Spec => [](~ disturbed => IInv)
<1>1. TypeOK /\ (~ disturbed => IInv) /\ [Next]_vars => (~ disturbed => IInv)'
  <2>1. "starter" \in Procs
    BY DEF Procs
  <2> QED BY <2>1, SettingsStay, StartKeeps, HandlerKeeps, TaskKeeps, MasterKeeps,
            StutterKeeps DEF Next
<1> QED BY <1>1, InitHolds, TypeCorrect, PTL DEF Spec

(***************************************************************************)
(* On a bus whose frames fit the buffer (~ disturbed: neither an oversized *)
(* frame nor a DMA6 error nor an interrupt with no flag set), the slave is *)
(* always in a mode that its receiver, a timer, its transmitter or the     *)
(* poll of process_uart2_time_event ends.                                  *)
(***************************************************************************)
THEOREM AlwaysAwake == Spec => []NeverDeaf
<1>1. (~ disturbed => IInv) => NeverDeaf
  BY DEF IInv, ModeInv, NeverDeaf, Awake
<1> QED BY <1>1, Invariance, PTL

(***************************************************************************)
(* On a bus whose frames fit the buffer (~ disturbed), the slave drives    *)
(* the bus while it sends an answer and until its last byte is out, and at *)
(* no other time, but for a pin that a store of the master's code has      *)
(* undone since.                                                           *)
(***************************************************************************)
THEOREM BusDriver == Spec => []BusDirection
<1>1. (~ disturbed => IInv) => BusDirection
  BY DEF IInv, ModeInv, PinInv, BusDirection, LastByteOut, AllOff, Listening, GapBefore, Answering,
         GapAfter, Failed, Pausing
<1> QED BY <1>1, Invariance, PTL

(***************************************************************************)
(* On such a bus, when process_uart2_time_event reports a failure, both    *)
(* channels, the receiver and the transmitter are off.                     *)
(***************************************************************************)
THEOREM SilentFailure == Spec => []QuietFailure
<1>1. (~ disturbed => IInv) => QuietFailure
  BY DEF IInv, SeenInv, Pausing, QuietFailure, DisabledOnFailure
<1> QED BY <1>1, Invariance, PTL

(***************************************************************************)
(* On such a bus an answer is only ended by its own channel: the task,     *)
(* which also switches the channel off, never does it while an answer is   *)
(* sent.                                                                   *)
(***************************************************************************)
THEOREM WholeAnswers == Spec => AnswerNotCut
<1> DEFINE Cut == ~ disturbed /\ dma7 /\ ~ dma7'
<1>1. ASSUME ~ disturbed => IInv, [Next]_vars, Cut PROVE Sent
  <2>1. ~ Restarting /\ dma7 /\ status = "none"
    BY <1>1 DEF IInv, ModeInv, AllOff, Listening, GapBefore, Answering, GapAfter, Failed,
                Pausing
  <2>2. ASSUME NEW p \in Procs, StartListen(p) PROVE FALSE
    BY <2>1, <2>2 DEF StartListen, RxPin, RxOff, RxArm, RxOn, Go, Restarting
  <2>3. pc["task"] \notin {"fail_off", "fail"}
    BY <1>1, <2>1 DEF IInv, SeenInv
  <2>4. CASE Handler
    <3>1. ~ tim3
      BY <1>1, <2>1 DEF IInv, ModeInv, AllOff, Listening, GapBefore, Answering, GapAfter,
                        Failed, Pausing
    <3> QED BY <1>1, <2>4, <3>1 DEF Handler, Dma6Overflow, Dma6Error, Usart2Error, Usart2Idle,
                                    Usart2Spurious, Tim3, hardware
  <2>5. CASE TaskStep
    BY <1>1, <2>2, <2>3, <2>5 DEF TaskStep, TaskPoll, TaskLoad, TaskWaits, TaskExpires,
       TaskRestart, TaskFails, FailPin, FailTimerOff, FailOff, FailWait, FailReport, Go, hardware,
       Procs
  <2>6. CASE UNCHANGED vars
    BY <1>1, <2>6 DEF vars
  <2>7. CASE MasterStep
    BY <1>1, <2>7 DEF MasterStep, MasterLoadsPort, MasterStoresPort, hardware
  <2> QED BY <1>1, <2>2, <2>4, <2>5, <2>6, <2>7 DEF Next, Procs
<1>2. (~ disturbed => IInv) /\ [Next]_vars => [Cut => Sent]_vars
  BY <1>1
<1> QED BY <1>2, Invariance, PTL DEF Spec, AnswerNotCut
=============================================================================
