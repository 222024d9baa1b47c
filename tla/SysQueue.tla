------------------------------ MODULE SysQueue ------------------------------
(***************************************************************************)
(* The job queue of the firmware: system/sys_queue.c with the two spin     *)
(* locks of system/system.c.                                               *)
(*                                                                         *)
(* Adders call sys_queue (tasks, interrupt handlers, and the callbacks     *)
(* that run_queue_run calls, which may add to the very queue they run      *)
(* from); one task calls run_queue_run; controllers call sys_queue_init    *)
(* and sys_queue_deinit.  Every atomic or volatile access that another     *)
(* party can see is a step of its own; a spin on a taken lock is a step    *)
(* that is not enabled, or the step in which is_timeout_ms ends it.        *)
(***************************************************************************)
EXTENDS Integers, Sequences

CONSTANTS Producers,    \* tasks and interrupt handlers that call sys_queue
          Runner,       \* the task that calls run_queue_run
          Controllers,  \* tasks that call sys_queue_init and sys_queue_deinit
          Contexts,     \* the ctx pointers handed over
          QueueSize,    \* queue_size
          Prio,         \* preemption priority: the CPU runs the highest one
          Faults,       \* what may go wrong: a subset of FaultKinds
          NoJob         \* the content of a slot nothing was written to

FaultKinds == {"slow_callback", "no_heap"}
Adders == Producers \cup {Runner}
Procs == Adders \cup Controllers

ASSUME SysQueueAssumption ==
  /\ Runner \notin Producers
  /\ Controllers \cap Adders = {}
  /\ QueueSize \in Nat \ {0}
  /\ \A p \in Procs : Prio[p] \in Nat
  /\ Faults \subseteq FaultKinds
  /\ NoJob \notin [ctx : Contexts, function : BOOLEAN, destroyer : BOOLEAN]

VARIABLES
  lock, global_lock,      \* the two spin locks
  flag,                   \* QUEUE_FLAG
  head, tail, count,      \* ring indices and number of jobs
  vector,                 \* the ring
  allocated,              \* vector # NULL
  add,                    \* where each adder is inside sys_queue
  arg,                    \* the job it was called with
  run,                    \* where the runner is inside run_queue_run
  ctl,                    \* where each controller is
  panic                   \* the message app_panic halted with, or "none"

locks == <<lock, global_lock>>
ring == <<head, tail, count, vector, allocated>>
vars == <<lock, global_lock, flag, head, tail, count, vector, allocated,
          add, arg, run, ctl, panic>>

Flags == {"off", "running", "send_deinit_signal", "ready_deinit"}
\* function and destroyer say whether the slot's pointer is still non-NULL.
Job == [ctx : Contexts, function : BOOLEAN, destroyer : BOOLEAN]
NewJobs == {job \in Job : job.function}
Slots == 0 .. QueueSize - 1
AddPC == {"idle", "global", "cas", "check", "write", "advance", "unlock"}
RunPC == {"idle", "cas", "check", "function", "destroyer", "advance",
          "drain", "drain_destroyer", "drain_advance", "unlock"}
PanicMessages == {"none", "queue:INIT1", "queue:INIT2", "queue:INIT3", "queue:INIT4",
                  "queue:INIT5", "queuevec:MEM", "queue:DEINIT1", "queue:DEINIT2",
                  "queue:DEINIT3", "queue:DEINIT4", "queue:DEINIT5", "queue:DEINIT6",
                  "queuefun:NULL", "qdstry:FAIL"}
CtlPC == {"idle", "init_global", "init_cas", "init_lock_global", "init_body",
          "init_unlock", "init_unlock_global", "init_flag", "deinit_lock_global",
          "deinit_lock", "deinit_signal", "deinit_wait", "deinit_relock",
          "deinit_free", "deinit_unlock", "deinit_unlock_global"}

Init == /\ lock = FALSE /\ global_lock = FALSE
        /\ flag = "off"
        /\ head = 0 /\ tail = 0 /\ count = 0
        /\ vector = [s \in Slots |-> NoJob]
        /\ allocated = FALSE
        /\ add = [p \in Adders |-> "idle"]
        /\ arg = [p \in Adders |-> NoJob]
        /\ run = "idle"
        /\ ctl = [c \in Controllers |-> "idle"]
        /\ panic = "none"

(***************************************************************************)
(* Preemption: an operation under way keeps the CPU from every process of  *)
(* a lower priority, since none of these operations gives it up.           *)
(***************************************************************************)
InCallback == run \in {"function", "destroyer", "drain_destroyer"}
Active(p) == \/ p \in Producers /\ add[p] # "idle"
             \/ p = Runner /\ run # "idle"
             \/ p \in Controllers /\ ctl[p] # "idle"
CanRun(p) == /\ panic = "none"
             /\ \A q \in Procs : Prio[q] > Prio[p] => ~ Active(q)

GoAdd(p, from, to) == add[p] = from /\ add' = [add EXCEPT ![p] = to]
GoRun(from, to) == run = from /\ run' = to
GoCtl(c, from, to) == ctl[c] = from /\ ctl' = [ctl EXCEPT ![c] = to]
Panic(message) == panic' = message

RingNext(i) == (i + 1) % QueueSize

-----------------------------------------------------------------------------
(***************************************************************************)
(* sys_queue.  The calls that return E_SYS_QUEUE_QUEUE_OFF at once change  *)
(* nothing.                                                                *)
(***************************************************************************)
AddCall(p) ==
  /\ p = Runner => InCallback
  /\ flag # "off"
  /\ GoAdd(p, "idle", "global")
  /\ \E job \in NewJobs : arg' = [arg EXCEPT ![p] = job]
  /\ UNCHANGED <<locks, flag, ring, run, ctl, panic>>

\* sys_try_lock_if_gbl_is_false gives up at once while an init or a deinit
\* holds the global lock.
AddGlobal(p) ==
  /\ GoAdd(p, "global", IF global_lock THEN "idle" ELSE "cas")
  /\ UNCHANGED <<locks, flag, ring, arg, run, ctl, panic>>

AddLockBlind(p) ==
  /\ GoAdd(p, "cas", "check")
  /\ lock' = TRUE
  /\ UNCHANGED <<global_lock, flag, ring, arg, run, ctl, panic>>

AddLock(p) ==
  /\ GoAdd(p, "cas", "check")
  /\ ~ lock
  /\ lock' = TRUE
  /\ UNCHANGED <<global_lock, flag, ring, arg, run, ctl, panic>>

\* The exchange failed: either 10 ms are over or the global lock is read again.
AddTimeout(p) ==
  /\ lock
  /\ GoAdd(p, "cas", "idle")
  /\ UNCHANGED <<locks, flag, ring, arg, run, ctl, panic>>

AddRetry(p) ==
  /\ lock
  /\ GoAdd(p, "cas", "global")
  /\ UNCHANGED <<locks, flag, ring, arg, run, ctl, panic>>

AddCheckNoFlag(p) ==
  /\ GoAdd(p, "check", IF count < QueueSize THEN "write" ELSE "unlock")
  /\ UNCHANGED <<locks, flag, ring, arg, run, ctl, panic>>

AddCheck(p) ==
  /\ GoAdd(p, "check", IF flag = "running" /\ count < QueueSize
                         THEN "write" ELSE "unlock")
  /\ UNCHANGED <<locks, flag, ring, arg, run, ctl, panic>>

AddWrite(p) ==
  /\ GoAdd(p, "write", "advance")
  /\ vector' = [vector EXCEPT ![head] = arg[p]]
  /\ UNCHANGED <<locks, flag, head, tail, count, allocated, arg, run, ctl, panic>>

AddAdvanceNoWrap(p) ==
  /\ GoAdd(p, "advance", "unlock")
  /\ head' = IF head + 1 > QueueSize THEN 0 ELSE (head + 1) % (QueueSize + 1)
  /\ count' = count + 1
  /\ UNCHANGED <<locks, flag, tail, vector, allocated, arg, run, ctl, panic>>

AddAdvance(p) ==
  /\ GoAdd(p, "advance", "unlock")
  /\ head' = RingNext(head)
  /\ count' = count + 1
  /\ UNCHANGED <<locks, flag, tail, vector, allocated, arg, run, ctl, panic>>

AddUnlock(p) ==
  /\ GoAdd(p, "unlock", "idle")
  /\ lock' = FALSE
  /\ UNCHANGED <<global_lock, flag, ring, arg, run, ctl, panic>>

AddStep(p) == /\ IF p = Runner THEN CanRun(Runner) /\ InCallback ELSE CanRun(p)
              /\ \/ AddCall(p) \/ AddGlobal(p) \/ AddLock(p) \/ AddTimeout(p)
                 \/ AddRetry(p) \/ AddCheck(p) \/ AddWrite(p) \/ AddAdvance(p)
                 \/ AddUnlock(p)

-----------------------------------------------------------------------------
(***************************************************************************)
(* run_queue_run, called every millisecond.  A call that finds the queue   *)
(* off, or drained, returns with nothing changed.  The callbacks run with  *)
(* the lock held.                                                          *)
(***************************************************************************)
RunCall == /\ flag \notin {"off", "ready_deinit"}
           /\ GoRun("idle", "cas")
           /\ UNCHANGED <<locks, flag, ring, add, arg, ctl, panic>>

RunLock == /\ GoRun("cas", "check")
           /\ ~ lock
           /\ lock' = TRUE
           /\ UNCHANGED <<global_lock, flag, ring, add, arg, ctl, panic>>

RunTimeout == /\ GoRun("cas", "idle")
              /\ lock
              /\ UNCHANGED <<locks, flag, ring, add, arg, ctl, panic>>

\* The flag is read again under the lock; item->function must not be NULL.
RunCheck ==
  /\ run = "check"
  /\ \/ /\ flag = "running" /\ count >= 1 /\ vector[tail].function
        /\ run' = "function" /\ UNCHANGED panic
     \/ /\ flag = "running" /\ count >= 1 /\ ~ vector[tail].function
        /\ Panic("queuefun:NULL") /\ UNCHANGED run
     \/ flag = "running" /\ count < 1 /\ run' = "unlock" /\ UNCHANGED panic
     \/ flag = "send_deinit_signal" /\ run' = "drain" /\ UNCHANGED panic
     \/ flag \in {"off", "ready_deinit"} /\ run' = "unlock" /\ UNCHANGED panic
  /\ UNCHANGED <<locks, flag, ring, add, arg, ctl>>

\* The function returns and its pointer is cleared.
RunFunction ==
  /\ add[Runner] = "idle"
  /\ GoRun("function", IF vector[tail].destroyer THEN "destroyer" ELSE "advance")
  /\ vector' = [vector EXCEPT ![tail].function = FALSE]
  /\ UNCHANGED <<locks, flag, head, tail, count, allocated, add, arg, ctl, panic>>

RunDestroyer ==
  /\ add[Runner] = "idle"
  /\ GoRun("destroyer", "advance")
  /\ vector' = [vector EXCEPT ![tail].destroyer = FALSE]
  /\ UNCHANGED <<locks, flag, head, tail, count, allocated, add, arg, ctl, panic>>

RunAdvanceStuck ==
  /\ GoRun("advance", "unlock")
  /\ count' = count - 1
  /\ UNCHANGED <<locks, flag, head, tail, vector, allocated, add, arg, ctl, panic>>

RunAdvance ==
  /\ GoRun("advance", "unlock")
  /\ tail' = RingNext(tail)
  /\ count' = count - 1
  /\ UNCHANGED <<locks, flag, head, vector, allocated, add, arg, ctl, panic>>

\* The closing loop: destroyers only, oldest job first, until none is left.
DrainLoopOnce ==
  /\ run = "drain"
  /\ flag' = "ready_deinit"
  /\ run' = "unlock"
  /\ UNCHANGED <<locks, ring, add, arg, ctl, panic>>

DrainLoop ==
  /\ run = "drain"
  /\ \/ /\ count > 0
        /\ run' = IF vector[tail].destroyer THEN "drain_destroyer" ELSE "drain_advance"
        /\ UNCHANGED <<flag, panic>>
     \/ /\ count > 0 /\ "slow_callback" \in Faults
        /\ Panic("qdstry:FAIL")
        /\ UNCHANGED <<run, flag>>
     \/ /\ count <= 0
        /\ flag' = "ready_deinit"
        /\ run' = "unlock"
        /\ UNCHANGED panic
  /\ UNCHANGED <<locks, ring, add, arg, ctl>>

DrainDestroyer ==
  /\ add[Runner] = "idle"
  /\ GoRun("drain_destroyer", "drain_advance")
  /\ vector' = [vector EXCEPT ![tail].destroyer = FALSE]
  /\ UNCHANGED <<locks, flag, head, tail, count, allocated, add, arg, ctl, panic>>

DrainAdvance ==
  /\ GoRun("drain_advance", "drain")
  /\ tail' = RingNext(tail)
  /\ count' = count - 1
  /\ UNCHANGED <<locks, flag, head, vector, allocated, add, arg, ctl, panic>>

RunUnlockForgotten ==
  /\ GoRun("unlock", "idle")
  /\ lock' = (count >= 1)
  /\ UNCHANGED <<global_lock, flag, ring, add, arg, ctl, panic>>

RunUnlock ==
  /\ GoRun("unlock", "idle")
  /\ lock' = FALSE
  /\ UNCHANGED <<global_lock, flag, ring, add, arg, ctl, panic>>

RunStep == /\ CanRun(Runner)
           /\ \/ RunCall \/ RunLock \/ RunTimeout \/ RunCheck \/ RunFunction
              \/ RunDestroyer \/ RunAdvance \/ DrainLoop \/ DrainDestroyer
              \/ DrainAdvance \/ RunUnlock

-----------------------------------------------------------------------------
(***************************************************************************)
(* The long waits of the controllers (50, 1000 and 3000 ms) end in a panic *)
(* when what they wait for can last: its owner is in a callback that may   *)
(* be slow, is kept from the CPU by the waiter itself, or waits in turn.   *)
(***************************************************************************)
HoldsLockAdding(p) == add[p] \in {"check", "write", "advance", "unlock"}
HoldsLockRunning == run \notin {"idle", "cas"}
HoldsLockControl(c) == ctl[c] \in {"init_lock_global", "init_body", "init_unlock",
                                   "deinit_signal", "deinit_free", "deinit_unlock"}
HoldsGlobal(c) == ctl[c] \in {"init_body", "init_unlock", "init_unlock_global",
                              "deinit_lock", "deinit_signal", "deinit_wait",
                              "deinit_relock", "deinit_free", "deinit_unlock",
                              "deinit_unlock_global"}
SlowRunner(c) == Prio[c] > Prio[Runner] \/ "slow_callback" \in Faults
LockStaysTaken(c) ==
  \/ HoldsLockRunning /\ (Prio[c] > Prio[Runner] \/ (InCallback /\ "slow_callback" \in Faults))
  \/ \E p \in Producers : HoldsLockAdding(p) /\ Prio[c] > Prio[p]
  \/ \E d \in Controllers \ {c} :
        HoldsLockControl(d) /\ (ctl[d] = "init_lock_global" \/ Prio[c] > Prio[d])
GlobalStaysTaken(c) ==
  \E d \in Controllers \ {c} :
     HoldsGlobal(d) /\ \/ ctl[d] \in {"deinit_lock", "deinit_wait", "deinit_relock"}
                       \/ Prio[c] > Prio[d]

\* sys_queue_init, called by whoever finds the queue switched off.
InitCall(c) == /\ flag = "off"
               /\ GoCtl(c, "idle", "init_global")
               /\ UNCHANGED <<locks, flag, ring, add, arg, run, panic>>

InitGlobal(c) ==
  /\ \/ ~ global_lock /\ GoCtl(c, "init_global", "init_cas") /\ UNCHANGED panic
     \/ /\ global_lock /\ ctl[c] = "init_global" /\ Panic("queue:INIT2")
        /\ UNCHANGED ctl
  /\ UNCHANGED <<locks, flag, ring, add, arg, run>>

InitLock(c) ==
  /\ \/ /\ ~ lock /\ GoCtl(c, "init_cas", "init_lock_global")
        /\ lock' = TRUE /\ UNCHANGED panic
     \/ /\ lock /\ GoCtl(c, "init_cas", "init_global") /\ UNCHANGED <<lock, panic>>
     \/ /\ lock /\ ctl[c] = "init_cas" /\ LockStaysTaken(c)
        /\ Panic("queue:INIT1") /\ UNCHANGED <<lock, ctl>>
  /\ UNCHANGED <<global_lock, flag, ring, add, arg, run>>

InitLockGlobal(c) ==
  /\ \/ /\ ~ global_lock /\ GoCtl(c, "init_lock_global", "init_body")
        /\ global_lock' = TRUE /\ UNCHANGED panic
     \/ /\ global_lock /\ ctl[c] = "init_lock_global" /\ GlobalStaysTaken(c)
        /\ Panic("queue:INIT3") /\ UNCHANGED <<global_lock, ctl>>
  /\ UNCHANGED <<lock, flag, ring, add, arg, run>>

FreshVector == [s \in Slots |-> NoJob]

InitBodyKeepsTail(c) ==
  /\ GoCtl(c, "init_body", "init_unlock")
  /\ head' = 0 /\ count' = 0
  /\ vector' = FreshVector /\ allocated' = TRUE
  /\ UNCHANGED <<locks, flag, tail, add, arg, run, panic>>

InitBody(c) ==
  /\ \/ /\ ~ allocated /\ flag = "off"
        /\ GoCtl(c, "init_body", "init_unlock")
        /\ head' = 0 /\ tail' = 0 /\ count' = 0
        /\ vector' = FreshVector /\ allocated' = TRUE
        /\ UNCHANGED panic
     \/ /\ ctl[c] = "init_body" /\ allocated
        /\ Panic("queue:INIT4") /\ UNCHANGED <<ctl, ring>>
     \/ /\ ctl[c] = "init_body" /\ ~ allocated /\ flag # "off"
        /\ Panic("queue:INIT5") /\ UNCHANGED <<ctl, ring>>
     \/ /\ ctl[c] = "init_body" /\ ~ allocated /\ flag = "off"
        /\ "no_heap" \in Faults
        /\ Panic("queuevec:MEM")
        /\ head' = 0 /\ tail' = 0 /\ count' = 0
        /\ UNCHANGED <<ctl, vector, allocated>>
  /\ UNCHANGED <<locks, flag, add, arg, run>>

InitUnlock(c) == /\ GoCtl(c, "init_unlock", "init_unlock_global")
                 /\ lock' = FALSE
                 /\ UNCHANGED <<global_lock, flag, ring, add, arg, run, panic>>

InitUnlockGlobal(c) == /\ GoCtl(c, "init_unlock_global", "init_flag")
                       /\ global_lock' = FALSE
                       /\ UNCHANGED <<lock, flag, ring, add, arg, run, panic>>

\* Both locks are free by now.
InitFlag(c) == /\ GoCtl(c, "init_flag", "idle")
               /\ flag' = "running"
               /\ UNCHANGED <<locks, ring, add, arg, run, panic>>

\* sys_queue_deinit
DeinitCall(c) == /\ GoCtl(c, "idle", "deinit_lock_global")
                 /\ UNCHANGED <<locks, flag, ring, add, arg, run, panic>>

DeinitLockGlobal(c) ==
  /\ \/ /\ ~ global_lock /\ GoCtl(c, "deinit_lock_global", "deinit_lock")
        /\ global_lock' = TRUE /\ UNCHANGED panic
     \/ /\ global_lock /\ ctl[c] = "deinit_lock_global" /\ GlobalStaysTaken(c)
        /\ Panic("queue:DEINIT1") /\ UNCHANGED <<global_lock, ctl>>
  /\ UNCHANGED <<lock, flag, ring, add, arg, run>>

DeinitLock(c) ==
  /\ \/ /\ ~ lock /\ GoCtl(c, "deinit_lock", "deinit_signal")
        /\ lock' = TRUE /\ UNCHANGED panic
     \/ /\ lock /\ ctl[c] = "deinit_lock" /\ LockStaysTaken(c)
        /\ Panic("queue:DEINIT2") /\ UNCHANGED <<lock, ctl>>
  /\ UNCHANGED <<global_lock, flag, ring, add, arg, run>>

DeinitSignal(c) ==
  /\ \/ /\ flag = "running" /\ GoCtl(c, "deinit_signal", "deinit_wait")
        /\ flag' = "send_deinit_signal" /\ lock' = FALSE /\ UNCHANGED panic
     \/ /\ flag = "off" /\ ~ allocated
        /\ GoCtl(c, "deinit_signal", "deinit_unlock")
        /\ UNCHANGED <<flag, lock, panic>>
     \/ /\ flag = "off" /\ allocated /\ ctl[c] = "deinit_signal"
        /\ Panic("queue:DEINIT3") /\ UNCHANGED <<flag, lock, ctl>>
     \/ /\ flag \notin {"running", "off"} /\ ctl[c] = "deinit_signal"
        /\ Panic("queue:DEINIT4") /\ UNCHANGED <<flag, lock, ctl>>
  /\ UNCHANGED <<global_lock, ring, add, arg, run>>

\* The wait for the runner to drain the queue.
DeinitWait(c) ==
  /\ \/ /\ flag = "ready_deinit" /\ GoCtl(c, "deinit_wait", "deinit_relock")
        /\ UNCHANGED panic
     \/ /\ flag # "ready_deinit" /\ ctl[c] = "deinit_wait" /\ SlowRunner(c)
        /\ Panic("queue:DEINIT5") /\ UNCHANGED ctl
  /\ UNCHANGED <<locks, flag, ring, add, arg, run>>

DeinitRelock(c) ==
  /\ \/ /\ ~ lock /\ GoCtl(c, "deinit_relock", "deinit_free")
        /\ lock' = TRUE /\ UNCHANGED panic
     \/ /\ lock /\ ctl[c] = "deinit_relock" /\ LockStaysTaken(c)
        /\ Panic("queue:DEINIT6") /\ UNCHANGED <<lock, ctl>>
  /\ UNCHANGED <<global_lock, flag, ring, add, arg, run>>

DeinitFree(c) == /\ GoCtl(c, "deinit_free", "deinit_unlock")
                 /\ flag' = "off"
                 /\ allocated' = FALSE
                 /\ UNCHANGED <<locks, head, tail, count, vector, add, arg, run, panic>>

DeinitUnlock(c) == /\ GoCtl(c, "deinit_unlock", "deinit_unlock_global")
                   /\ lock' = FALSE
                   /\ UNCHANGED <<global_lock, flag, ring, add, arg, run, panic>>

DeinitUnlockGlobalNot(c) == /\ GoCtl(c, "deinit_unlock_global", "idle")
                            /\ UNCHANGED <<locks, flag, ring, add, arg, run, panic>>

DeinitUnlockGlobal(c) == /\ GoCtl(c, "deinit_unlock_global", "idle")
                         /\ global_lock' = FALSE
                         /\ UNCHANGED <<lock, flag, ring, add, arg, run, panic>>

CtlProgress(c) == \/ InitGlobal(c) \/ InitLock(c) \/ InitLockGlobal(c)
                  \/ InitBody(c) \/ InitUnlock(c) \/ InitUnlockGlobal(c)
                  \/ InitFlag(c) \/ DeinitLockGlobal(c) \/ DeinitLock(c)
                  \/ DeinitSignal(c) \/ DeinitWait(c) \/ DeinitRelock(c)
                  \/ DeinitFree(c) \/ DeinitUnlock(c) \/ DeinitUnlockGlobal(c)
CtlStep(c) == CanRun(c) /\ (InitCall(c) \/ DeinitCall(c) \/ CtlProgress(c))

-----------------------------------------------------------------------------
Next == \/ \E p \in Adders : AddStep(p)
        \/ RunStep
        \/ \E c \in Controllers : CtlStep(c)

Spec == Init /\ [][Next]_vars

(***************************************************************************)
(* Fairness: a call under way keeps getting the CPU, TIM and SysTick keep  *)
(* counting so that a spin on a taken lock ends, and the queue task, which *)
(* retries every millisecond, now and then finds the lock free.            *)
(***************************************************************************)
AddProgress(p) == AddStep(p) /\ add[p] # "idle"
AddGivesUp(p) == CanRun(p) /\ AddTimeout(p)
RunnerGetsLock == CanRun(Runner) /\ RunLock
Fairness == /\ \A p \in Adders : SF_vars(AddProgress(p)) /\ SF_vars(AddGivesUp(p))
            /\ SF_vars(RunStep) /\ SF_vars(RunnerGetsLock)
            /\ \A c \in Controllers : SF_vars(CanRun(c) /\ CtlProgress(c))
FairSpec == Spec /\ Fairness

-----------------------------------------------------------------------------
(***************************************************************************)
(* Properties.                                                             *)
(***************************************************************************)
TypeOK == /\ lock \in BOOLEAN /\ global_lock \in BOOLEAN
          /\ flag \in Flags
          /\ head \in Slots /\ tail \in Slots /\ count \in 0 .. QueueSize
          /\ vector \in [Slots -> Job \cup {NoJob}]
          /\ allocated \in BOOLEAN
          /\ add \in [Adders -> AddPC]
          /\ arg \in [Adders -> Job \cup {NoJob}]
          /\ run \in RunPC
          /\ ctl \in [Controllers -> CtlPC]
          /\ panic \in PanicMessages

(***************************************************************************)
(* The lock protects the ring: no two of the adders, the runner and the    *)
(* controllers are between taking the lock and freeing it at once (an      *)
(* adder that is the runner's own callback included; sys_queue.c:122, 179  *)
(* "Lock guarantees that only this procedure").                            *)
(***************************************************************************)
OneLockHolder ==
  /\ \A p, q \in Adders : HoldsLockAdding(p) /\ HoldsLockAdding(q) => p = q
  /\ \A p \in Adders : HoldsLockAdding(p) => ~ HoldsLockRunning
  /\ \A p \in Adders, c \in Controllers : ~ (HoldsLockAdding(p) /\ HoldsLockControl(c))
  /\ \A c \in Controllers : ~ (HoldsLockRunning /\ HoldsLockControl(c))
  /\ \A c, d \in Controllers : HoldsLockControl(c) /\ HoldsLockControl(d) => c = d

(***************************************************************************)
(* The ring is never read or written once freed: whoever is at a step that *)
(* touches a slot finds the vector allocated (the flag is off or ready for *)
(* everybody else), and the last free leaves no job behind (sys_queue.c:97 *)
(* and 227).                                                               *)
(***************************************************************************)
NoUseAfterFree ==
  /\ (\E p \in Adders : add[p] \in {"write", "advance"}) => allocated
  /\ run \notin {"idle", "cas", "check", "unlock"} => allocated
  /\ \A c \in Controllers : ctl[c] = "deinit_free" => allocated /\ count = 0

(***************************************************************************)
(* The ring keeps its shape whenever the queue is in use: head is count    *)
(* slots after tail, and the jobs in between still have their function and *)
(* context, so that the panic on a NULL function cannot be reached.        *)
(***************************************************************************)
At(t, k) == (t + k) % QueueSize
Position(k) == At(tail, k)
RingShape ==
  allocated /\ run \notin {"destroyer", "advance"} =>
     /\ head = Position(count)
     /\ \A k \in 0 .. count - 1 : vector[Position(k)] \in NewJobs

(***************************************************************************)
(* With one controller of the queue task's priority and callbacks that     *)
(* return in time, none of the panics of sys_queue.c is ever reached.      *)
(***************************************************************************)
NoPanic == panic = "none"

(***************************************************************************)
(* Two tasks that switch the queue on and off at the same time, with slow  *)
(* callbacks and a full heap, are stopped by a panic: the opposite lock    *)
(* orders of init (lock, then global_lock) and deinit lead to INIT3,       *)
(* DEINIT2 and DEINIT6, the window between the last unlock of init and     *)
(* flag = RUNNING to INIT4 and DEINIT3.  But the panics that would mean a  *)
(* corrupt queue are never reached.                                        *)
(***************************************************************************)
NeverInconsistent ==
  panic \notin {"queue:INIT5", "queue:DEINIT4", "queuefun:NULL"}

(***************************************************************************)
(* A callback that adds to the queue it runs from (error_handler inside    *)
(* usb_printf inside _error_handler) never gets past the lock: it always   *)
(* comes back without its job.                                             *)
(***************************************************************************)
ReentrantAddFails == add[Runner] \in {"idle", "global", "cas"}

\* The queue as its clients see it.
ModeOf == CASE flag = "off" -> "off" [] flag = "running" -> "open" [] OTHER -> "closing"
PendingJobs == IF flag = "off" THEN <<>>
               ELSE [k \in 1 .. count |-> vector[Position(k - 1)]]
Service == INSTANCE QueueService WITH Jobs <- NewJobs, Capacity <- QueueSize,
                                      mode <- ModeOf, pending <- PendingJobs
(***************************************************************************)
(* The ring, the locks and the flag together are a bounded FIFO service:   *)
(* every accepted job is run once, in order, and then destroyed, or only   *)
(* destroyed when the queue is closed first; nothing is lost or repeated.  *)
(***************************************************************************)
ImplementsService == Service!ServiceSpec

\* A job that reached the tail of the ring is retired.
OldestJobRetired == \A s \in Slots :
  (count > 0 /\ tail = s /\ flag # "off") ~> (tail # s \/ flag = "off" \/ panic # "none")

(***************************************************************************)
(* A call of sys_queue, sys_queue_init or sys_queue_deinit returns,        *)
(* whoever holds the locks or is preempted with them.                      *)
(***************************************************************************)
CallsReturn == /\ \A p \in Adders : add[p] # "idle" ~> add[p] = "idle"
               /\ \A c \in Controllers : ctl[c] # "idle" ~> ctl[c] = "idle"
=============================================================================
