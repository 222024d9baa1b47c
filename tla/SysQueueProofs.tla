--------------------------- MODULE SysQueueProofs ---------------------------
(***************************************************************************)
(* The invariants of SysQueue for every number of producers, controllers   *)
(* and slots, every priority assignment and every set of faults, and that  *)
(* it implements QueueService.                                             *)
(***************************************************************************)
EXTENDS SysQueue, SequenceTheorems, TLAPS

(***************************************************************************)
(* The inductive invariant, in parts.                                      *)
(***************************************************************************)
\* A lock is taken exactly when somebody is between taking and freeing it.
LockInv ==
  /\ OneLockHolder
  /\ ReentrantAddFails
  /\ add[Runner] # "idle" => InCallback
  /\ lock <=> \/ \E p \in Adders : HoldsLockAdding(p)
              \/ HoldsLockRunning
              \/ \E c \in Controllers : HoldsLockControl(c)

GlobalInv ==
  /\ \A c, d \in Controllers : HoldsGlobal(c) /\ HoldsGlobal(d) => c = d
  /\ global_lock <=> \E c \in Controllers : HoldsGlobal(c)

\* The window of init between filling the ring and raising the flag.
Opening(c) == ctl[c] \in {"init_unlock", "init_unlock_global", "init_flag"}

FlagInv ==
  /\ flag # "off" => allocated
  /\ flag = "ready_deinit" => count = 0
  /\ \A c \in Controllers : Opening(c) => allocated /\ flag = "off"
  /\ \A c, d \in Controllers : Opening(c) /\ Opening(d) => c = d
  /\ \A c \in Controllers : ctl[c] = "deinit_wait" => flag \in {"send_deinit_signal", "ready_deinit"}
  /\ \A c \in Controllers : ctl[c] \in {"deinit_relock", "deinit_free"} => flag = "ready_deinit"
  /\ \A p \in Adders : add[p] \in {"write", "advance"} => flag = "running" /\ count < QueueSize
  /\ run \in {"function", "destroyer", "advance"} => flag = "running" /\ count >= 1
  /\ run \in {"drain", "drain_destroyer", "drain_advance"} => flag = "send_deinit_signal"
  /\ run \in {"drain_destroyer", "drain_advance"} => count >= 1

Ran == run \in {"destroyer", "advance"}
RingInv ==
  /\ \A p \in Adders : add[p] # "idle" => arg[p] \in NewJobs
  /\ \A p \in Adders : add[p] = "advance" => vector[head] \in NewJobs
  /\ allocated =>
       /\ head = Position(count)
       /\ \A k \in 0 .. count - 1 :
            /\ vector[Position(k)] \in Job
            /\ vector[Position(k)].function \/ (k = 0 /\ Ran)

IInv == TypeOK /\ LockInv /\ GlobalInv /\ FlagInv /\ RingInv

-----------------------------------------------------------------------------
(***************************************************************************)
(* Arithmetic of the ring.                                                 *)
(***************************************************************************)
LEMMA ModCases ==
  ASSUME NEW x \in 0 .. 2 * QueueSize - 1
  PROVE  x % QueueSize = IF x < QueueSize THEN x ELSE x - QueueSize
BY SysQueueAssumption

LEMMA RingNextCases ==
  ASSUME NEW i \in Slots
  PROVE  /\ RingNext(i) \in Slots
         /\ RingNext(i) = IF i + 1 < QueueSize THEN i + 1 ELSE 0
<1>1. i + 1 \in 0 .. 2 * QueueSize - 1
  BY SysQueueAssumption DEF Slots
<1>2. (i + 1) % QueueSize = IF i + 1 < QueueSize THEN i + 1 ELSE i + 1 - QueueSize
  BY <1>1, ModCases, SysQueueAssumption DEF Slots
<1> QED BY <1>1, <1>2, SysQueueAssumption DEF RingNext, Slots

\* The slot k places after slot t.
LEMMA AtCases ==
  ASSUME NEW t \in Slots, NEW k \in 0 .. QueueSize
  PROVE  /\ At(t, k) \in Slots
         /\ At(t, k) = IF t + k < QueueSize THEN t + k ELSE t + k - QueueSize
<1>1. t + k \in 0 .. 2 * QueueSize - 1
  BY SysQueueAssumption DEF Slots
<1>2. (t + k) % QueueSize = IF t + k < QueueSize THEN t + k ELSE t + k - QueueSize
  BY <1>1, ModCases, SysQueueAssumption DEF Slots
<1> QED BY <1>1, <1>2, SysQueueAssumption DEF At, Slots

LEMMA AtZero == ASSUME NEW t \in Slots PROVE At(t, 0) = t
BY AtCases, SysQueueAssumption DEF Slots

LEMMA AtNext ==
  ASSUME NEW t \in Slots, NEW k \in 0 .. QueueSize - 1
  PROVE  /\ At(t, k + 1) = RingNext(At(t, k))
         /\ At(RingNext(t), k) = At(t, k + 1)
<1>1. /\ k \in 0 .. QueueSize
      /\ k + 1 \in 0 .. QueueSize
      /\ RingNext(t) \in Slots
  BY RingNextCases, SysQueueAssumption
<1>2. /\ At(t, k + 1) = IF t + (k + 1) < QueueSize THEN t + (k + 1) ELSE t + (k + 1) - QueueSize
      /\ At(t, k) \in Slots
      /\ At(t, k) = IF t + k < QueueSize THEN t + k ELSE t + k - QueueSize
  BY <1>1, AtCases
<1>3. At(RingNext(t), k) = IF RingNext(t) + k < QueueSize
                             THEN RingNext(t) + k ELSE RingNext(t) + k - QueueSize
  BY <1>1, AtCases, SysQueueAssumption DEF Slots
<1> QED BY <1>1, <1>2, <1>3, RingNextCases, SysQueueAssumption DEF Slots

LEMMA AtInjective ==
  ASSUME NEW t \in Slots, NEW j \in 0 .. QueueSize - 1, NEW k \in 0 .. QueueSize - 1,
         At(t, j) = At(t, k)
  PROVE  j = k
<1>1. j \in 0 .. QueueSize /\ k \in 0 .. QueueSize
  BY SysQueueAssumption
<1>2. At(t, j) = IF t + j < QueueSize THEN t + j ELSE t + j - QueueSize
  BY <1>1, AtCases
<1>3. At(t, k) = IF t + k < QueueSize THEN t + k ELSE t + k - QueueSize
  BY <1>1, AtCases
<1>4. (IF t + j < QueueSize THEN t + j ELSE t + j - QueueSize)
        = (IF t + k < QueueSize THEN t + k ELSE t + k - QueueSize)
  BY <1>2, <1>3
<1> QED BY <1>4, SysQueueAssumption DEF Slots

\* The job at the tail is a real one.
LEMMA OldestInRing ==
  ASSUME TypeOK, RingInv, allocated, count \in 1 .. QueueSize
  PROVE  vector[tail] \in Job
<1>1. Position(0) = tail
  BY AtZero DEF Position, TypeOK
<1> QED BY <1>1, SysQueueAssumption DEF RingInv

LEMMA AddKeepsInv ==
  ASSUME IInv, NEW p \in Adders, AddStep(p)
  PROVE  IInv'
<1>1. CASE AddCall(p)
  <2>1. TypeOK'
    <3>1. PICK job \in NewJobs : arg' = [arg EXCEPT ![p] = job]
      BY <1>1 DEF AddCall
    <3>2. add' \in [Adders -> AddPC] /\ arg' \in [Adders -> Job \cup {NoJob}]
      BY <1>1, <3>1 DEF IInv, TypeOK, AddCall, GoAdd, AddPC, NewJobs
    <3> QED BY <1>1, <3>2 DEF IInv, AddCall, locks, ring, TypeOK
  <2>2. LockInv'
    BY <1>1, SysQueueAssumption DEF IInv, AddCall, GoAdd, Panic, locks, ring, TypeOK,
        LockInv, OneLockHolder, ReentrantAddFails, InCallback, HoldsLockAdding,
        HoldsLockRunning, HoldsLockControl
  <2>3. GlobalInv'
    BY <1>1, SysQueueAssumption DEF IInv, AddCall, GoAdd, Panic, locks, ring, TypeOK,
        GlobalInv, HoldsGlobal
  <2>4. FlagInv'
    BY <1>1, SysQueueAssumption DEF IInv, AddCall, GoAdd, Panic, locks, ring, TypeOK,
        FlagInv, Opening
  <2>5. RingInv'
    BY <1>1, SysQueueAssumption DEF IInv, AddCall, GoAdd, Panic, locks, ring, TypeOK,
        RingInv, Ran, Position
  <2> QED BY <2>1, <2>2, <2>3, <2>4, <2>5 DEF IInv
<1>2. CASE AddGlobal(p)
  <2>1. TypeOK'
    BY <1>2, SysQueueAssumption DEF IInv, AddGlobal, GoAdd, Panic, locks, ring, TypeOK,
        AddPC, RunPC, CtlPC, Flags, PanicMessages
  <2>2. LockInv'
    BY <1>2, SysQueueAssumption DEF IInv, AddGlobal, GoAdd, Panic, locks, ring, TypeOK,
        LockInv, OneLockHolder, ReentrantAddFails, InCallback, HoldsLockAdding,
        HoldsLockRunning, HoldsLockControl
  <2>3. GlobalInv'
    BY <1>2, SysQueueAssumption DEF IInv, AddGlobal, GoAdd, Panic, locks, ring, TypeOK,
        GlobalInv, HoldsGlobal
  <2>4. FlagInv'
    BY <1>2, SysQueueAssumption DEF IInv, AddGlobal, GoAdd, Panic, locks, ring, TypeOK,
        FlagInv, Opening
  <2>5. RingInv'
    BY <1>2, SysQueueAssumption DEF IInv, AddGlobal, GoAdd, Panic, locks, ring, TypeOK,
        RingInv, Ran, Position
  <2> QED BY <2>1, <2>2, <2>3, <2>4, <2>5 DEF IInv
<1>3. CASE AddLock(p)
  <2>1. TypeOK'
    BY <1>3, SysQueueAssumption DEF IInv, AddLock, GoAdd, Panic, locks, ring, TypeOK,
        AddPC, RunPC, CtlPC, Flags, PanicMessages
  <2>2. LockInv'
    BY <1>3, SysQueueAssumption DEF IInv, AddLock, GoAdd, Panic, locks, ring, TypeOK,
        LockInv, OneLockHolder, ReentrantAddFails, InCallback, HoldsLockAdding,
        HoldsLockRunning, HoldsLockControl
  <2>3. GlobalInv'
    BY <1>3, SysQueueAssumption DEF IInv, AddLock, GoAdd, Panic, locks, ring, TypeOK,
        GlobalInv, HoldsGlobal
  <2>4. FlagInv'
    BY <1>3, SysQueueAssumption DEF IInv, AddLock, GoAdd, Panic, locks, ring, TypeOK,
        FlagInv, Opening
  <2>5. RingInv'
    BY <1>3, SysQueueAssumption DEF IInv, AddLock, GoAdd, Panic, locks, ring, TypeOK,
        RingInv, Ran, Position
  <2> QED BY <2>1, <2>2, <2>3, <2>4, <2>5 DEF IInv
<1>4. CASE AddTimeout(p)
  <2>1. TypeOK'
    BY <1>4, SysQueueAssumption DEF IInv, AddTimeout, GoAdd, Panic, locks, ring, TypeOK,
        AddPC, RunPC, CtlPC, Flags, PanicMessages
  <2>2. LockInv'
    BY <1>4, SysQueueAssumption DEF IInv, AddTimeout, GoAdd, Panic, locks, ring, TypeOK,
        LockInv, OneLockHolder, ReentrantAddFails, InCallback, HoldsLockAdding,
        HoldsLockRunning, HoldsLockControl
  <2>3. GlobalInv'
    BY <1>4, SysQueueAssumption DEF IInv, AddTimeout, GoAdd, Panic, locks, ring, TypeOK,
        GlobalInv, HoldsGlobal
  <2>4. FlagInv'
    BY <1>4, SysQueueAssumption DEF IInv, AddTimeout, GoAdd, Panic, locks, ring, TypeOK,
        FlagInv, Opening
  <2>5. RingInv'
    BY <1>4, SysQueueAssumption DEF IInv, AddTimeout, GoAdd, Panic, locks, ring, TypeOK,
        RingInv, Ran, Position
  <2> QED BY <2>1, <2>2, <2>3, <2>4, <2>5 DEF IInv
<1>5. CASE AddRetry(p)
  <2>1. TypeOK'
    BY <1>5, SysQueueAssumption DEF IInv, AddRetry, GoAdd, Panic, locks, ring, TypeOK,
        AddPC, RunPC, CtlPC, Flags, PanicMessages
  <2>2. LockInv'
    BY <1>5, SysQueueAssumption DEF IInv, AddRetry, GoAdd, Panic, locks, ring, TypeOK,
        LockInv, OneLockHolder, ReentrantAddFails, InCallback, HoldsLockAdding,
        HoldsLockRunning, HoldsLockControl
  <2>3. GlobalInv'
    BY <1>5, SysQueueAssumption DEF IInv, AddRetry, GoAdd, Panic, locks, ring, TypeOK,
        GlobalInv, HoldsGlobal
  <2>4. FlagInv'
    BY <1>5, SysQueueAssumption DEF IInv, AddRetry, GoAdd, Panic, locks, ring, TypeOK,
        FlagInv, Opening
  <2>5. RingInv'
    BY <1>5, SysQueueAssumption DEF IInv, AddRetry, GoAdd, Panic, locks, ring, TypeOK,
        RingInv, Ran, Position
  <2> QED BY <2>1, <2>2, <2>3, <2>4, <2>5 DEF IInv
<1>6. CASE AddCheck(p)
  <2>1. TypeOK'
    BY <1>6, SysQueueAssumption DEF IInv, AddCheck, GoAdd, Panic, locks, ring, TypeOK,
        AddPC, RunPC, CtlPC, Flags, PanicMessages
  <2>2. LockInv'
    BY <1>6, SysQueueAssumption DEF IInv, AddCheck, GoAdd, Panic, locks, ring, TypeOK,
        LockInv, OneLockHolder, ReentrantAddFails, InCallback, HoldsLockAdding,
        HoldsLockRunning, HoldsLockControl
  <2>3. GlobalInv'
    BY <1>6, SysQueueAssumption DEF IInv, AddCheck, GoAdd, Panic, locks, ring, TypeOK,
        GlobalInv, HoldsGlobal
  <2>4. FlagInv'
    BY <1>6, SysQueueAssumption DEF IInv, AddCheck, GoAdd, Panic, locks, ring, TypeOK,
        FlagInv, Opening
  <2>5. RingInv'
    BY <1>6, SysQueueAssumption DEF IInv, AddCheck, GoAdd, Panic, locks, ring, TypeOK,
        RingInv, Ran, Position
  <2> QED BY <2>1, <2>2, <2>3, <2>4, <2>5 DEF IInv
<1>7. CASE AddWrite(p)
  <2>1. TypeOK'
    BY <1>7, SysQueueAssumption DEF IInv, AddWrite, GoAdd, Panic, locks, ring, TypeOK,
        AddPC, RunPC, CtlPC, Flags, PanicMessages
  <2>2. LockInv'
    BY <1>7, SysQueueAssumption DEF IInv, AddWrite, GoAdd, Panic, locks, ring, TypeOK,
        LockInv, OneLockHolder, ReentrantAddFails, InCallback, HoldsLockAdding,
        HoldsLockRunning, HoldsLockControl
  <2>3. GlobalInv'
    BY <1>7, SysQueueAssumption DEF IInv, AddWrite, GoAdd, Panic, locks, ring, TypeOK,
        GlobalInv, HoldsGlobal
  <2>4. FlagInv'
    BY <1>7, SysQueueAssumption DEF IInv, AddWrite, GoAdd, Panic, locks, ring, TypeOK,
        FlagInv, Opening
  <2>5. RingInv'
    <3>1. /\ \A q \in Adders : add[q] = "advance" => q = p
          /\ arg[p] \in NewJobs /\ head \in Slots
      BY <1>7 DEF IInv, TypeOK, RingInv, AddWrite, GoAdd, LockInv, OneLockHolder,
          HoldsLockAdding, HoldsLockRunning, HoldsLockControl
    <3>2. vector' = [vector EXCEPT ![head] = arg[p]] /\ vector'[head] = arg[p]
      BY <1>7, <3>1 DEF IInv, TypeOK, AddWrite
    <3>3. tail \in Slots /\ count \in 0 .. QueueSize - 1
      BY <1>7, SysQueueAssumption DEF IInv, TypeOK, FlagInv, AddWrite, GoAdd
    <3>4. ASSUME allocated, NEW k \in 0 .. count - 1
          PROVE  Position(k) # head /\ Position(k) \in Slots
      BY <3>3, <3>4, AtInjective, AtCases, SysQueueAssumption DEF IInv, RingInv, Position
    <3>5. ASSUME allocated, NEW k \in 0 .. count - 1
          PROVE  vector'[Position(k)] = vector[Position(k)]
      BY <3>2, <3>4, <3>5 DEF IInv, TypeOK
    <3> QED BY <1>7, <3>1, <3>2, <3>5 DEF IInv, TypeOK, RingInv, AddWrite, GoAdd, Position, Ran
  <2> QED BY <2>1, <2>2, <2>3, <2>4, <2>5 DEF IInv
<1>8. CASE AddAdvance(p)
  <2>1. TypeOK'
    BY <1>8, RingNextCases, SysQueueAssumption DEF IInv, AddAdvance, GoAdd, locks,
        TypeOK, AddPC, FlagInv
  <2>2. LockInv'
    BY <1>8, SysQueueAssumption DEF IInv, AddAdvance, GoAdd, Panic, locks, ring, TypeOK,
        LockInv, OneLockHolder, ReentrantAddFails, InCallback, HoldsLockAdding,
        HoldsLockRunning, HoldsLockControl
  <2>3. GlobalInv'
    BY <1>8, SysQueueAssumption DEF IInv, AddAdvance, GoAdd, Panic, locks, ring, TypeOK,
        GlobalInv, HoldsGlobal
  <2>4. FlagInv'
    BY <1>8, SysQueueAssumption
    DEF IInv, AddAdvance, GoAdd, locks, TypeOK, FlagInv, Opening, LockInv, OneLockHolder, HoldsLockAdding, HoldsLockRunning, HoldsLockControl
  <2>5. RingInv'
    <3>1. /\ \A q \in Adders : add'[q] # "advance"
          /\ \A q \in Adders : add'[q] # "idle" => add[q] # "idle"
          /\ vector[head] \in NewJobs /\ ~ Ran /\ allocated
      BY <1>8 DEF IInv, TypeOK, RingInv, FlagInv, Ran, AddAdvance, GoAdd, LockInv,
          OneLockHolder, HoldsLockAdding, HoldsLockRunning, HoldsLockControl
    <3>2. tail \in Slots /\ count \in 0 .. QueueSize - 1 /\ head = Position(count)
      BY <1>8, <3>1, SysQueueAssumption DEF IInv, TypeOK, FlagInv, RingInv, AddAdvance,
          GoAdd
    <3>3. head' = Position(count + 1)
      BY <1>8, <3>2, AtNext DEF AddAdvance, Position
    <3>4. \A k \in 0 .. count : vector[Position(k)] \in NewJobs
      BY <3>1, <3>2 DEF IInv, RingInv, NewJobs
    <3> QED BY <1>8, <3>1, <3>2, <3>3, <3>4
            DEF IInv, RingInv, AddAdvance, Position, Ran, NewJobs
  <2> QED BY <2>1, <2>2, <2>3, <2>4, <2>5 DEF IInv
<1>9. CASE AddUnlock(p)
  <2>1. TypeOK'
    BY <1>9, SysQueueAssumption DEF IInv, AddUnlock, GoAdd, Panic, locks, ring, TypeOK,
        AddPC, RunPC, CtlPC, Flags, PanicMessages
  <2>2. LockInv'
    BY <1>9, SysQueueAssumption DEF IInv, AddUnlock, GoAdd, Panic, locks, ring, TypeOK,
        LockInv, OneLockHolder, ReentrantAddFails, InCallback, HoldsLockAdding,
        HoldsLockRunning, HoldsLockControl
  <2>3. GlobalInv'
    BY <1>9, SysQueueAssumption DEF IInv, AddUnlock, GoAdd, Panic, locks, ring, TypeOK,
        GlobalInv, HoldsGlobal
  <2>4. FlagInv'
    BY <1>9, SysQueueAssumption DEF IInv, AddUnlock, GoAdd, Panic, locks, ring, TypeOK,
        FlagInv, Opening
  <2>5. RingInv'
    BY <1>9, SysQueueAssumption DEF IInv, AddUnlock, GoAdd, Panic, locks, ring, TypeOK,
        RingInv, Ran, Position
  <2> QED BY <2>1, <2>2, <2>3, <2>4, <2>5 DEF IInv
<1> QED BY <1>1, <1>2, <1>3, <1>4, <1>5, <1>6, <1>7, <1>8, <1>9 DEF AddStep

LEMMA RunKeepsInv ==
  ASSUME IInv, RunStep
  PROVE  IInv'
<1>1. CASE RunCall
  <2>1. TypeOK'
    BY <1>1, SysQueueAssumption DEF IInv, RunCall, GoRun, Panic, locks, ring, TypeOK,
        AddPC, RunPC, CtlPC, Flags, PanicMessages
  <2>2. LockInv'
    BY <1>1, SysQueueAssumption DEF IInv, RunCall, GoRun, Panic, locks, ring, TypeOK,
        LockInv, OneLockHolder, ReentrantAddFails, InCallback, HoldsLockAdding,
        HoldsLockRunning, HoldsLockControl
  <2>3. GlobalInv'
    BY <1>1, SysQueueAssumption DEF IInv, RunCall, GoRun, Panic, locks, ring, TypeOK,
        GlobalInv, HoldsGlobal
  <2>4. FlagInv'
    BY <1>1, SysQueueAssumption DEF IInv, RunCall, GoRun, Panic, locks, ring, TypeOK,
        FlagInv, Opening
  <2>5. RingInv'
    BY <1>1, SysQueueAssumption DEF IInv, RunCall, GoRun, Panic, locks, ring, TypeOK,
        RingInv, Ran, Position
  <2> QED BY <2>1, <2>2, <2>3, <2>4, <2>5 DEF IInv
<1>2. CASE RunLock
  <2>1. TypeOK'
    BY <1>2, SysQueueAssumption DEF IInv, RunLock, GoRun, Panic, locks, ring, TypeOK,
        AddPC, RunPC, CtlPC, Flags, PanicMessages
  <2>2. LockInv'
    BY <1>2, SysQueueAssumption DEF IInv, RunLock, GoRun, Panic, locks, ring, TypeOK,
        LockInv, OneLockHolder, ReentrantAddFails, InCallback, HoldsLockAdding,
        HoldsLockRunning, HoldsLockControl
  <2>3. GlobalInv'
    BY <1>2, SysQueueAssumption DEF IInv, RunLock, GoRun, Panic, locks, ring, TypeOK,
        GlobalInv, HoldsGlobal
  <2>4. FlagInv'
    BY <1>2, SysQueueAssumption DEF IInv, RunLock, GoRun, Panic, locks, ring, TypeOK,
        FlagInv, Opening
  <2>5. RingInv'
    BY <1>2, SysQueueAssumption DEF IInv, RunLock, GoRun, Panic, locks, ring, TypeOK,
        RingInv, Ran, Position
  <2> QED BY <2>1, <2>2, <2>3, <2>4, <2>5 DEF IInv
<1>3. CASE RunTimeout
  <2>1. TypeOK'
    BY <1>3, SysQueueAssumption DEF IInv, RunTimeout, GoRun, Panic, locks, ring, TypeOK,
        AddPC, RunPC, CtlPC, Flags, PanicMessages
  <2>2. LockInv'
    BY <1>3, SysQueueAssumption DEF IInv, RunTimeout, GoRun, Panic, locks, ring, TypeOK,
        LockInv, OneLockHolder, ReentrantAddFails, InCallback, HoldsLockAdding,
        HoldsLockRunning, HoldsLockControl
  <2>3. GlobalInv'
    BY <1>3, SysQueueAssumption DEF IInv, RunTimeout, GoRun, Panic, locks, ring, TypeOK,
        GlobalInv, HoldsGlobal
  <2>4. FlagInv'
    BY <1>3, SysQueueAssumption DEF IInv, RunTimeout, GoRun, Panic, locks, ring, TypeOK,
        FlagInv, Opening
  <2>5. RingInv'
    BY <1>3, SysQueueAssumption DEF IInv, RunTimeout, GoRun, Panic, locks, ring, TypeOK,
        RingInv, Ran, Position
  <2> QED BY <2>1, <2>2, <2>3, <2>4, <2>5 DEF IInv
<1>4. CASE RunCheck
  <2>1. TypeOK'
    BY <1>4, SysQueueAssumption DEF IInv, RunCheck, GoRun, Panic, locks, ring, TypeOK,
        AddPC, RunPC, CtlPC, Flags, PanicMessages
  <2>2. LockInv'
    BY <1>4, SysQueueAssumption DEF IInv, RunCheck, GoRun, Panic, locks, ring, TypeOK,
        LockInv, OneLockHolder, ReentrantAddFails, InCallback, HoldsLockAdding,
        HoldsLockRunning, HoldsLockControl
  <2>3. GlobalInv'
    BY <1>4, SysQueueAssumption DEF IInv, RunCheck, GoRun, Panic, locks, ring, TypeOK,
        GlobalInv, HoldsGlobal
  <2>4. FlagInv'
    BY <1>4, SysQueueAssumption DEF IInv, RunCheck, GoRun, Panic, locks, ring, TypeOK,
        FlagInv, Opening
  <2>5. RingInv'
    BY <1>4, SysQueueAssumption DEF IInv, RunCheck, GoRun, Panic, locks, ring, TypeOK,
        RingInv, Ran, Position
  <2> QED BY <2>1, <2>2, <2>3, <2>4, <2>5 DEF IInv
<1>5. CASE RunFunction
  <2>1. TypeOK'
    <3>1. count \in 1 .. QueueSize /\ allocated
      BY <1>5 DEF IInv, TypeOK, FlagInv, RunFunction, GoRun
    <3>2. vector[tail] \in Job
      BY <3>1, OldestInRing DEF IInv
    <3> QED BY <1>5, <3>2 DEF IInv, RunFunction, GoRun, locks, TypeOK, RunPC, Job
  <2>2. LockInv'
    BY <1>5, SysQueueAssumption DEF IInv, RunFunction, GoRun, Panic, locks, ring,
        TypeOK, LockInv, OneLockHolder, ReentrantAddFails, InCallback, HoldsLockAdding,
        HoldsLockRunning, HoldsLockControl
  <2>3. GlobalInv'
    BY <1>5, SysQueueAssumption DEF IInv, RunFunction, GoRun, Panic, locks, ring,
        TypeOK, GlobalInv, HoldsGlobal
  <2>4. FlagInv'
    BY <1>5, SysQueueAssumption DEF IInv, RunFunction, GoRun, Panic, locks, ring,
        TypeOK, FlagInv, Opening
  <2>5. RingInv'
    <3>1. \A q \in Adders : add[q] # "advance"
      BY <1>5 DEF IInv, RunFunction, GoRun, LockInv, OneLockHolder, HoldsLockAdding,
          HoldsLockRunning, HoldsLockControl
    <3>2. /\ tail \in Slots /\ count \in 1 .. QueueSize /\ allocated
          /\ vector[tail] \in Job /\ vector \in [Slots -> Job \cup {NoJob}]
      BY <1>5, OldestInRing DEF IInv, TypeOK, FlagInv, RunFunction, GoRun
    <3>3. ASSUME NEW k \in 1 .. count - 1
          PROVE  Position(k) # tail /\ Position(k) \in Slots
      BY <3>2, AtZero, AtInjective, AtCases, SysQueueAssumption DEF Position
    <3>4. Position(0) = tail
      BY <3>2, AtZero DEF Position
    <3>5. \A k \in 0 .. count - 1 : Position(k)' = Position(k)
      BY <1>5 DEF RunFunction, Position
    <3>6. vector'[tail] \in Job /\ (vector'[tail].function \/ Ran')
      BY <1>5, <3>2, <3>4 DEF IInv, RingInv, RunFunction, GoRun, Job, Ran
    <3>7. \A s \in Slots : s # tail => vector'[s] = vector[s]
      BY <1>5, <3>2 DEF RunFunction
    <3>8. ASSUME NEW k \in 0 .. count - 1
          PROVE  /\ vector'[Position(k)] \in Job
                 /\ vector'[Position(k)].function \/ (k = 0 /\ Ran')
      <4>1. CASE k = 0
        BY <4>1, <3>4, <3>6
      <4>2. CASE k # 0
        BY <4>2, <3>2, <3>3, <3>7 DEF IInv, RingInv
      <4> QED BY <4>1, <4>2
    <3> QED BY <1>5, <3>1, <3>2, <3>5, <3>8 DEF IInv, RingInv, RunFunction, Position
  <2> QED BY <2>1, <2>2, <2>3, <2>4, <2>5 DEF IInv
<1>6. CASE RunDestroyer
  <2>1. TypeOK'
    <3>1. count \in 1 .. QueueSize /\ allocated
      BY <1>6 DEF IInv, TypeOK, FlagInv, RunDestroyer, GoRun
    <3>2. vector[tail] \in Job
      BY <3>1, OldestInRing DEF IInv
    <3> QED BY <1>6, <3>2 DEF IInv, RunDestroyer, GoRun, locks, TypeOK, RunPC, Job
  <2>2. LockInv'
    BY <1>6, SysQueueAssumption DEF IInv, RunDestroyer, GoRun, Panic, locks, ring,
        TypeOK, LockInv, OneLockHolder, ReentrantAddFails, InCallback, HoldsLockAdding,
        HoldsLockRunning, HoldsLockControl
  <2>3. GlobalInv'
    BY <1>6, SysQueueAssumption DEF IInv, RunDestroyer, GoRun, Panic, locks, ring,
        TypeOK, GlobalInv, HoldsGlobal
  <2>4. FlagInv'
    BY <1>6, SysQueueAssumption DEF IInv, RunDestroyer, GoRun, Panic, locks, ring,
        TypeOK, FlagInv, Opening
  <2>5. RingInv'
    <3>1. \A q \in Adders : add[q] # "advance"
      BY <1>6 DEF IInv, RunDestroyer, GoRun, LockInv, OneLockHolder, HoldsLockAdding,
          HoldsLockRunning, HoldsLockControl
    <3>2. /\ tail \in Slots /\ count \in 1 .. QueueSize /\ allocated
          /\ vector[tail] \in Job /\ vector \in [Slots -> Job \cup {NoJob}]
      BY <1>6, OldestInRing DEF IInv, TypeOK, FlagInv, RunDestroyer, GoRun
    <3>3. ASSUME NEW k \in 1 .. count - 1
          PROVE  Position(k) # tail /\ Position(k) \in Slots
      BY <3>2, AtZero, AtInjective, AtCases, SysQueueAssumption DEF Position
    <3>4. Position(0) = tail
      BY <3>2, AtZero DEF Position
    <3>5. \A k \in 0 .. count - 1 : Position(k)' = Position(k)
      BY <1>6 DEF RunDestroyer, Position
    <3>6. vector'[tail] \in Job /\ (vector'[tail].function \/ Ran')
      BY <1>6, <3>2, <3>4 DEF IInv, RingInv, RunDestroyer, GoRun, Job, Ran
    <3>7. \A s \in Slots : s # tail => vector'[s] = vector[s]
      BY <1>6, <3>2 DEF RunDestroyer
    <3>8. ASSUME NEW k \in 0 .. count - 1
          PROVE  /\ vector'[Position(k)] \in Job
                 /\ vector'[Position(k)].function \/ (k = 0 /\ Ran')
      <4>1. CASE k = 0
        BY <4>1, <3>4, <3>6
      <4>2. CASE k # 0
        BY <4>2, <3>2, <3>3, <3>7 DEF IInv, RingInv
      <4> QED BY <4>1, <4>2
    <3> QED BY <1>6, <3>1, <3>2, <3>5, <3>8 DEF IInv, RingInv, RunDestroyer, Position
  <2> QED BY <2>1, <2>2, <2>3, <2>4, <2>5 DEF IInv
<1>7. CASE RunAdvance
  <2>1. TypeOK'
    BY <1>7, RingNextCases, SysQueueAssumption DEF IInv, RunAdvance, GoRun, locks,
        TypeOK, RunPC, FlagInv
  <2>2. LockInv'
    BY <1>7, SysQueueAssumption DEF IInv, RunAdvance, GoRun, Panic, locks, ring, TypeOK,
        LockInv, OneLockHolder, ReentrantAddFails, InCallback, HoldsLockAdding,
        HoldsLockRunning, HoldsLockControl
  <2>3. GlobalInv'
    BY <1>7, SysQueueAssumption DEF IInv, RunAdvance, GoRun, Panic, locks, ring, TypeOK,
        GlobalInv, HoldsGlobal
  <2>4. FlagInv'
    BY <1>7, SysQueueAssumption DEF IInv, RunAdvance, GoRun, Panic, locks, ring, TypeOK,
        FlagInv, Opening
  <2>5. RingInv'
    <3>1. \A q \in Adders : add[q] # "advance"
      BY <1>7 DEF IInv, RunAdvance, GoRun, LockInv, OneLockHolder, HoldsLockAdding,
          HoldsLockRunning, HoldsLockControl
    <3>2. /\ tail \in Slots /\ count \in 1 .. QueueSize /\ allocated
          /\ tail' = RingNext(tail) /\ count' = count - 1
      BY <1>7 DEF IInv, TypeOK, FlagInv, RunAdvance, GoRun
    <3>3. head = Position(count)'
      BY <3>2, AtNext, SysQueueAssumption DEF IInv, RingInv, Position
    <3>4. ASSUME NEW k \in 0 .. count' - 1
          PROVE  Position(k)' = Position(k + 1) /\ k + 1 \in 1 .. count - 1
      BY <3>2, AtNext, SysQueueAssumption DEF Position
    <3> QED BY <1>7, <3>1, <3>2, <3>3, <3>4 DEF IInv, RingInv, RunAdvance, GoRun
  <2> QED BY <2>1, <2>2, <2>3, <2>4, <2>5 DEF IInv
<1>8. CASE DrainLoop
  <2>1. TypeOK'
    BY <1>8, SysQueueAssumption DEF IInv, DrainLoop, GoRun, Panic, locks, ring, TypeOK,
        AddPC, RunPC, CtlPC, Flags, PanicMessages
  <2>2. LockInv'
    BY <1>8, SysQueueAssumption DEF IInv, DrainLoop, GoRun, Panic, locks, ring, TypeOK,
        LockInv, OneLockHolder, ReentrantAddFails, InCallback, HoldsLockAdding,
        HoldsLockRunning, HoldsLockControl
  <2>3. GlobalInv'
    BY <1>8, SysQueueAssumption DEF IInv, DrainLoop, GoRun, Panic, locks, ring, TypeOK,
        GlobalInv, HoldsGlobal
  <2>4. FlagInv'
    BY <1>8, SysQueueAssumption DEF IInv, DrainLoop, GoRun, Panic, locks, ring, TypeOK,
        FlagInv, Opening
  <2>5. RingInv'
    BY <1>8, SysQueueAssumption DEF IInv, DrainLoop, GoRun, Panic, locks, ring, TypeOK,
        RingInv, Ran, Position
  <2> QED BY <2>1, <2>2, <2>3, <2>4, <2>5 DEF IInv
<1>9. CASE DrainDestroyer
  <2>1. TypeOK'
    <3>1. count \in 1 .. QueueSize /\ allocated
      BY <1>9 DEF IInv, TypeOK, FlagInv, DrainDestroyer, GoRun
    <3>2. vector[tail] \in Job
      BY <3>1, OldestInRing DEF IInv
    <3> QED BY <1>9, <3>2 DEF IInv, DrainDestroyer, GoRun, locks, TypeOK, RunPC, Job
  <2>2. LockInv'
    BY <1>9, SysQueueAssumption DEF IInv, DrainDestroyer, GoRun, Panic, locks, ring,
        TypeOK, LockInv, OneLockHolder, ReentrantAddFails, InCallback, HoldsLockAdding,
        HoldsLockRunning, HoldsLockControl
  <2>3. GlobalInv'
    BY <1>9, SysQueueAssumption DEF IInv, DrainDestroyer, GoRun, Panic, locks, ring,
        TypeOK, GlobalInv, HoldsGlobal
  <2>4. FlagInv'
    BY <1>9, SysQueueAssumption DEF IInv, DrainDestroyer, GoRun, Panic, locks, ring,
        TypeOK, FlagInv, Opening
  <2>5. RingInv'
    <3>1. \A q \in Adders : add[q] # "advance"
      BY <1>9 DEF IInv, DrainDestroyer, GoRun, LockInv, OneLockHolder, HoldsLockAdding,
          HoldsLockRunning, HoldsLockControl
    <3>2. /\ tail \in Slots /\ count \in 1 .. QueueSize /\ allocated
          /\ vector[tail] \in Job /\ vector \in [Slots -> Job \cup {NoJob}]
      BY <1>9, OldestInRing DEF IInv, TypeOK, FlagInv, DrainDestroyer, GoRun
    <3>3. ASSUME NEW k \in 1 .. count - 1
          PROVE  Position(k) # tail /\ Position(k) \in Slots
      BY <3>2, AtZero, AtInjective, AtCases, SysQueueAssumption DEF Position
    <3>4. Position(0) = tail
      BY <3>2, AtZero DEF Position
    <3>5. \A k \in 0 .. count - 1 : Position(k)' = Position(k)
      BY <1>9 DEF DrainDestroyer, Position
    <3>6. vector'[tail] \in Job /\ (vector'[tail].function \/ Ran')
      <4>1. vector[tail].function
        BY <1>9, <3>2, <3>4 DEF IInv, RingInv, DrainDestroyer, GoRun, Ran
      <4>2. vector'[tail] = [vector[tail] EXCEPT !.destroyer = FALSE]
        BY <1>9, <3>2 DEF DrainDestroyer
      <4> QED BY <4>1, <4>2, <3>2 DEF Job
    <3>7. \A s \in Slots : s # tail => vector'[s] = vector[s]
      BY <1>9, <3>2 DEF DrainDestroyer
    <3>8. ASSUME NEW k \in 0 .. count - 1
          PROVE  /\ vector'[Position(k)] \in Job
                 /\ vector'[Position(k)].function \/ (k = 0 /\ Ran')
      <4>1. CASE k = 0
        BY <4>1, <3>4, <3>6
      <4>2. CASE k # 0
        BY <4>2, <3>2, <3>3, <3>7 DEF IInv, RingInv
      <4> QED BY <4>1, <4>2
    <3> QED BY <1>9, <3>1, <3>2, <3>5, <3>8 DEF IInv, RingInv, DrainDestroyer, Position
  <2> QED BY <2>1, <2>2, <2>3, <2>4, <2>5 DEF IInv
<1>10. CASE DrainAdvance
  <2>1. TypeOK'
    BY <1>10, RingNextCases, SysQueueAssumption DEF IInv, DrainAdvance, GoRun, locks,
        TypeOK, RunPC, FlagInv
  <2>2. LockInv'
    BY <1>10, SysQueueAssumption DEF IInv, DrainAdvance, GoRun, Panic, locks, ring,
        TypeOK, LockInv, OneLockHolder, ReentrantAddFails, InCallback, HoldsLockAdding,
        HoldsLockRunning, HoldsLockControl
  <2>3. GlobalInv'
    BY <1>10, SysQueueAssumption DEF IInv, DrainAdvance, GoRun, Panic, locks, ring,
        TypeOK, GlobalInv, HoldsGlobal
  <2>4. FlagInv'
    BY <1>10, SysQueueAssumption DEF IInv, DrainAdvance, GoRun, Panic, locks, ring,
        TypeOK, FlagInv, Opening
  <2>5. RingInv'
    <3>1. \A q \in Adders : add[q] # "advance"
      BY <1>10 DEF IInv, DrainAdvance, GoRun, LockInv, OneLockHolder, HoldsLockAdding,
          HoldsLockRunning, HoldsLockControl
    <3>2. /\ tail \in Slots /\ count \in 1 .. QueueSize /\ allocated
          /\ tail' = RingNext(tail) /\ count' = count - 1
      BY <1>10 DEF IInv, TypeOK, FlagInv, DrainAdvance, GoRun
    <3>3. head = Position(count)'
      BY <3>2, AtNext, SysQueueAssumption DEF IInv, RingInv, Position
    <3>4. ASSUME NEW k \in 0 .. count' - 1
          PROVE  Position(k)' = Position(k + 1) /\ k + 1 \in 1 .. count - 1
      BY <3>2, AtNext, SysQueueAssumption DEF Position
    <3> QED BY <1>10, <3>1, <3>2, <3>3, <3>4 DEF IInv, RingInv, DrainAdvance, GoRun
  <2> QED BY <2>1, <2>2, <2>3, <2>4, <2>5 DEF IInv
<1>11. CASE RunUnlock
  <2>1. TypeOK'
    BY <1>11, SysQueueAssumption DEF IInv, RunUnlock, GoRun, Panic, locks, ring, TypeOK,
        AddPC, RunPC, CtlPC, Flags, PanicMessages
  <2>2. LockInv'
    BY <1>11, SysQueueAssumption DEF IInv, RunUnlock, GoRun, Panic, locks, ring, TypeOK,
        LockInv, OneLockHolder, ReentrantAddFails, InCallback, HoldsLockAdding,
        HoldsLockRunning, HoldsLockControl
  <2>3. GlobalInv'
    BY <1>11, SysQueueAssumption DEF IInv, RunUnlock, GoRun, Panic, locks, ring, TypeOK,
        GlobalInv, HoldsGlobal
  <2>4. FlagInv'
    BY <1>11, SysQueueAssumption DEF IInv, RunUnlock, GoRun, Panic, locks, ring, TypeOK,
        FlagInv, Opening
  <2>5. RingInv'
    BY <1>11, SysQueueAssumption DEF IInv, RunUnlock, GoRun, Panic, locks, ring, TypeOK,
        RingInv, Ran, Position
  <2> QED BY <2>1, <2>2, <2>3, <2>4, <2>5 DEF IInv
<1> QED BY <1>1, <1>2, <1>3, <1>4, <1>5, <1>6, <1>7, <1>8, <1>9, <1>10, <1>11 DEF RunStep

LEMMA CtlKeepsInv ==
  ASSUME IInv, NEW c \in Controllers, CtlStep(c)
  PROVE  IInv'
<1>1. CASE InitCall(c)
  <2>1. TypeOK'
    BY <1>1, SysQueueAssumption DEF IInv, InitCall, GoCtl, Panic, locks, ring, TypeOK,
        AddPC, RunPC, CtlPC, Flags, PanicMessages
  <2>2. LockInv'
    BY <1>1, SysQueueAssumption DEF IInv, InitCall, GoCtl, Panic, locks, ring, TypeOK,
        LockInv, OneLockHolder, ReentrantAddFails, InCallback, HoldsLockAdding,
        HoldsLockRunning, HoldsLockControl
  <2>3. GlobalInv'
    BY <1>1, SysQueueAssumption DEF IInv, InitCall, GoCtl, Panic, locks, ring, TypeOK,
        GlobalInv, HoldsGlobal
  <2>4. FlagInv'
    BY <1>1, SysQueueAssumption DEF IInv, InitCall, GoCtl, Panic, locks, ring, TypeOK,
        FlagInv, Opening
  <2>5. RingInv'
    BY <1>1, SysQueueAssumption DEF IInv, InitCall, GoCtl, Panic, locks, ring, TypeOK,
        RingInv, Ran, Position
  <2> QED BY <2>1, <2>2, <2>3, <2>4, <2>5 DEF IInv
<1>2. CASE InitGlobal(c)
  <2>1. TypeOK'
    <3>1. ctl' \in [Controllers -> CtlPC] /\ panic' \in PanicMessages
      BY <1>2 DEF IInv, TypeOK, InitGlobal, GoCtl, Panic, CtlPC, PanicMessages
    <3>2. lock' \in BOOLEAN /\ global_lock' \in BOOLEAN /\ flag' \in Flags
      BY <1>2 DEF IInv, TypeOK, InitGlobal, locks, Flags
    <3> QED BY <1>2, <3>1, <3>2 DEF IInv, InitGlobal, ring, TypeOK
  <2>2. LockInv'
    BY <1>2, SysQueueAssumption DEF IInv, InitGlobal, GoCtl, Panic, locks, ring, TypeOK,
        LockInv, OneLockHolder, ReentrantAddFails, InCallback, HoldsLockAdding,
        HoldsLockRunning, HoldsLockControl
  <2>3. GlobalInv'
    BY <1>2, SysQueueAssumption DEF IInv, InitGlobal, GoCtl, Panic, locks, ring, TypeOK,
        GlobalInv, HoldsGlobal
  <2>4. FlagInv'
    BY <1>2, SysQueueAssumption DEF IInv, InitGlobal, GoCtl, Panic, locks, ring, TypeOK,
        FlagInv, Opening
  <2>5. RingInv'
    BY <1>2, SysQueueAssumption DEF IInv, InitGlobal, GoCtl, Panic, locks, ring, TypeOK,
        RingInv, Ran, Position
  <2> QED BY <2>1, <2>2, <2>3, <2>4, <2>5 DEF IInv
<1>3. CASE InitLock(c)
  <2>1. TypeOK'
    <3>1. ctl' \in [Controllers -> CtlPC] /\ panic' \in PanicMessages
      BY <1>3 DEF IInv, TypeOK, InitLock, GoCtl, Panic, CtlPC, PanicMessages
    <3>2. lock' \in BOOLEAN /\ global_lock' \in BOOLEAN
      BY <1>3 DEF IInv, TypeOK, InitLock
    <3> QED BY <1>3, <3>1, <3>2 DEF IInv, InitLock, ring, TypeOK
  <2>2. LockInv'
    BY <1>3, SysQueueAssumption DEF IInv, InitLock, GoCtl, Panic, locks, ring, TypeOK,
        LockInv, OneLockHolder, ReentrantAddFails, InCallback, HoldsLockAdding,
        HoldsLockRunning, HoldsLockControl
  <2>3. GlobalInv'
    BY <1>3, SysQueueAssumption DEF IInv, InitLock, GoCtl, Panic, locks, ring, TypeOK,
        GlobalInv, HoldsGlobal
  <2>4. FlagInv'
    BY <1>3, SysQueueAssumption DEF IInv, InitLock, GoCtl, Panic, locks, ring, TypeOK,
        FlagInv, Opening
  <2>5. RingInv'
    BY <1>3, SysQueueAssumption DEF IInv, InitLock, GoCtl, Panic, locks, ring, TypeOK,
        RingInv, Ran, Position
  <2> QED BY <2>1, <2>2, <2>3, <2>4, <2>5 DEF IInv
<1>4. CASE InitLockGlobal(c)
  <2>1. TypeOK'
    <3>1. ctl' \in [Controllers -> CtlPC] /\ panic' \in PanicMessages
      BY <1>4 DEF IInv, TypeOK, InitLockGlobal, GoCtl, Panic, CtlPC, PanicMessages
    <3>2. lock' \in BOOLEAN /\ global_lock' \in BOOLEAN
      BY <1>4 DEF IInv, TypeOK, InitLockGlobal
    <3> QED BY <1>4, <3>1, <3>2 DEF IInv, InitLockGlobal, ring, TypeOK
  <2>2. LockInv'
    BY <1>4, SysQueueAssumption DEF IInv, InitLockGlobal, GoCtl, Panic, locks, ring,
        TypeOK, LockInv, OneLockHolder, ReentrantAddFails, InCallback, HoldsLockAdding,
        HoldsLockRunning, HoldsLockControl
  <2>3. GlobalInv'
    BY <1>4, SysQueueAssumption DEF IInv, InitLockGlobal, GoCtl, Panic, locks, ring,
        TypeOK, GlobalInv, HoldsGlobal
  <2>4. FlagInv'
    BY <1>4, SysQueueAssumption DEF IInv, InitLockGlobal, GoCtl, Panic, locks, ring,
        TypeOK, FlagInv, Opening
  <2>5. RingInv'
    BY <1>4, SysQueueAssumption DEF IInv, InitLockGlobal, GoCtl, Panic, locks, ring,
        TypeOK, RingInv, Ran, Position
  <2> QED BY <2>1, <2>2, <2>3, <2>4, <2>5 DEF IInv
<1>5. CASE InitBody(c)
  <2>1. TypeOK'
    <3>1. ctl' \in [Controllers -> CtlPC] /\ panic' \in PanicMessages
      BY <1>5 DEF IInv, TypeOK, InitBody, GoCtl, Panic, CtlPC, PanicMessages
    <3>2. /\ head' \in Slots /\ tail' \in Slots /\ count' \in 0 .. QueueSize
          /\ vector' \in [Slots -> Job \cup {NoJob}] /\ allocated' \in BOOLEAN
      <4>1. FreshVector \in [Slots -> Job \cup {NoJob}] /\ 0 \in Slots /\ 0 \in 0 .. QueueSize
        BY SysQueueAssumption DEF FreshVector, Slots
      <4> QED BY <1>5, <4>1 DEF IInv, TypeOK, InitBody, ring
    <3> QED BY <1>5, <3>1, <3>2 DEF IInv, InitBody, locks, TypeOK
  <2>2. LockInv'
    BY <1>5, SysQueueAssumption DEF IInv, InitBody, GoCtl, Panic, locks, ring, TypeOK,
        LockInv, OneLockHolder, ReentrantAddFails, InCallback, HoldsLockAdding,
        HoldsLockRunning, HoldsLockControl
  <2>3. GlobalInv'
    BY <1>5, SysQueueAssumption DEF IInv, InitBody, GoCtl, Panic, locks, ring, TypeOK,
        GlobalInv, HoldsGlobal
  <2>4. FlagInv'
    BY <1>5, SysQueueAssumption DEF IInv, InitBody, GoCtl, Panic, locks, ring, TypeOK,
        FlagInv, Opening
  <2>5. RingInv'
    <3>1. \A q \in Adders : add[q] # "advance"
      BY <1>5 DEF IInv, InitBody, GoCtl, LockInv, OneLockHolder, HoldsLockAdding,
          HoldsLockRunning, HoldsLockControl
    <3>2. CASE ~ allocated'
      BY <1>5, <3>1, <3>2 DEF IInv, RingInv, InitBody
    <3>3. CASE allocated' /\ ~ allocated
      <4>1. At(0, 0) = 0
        BY AtZero, SysQueueAssumption DEF Slots
      <4>2. head' = 0 /\ tail' = 0 /\ count' = 0 /\ add' = add /\ arg' = arg
        BY <1>5, <3>3 DEF InitBody, ring
      <4> QED BY <3>1, <4>1, <4>2 DEF IInv, RingInv, Position
    <3>4. CASE allocated' /\ allocated
      BY <1>5, <3>1, <3>4 DEF IInv, RingInv, InitBody, ring, Position, Ran
    <3> QED BY <3>2, <3>3, <3>4 DEF IInv, TypeOK, InitBody
  <2> QED BY <2>1, <2>2, <2>3, <2>4, <2>5 DEF IInv
<1>6. CASE InitUnlock(c)
  <2>1. TypeOK'
    BY <1>6, SysQueueAssumption DEF IInv, InitUnlock, GoCtl, Panic, locks, ring, TypeOK,
        AddPC, RunPC, CtlPC, Flags, PanicMessages
  <2>2. LockInv'
    BY <1>6, SysQueueAssumption DEF IInv, InitUnlock, GoCtl, Panic, locks, ring, TypeOK,
        LockInv, OneLockHolder, ReentrantAddFails, InCallback, HoldsLockAdding,
        HoldsLockRunning, HoldsLockControl
  <2>3. GlobalInv'
    BY <1>6, SysQueueAssumption DEF IInv, InitUnlock, GoCtl, Panic, locks, ring, TypeOK,
        GlobalInv, HoldsGlobal
  <2>4. FlagInv'
    BY <1>6, SysQueueAssumption DEF IInv, InitUnlock, GoCtl, Panic, locks, ring, TypeOK,
        FlagInv, Opening
  <2>5. RingInv'
    BY <1>6, SysQueueAssumption DEF IInv, InitUnlock, GoCtl, Panic, locks, ring, TypeOK,
        RingInv, Ran, Position
  <2> QED BY <2>1, <2>2, <2>3, <2>4, <2>5 DEF IInv
<1>7. CASE InitUnlockGlobal(c)
  <2>1. TypeOK'
    BY <1>7, SysQueueAssumption DEF IInv, InitUnlockGlobal, GoCtl, Panic, locks, ring,
        TypeOK, AddPC, RunPC, CtlPC, Flags, PanicMessages
  <2>2. LockInv'
    BY <1>7, SysQueueAssumption DEF IInv, InitUnlockGlobal, GoCtl, Panic, locks, ring,
        TypeOK, LockInv, OneLockHolder, ReentrantAddFails, InCallback, HoldsLockAdding,
        HoldsLockRunning, HoldsLockControl
  <2>3. GlobalInv'
    BY <1>7, SysQueueAssumption DEF IInv, InitUnlockGlobal, GoCtl, Panic, locks, ring,
        TypeOK, GlobalInv, HoldsGlobal
  <2>4. FlagInv'
    BY <1>7, SysQueueAssumption DEF IInv, InitUnlockGlobal, GoCtl, Panic, locks, ring,
        TypeOK, FlagInv, Opening
  <2>5. RingInv'
    BY <1>7, SysQueueAssumption DEF IInv, InitUnlockGlobal, GoCtl, Panic, locks, ring,
        TypeOK, RingInv, Ran, Position
  <2> QED BY <2>1, <2>2, <2>3, <2>4, <2>5 DEF IInv
<1>8. CASE InitFlag(c)
  <2>1. TypeOK'
    BY <1>8, SysQueueAssumption DEF IInv, InitFlag, GoCtl, Panic, locks, ring, TypeOK,
        AddPC, RunPC, CtlPC, Flags, PanicMessages
  <2>2. LockInv'
    BY <1>8, SysQueueAssumption DEF IInv, InitFlag, GoCtl, Panic, locks, ring, TypeOK,
        LockInv, OneLockHolder, ReentrantAddFails, InCallback, HoldsLockAdding,
        HoldsLockRunning, HoldsLockControl
  <2>3. GlobalInv'
    BY <1>8, SysQueueAssumption DEF IInv, InitFlag, GoCtl, Panic, locks, ring, TypeOK,
        GlobalInv, HoldsGlobal
  <2>4. FlagInv'
    BY <1>8, SysQueueAssumption DEF IInv, InitFlag, GoCtl, Panic, locks, ring, TypeOK,
        FlagInv, Opening
  <2>5. RingInv'
    BY <1>8, SysQueueAssumption DEF IInv, InitFlag, GoCtl, Panic, locks, ring, TypeOK,
        RingInv, Ran, Position
  <2> QED BY <2>1, <2>2, <2>3, <2>4, <2>5 DEF IInv
<1>9. CASE DeinitCall(c)
  <2>1. TypeOK'
    BY <1>9, SysQueueAssumption DEF IInv, DeinitCall, GoCtl, Panic, locks, ring, TypeOK,
        AddPC, RunPC, CtlPC, Flags, PanicMessages
  <2>2. LockInv'
    BY <1>9, SysQueueAssumption DEF IInv, DeinitCall, GoCtl, Panic, locks, ring, TypeOK,
        LockInv, OneLockHolder, ReentrantAddFails, InCallback, HoldsLockAdding,
        HoldsLockRunning, HoldsLockControl
  <2>3. GlobalInv'
    BY <1>9, SysQueueAssumption DEF IInv, DeinitCall, GoCtl, Panic, locks, ring, TypeOK,
        GlobalInv, HoldsGlobal
  <2>4. FlagInv'
    BY <1>9, SysQueueAssumption DEF IInv, DeinitCall, GoCtl, Panic, locks, ring, TypeOK,
        FlagInv, Opening
  <2>5. RingInv'
    BY <1>9, SysQueueAssumption DEF IInv, DeinitCall, GoCtl, Panic, locks, ring, TypeOK,
        RingInv, Ran, Position
  <2> QED BY <2>1, <2>2, <2>3, <2>4, <2>5 DEF IInv
<1>10. CASE DeinitLockGlobal(c)
  <2>1. TypeOK'
    <3>1. ctl' \in [Controllers -> CtlPC] /\ panic' \in PanicMessages
      BY <1>10 DEF IInv, TypeOK, DeinitLockGlobal, GoCtl, Panic, CtlPC, PanicMessages
    <3>2. lock' \in BOOLEAN /\ global_lock' \in BOOLEAN
      BY <1>10 DEF IInv, TypeOK, DeinitLockGlobal
    <3> QED BY <1>10, <3>1, <3>2 DEF IInv, DeinitLockGlobal, ring, TypeOK
  <2>2. LockInv'
    BY <1>10, SysQueueAssumption DEF IInv, DeinitLockGlobal, GoCtl, Panic, locks, ring,
        TypeOK, LockInv, OneLockHolder, ReentrantAddFails, InCallback, HoldsLockAdding,
        HoldsLockRunning, HoldsLockControl
  <2>3. GlobalInv'
    BY <1>10, SysQueueAssumption DEF IInv, DeinitLockGlobal, GoCtl, Panic, locks, ring,
        TypeOK, GlobalInv, HoldsGlobal
  <2>4. FlagInv'
    BY <1>10, SysQueueAssumption DEF IInv, DeinitLockGlobal, GoCtl, Panic, locks, ring,
        TypeOK, FlagInv, Opening
  <2>5. RingInv'
    BY <1>10, SysQueueAssumption DEF IInv, DeinitLockGlobal, GoCtl, Panic, locks, ring,
        TypeOK, RingInv, Ran, Position
  <2> QED BY <2>1, <2>2, <2>3, <2>4, <2>5 DEF IInv
<1>11. CASE DeinitLock(c)
  <2>1. TypeOK'
    <3>1. ctl' \in [Controllers -> CtlPC] /\ panic' \in PanicMessages
      BY <1>11 DEF IInv, TypeOK, DeinitLock, GoCtl, Panic, CtlPC, PanicMessages
    <3>2. lock' \in BOOLEAN /\ global_lock' \in BOOLEAN
      BY <1>11 DEF IInv, TypeOK, DeinitLock
    <3> QED BY <1>11, <3>1, <3>2 DEF IInv, DeinitLock, ring, TypeOK
  <2>2. LockInv'
    BY <1>11, SysQueueAssumption DEF IInv, DeinitLock, GoCtl, Panic, locks, ring,
        TypeOK, LockInv, OneLockHolder, ReentrantAddFails, InCallback, HoldsLockAdding,
        HoldsLockRunning, HoldsLockControl
  <2>3. GlobalInv'
    BY <1>11, SysQueueAssumption DEF IInv, DeinitLock, GoCtl, Panic, locks, ring,
        TypeOK, GlobalInv, HoldsGlobal
  <2>4. FlagInv'
    BY <1>11, SysQueueAssumption DEF IInv, DeinitLock, GoCtl, Panic, locks, ring,
        TypeOK, FlagInv, Opening
  <2>5. RingInv'
    BY <1>11, SysQueueAssumption DEF IInv, DeinitLock, GoCtl, Panic, locks, ring,
        TypeOK, RingInv, Ran, Position
  <2> QED BY <2>1, <2>2, <2>3, <2>4, <2>5 DEF IInv
<1>12. CASE DeinitSignal(c)
  <2>1. TypeOK'
    <3>1. ctl' \in [Controllers -> CtlPC] /\ panic' \in PanicMessages
      BY <1>12 DEF IInv, TypeOK, DeinitSignal, GoCtl, Panic, CtlPC, PanicMessages
    <3>2. lock' \in BOOLEAN /\ global_lock' \in BOOLEAN /\ flag' \in Flags
      BY <1>12 DEF IInv, TypeOK, DeinitSignal, locks, Flags
    <3> QED BY <1>12, <3>1, <3>2 DEF IInv, DeinitSignal, ring, TypeOK
  <2>2. LockInv'
    BY <1>12, SysQueueAssumption DEF IInv, DeinitSignal, GoCtl, Panic, locks, ring,
        TypeOK, LockInv, OneLockHolder, ReentrantAddFails, InCallback, HoldsLockAdding,
        HoldsLockRunning, HoldsLockControl
  <2>3. GlobalInv'
    BY <1>12, SysQueueAssumption DEF IInv, DeinitSignal, GoCtl, Panic, locks, ring,
        TypeOK, GlobalInv, HoldsGlobal
  <2>4. FlagInv'
    BY <1>12, SysQueueAssumption
    DEF IInv, DeinitSignal, GoCtl, Panic, locks, ring, TypeOK, FlagInv, Opening, GlobalInv, HoldsGlobal,
        LockInv, OneLockHolder, HoldsLockAdding, HoldsLockRunning, HoldsLockControl
  <2>5. RingInv'
    BY <1>12, SysQueueAssumption DEF IInv, DeinitSignal, GoCtl, Panic, locks, ring,
        TypeOK, RingInv, Ran, Position
  <2> QED BY <2>1, <2>2, <2>3, <2>4, <2>5 DEF IInv
<1>13. CASE DeinitWait(c)
  <2>1. TypeOK'
    <3>1. ctl' \in [Controllers -> CtlPC] /\ panic' \in PanicMessages
      BY <1>13 DEF IInv, TypeOK, DeinitWait, GoCtl, Panic, CtlPC, PanicMessages
    <3>2. lock' \in BOOLEAN /\ global_lock' \in BOOLEAN /\ flag' \in Flags
      BY <1>13 DEF IInv, TypeOK, DeinitWait, locks, Flags
    <3> QED BY <1>13, <3>1, <3>2 DEF IInv, DeinitWait, ring, TypeOK
  <2>2. LockInv'
    BY <1>13, SysQueueAssumption DEF IInv, DeinitWait, GoCtl, Panic, locks, ring,
        TypeOK, LockInv, OneLockHolder, ReentrantAddFails, InCallback, HoldsLockAdding,
        HoldsLockRunning, HoldsLockControl
  <2>3. GlobalInv'
    BY <1>13, SysQueueAssumption DEF IInv, DeinitWait, GoCtl, Panic, locks, ring,
        TypeOK, GlobalInv, HoldsGlobal
  <2>4. FlagInv'
    BY <1>13, SysQueueAssumption DEF IInv, DeinitWait, GoCtl, Panic, locks, ring,
        TypeOK, FlagInv, Opening
  <2>5. RingInv'
    BY <1>13, SysQueueAssumption DEF IInv, DeinitWait, GoCtl, Panic, locks, ring,
        TypeOK, RingInv, Ran, Position
  <2> QED BY <2>1, <2>2, <2>3, <2>4, <2>5 DEF IInv
<1>14. CASE DeinitRelock(c)
  <2>1. TypeOK'
    <3>1. ctl' \in [Controllers -> CtlPC] /\ panic' \in PanicMessages
      BY <1>14 DEF IInv, TypeOK, DeinitRelock, GoCtl, Panic, CtlPC, PanicMessages
    <3>2. lock' \in BOOLEAN /\ global_lock' \in BOOLEAN
      BY <1>14 DEF IInv, TypeOK, DeinitRelock
    <3> QED BY <1>14, <3>1, <3>2 DEF IInv, DeinitRelock, ring, TypeOK
  <2>2. LockInv'
    BY <1>14, SysQueueAssumption DEF IInv, DeinitRelock, GoCtl, Panic, locks, ring,
        TypeOK, LockInv, OneLockHolder, ReentrantAddFails, InCallback, HoldsLockAdding,
        HoldsLockRunning, HoldsLockControl
  <2>3. GlobalInv'
    BY <1>14, SysQueueAssumption DEF IInv, DeinitRelock, GoCtl, Panic, locks, ring,
        TypeOK, GlobalInv, HoldsGlobal
  <2>4. FlagInv'
    BY <1>14, SysQueueAssumption DEF IInv, DeinitRelock, GoCtl, Panic, locks, ring,
        TypeOK, FlagInv, Opening
  <2>5. RingInv'
    BY <1>14, SysQueueAssumption DEF IInv, DeinitRelock, GoCtl, Panic, locks, ring,
        TypeOK, RingInv, Ran, Position
  <2> QED BY <2>1, <2>2, <2>3, <2>4, <2>5 DEF IInv
<1>15. CASE DeinitFree(c)
  <2>1. TypeOK'
    BY <1>15, SysQueueAssumption DEF IInv, DeinitFree, GoCtl, Panic, locks, ring,
        TypeOK, AddPC, RunPC, CtlPC, Flags, PanicMessages
  <2>2. LockInv'
    BY <1>15, SysQueueAssumption DEF IInv, DeinitFree, GoCtl, Panic, locks, ring,
        TypeOK, LockInv, OneLockHolder, ReentrantAddFails, InCallback, HoldsLockAdding,
        HoldsLockRunning, HoldsLockControl
  <2>3. GlobalInv'
    BY <1>15, SysQueueAssumption DEF IInv, DeinitFree, GoCtl, Panic, locks, ring,
        TypeOK, GlobalInv, HoldsGlobal
  <2>4. FlagInv'
    BY <1>15, SysQueueAssumption
    DEF IInv, DeinitFree, GoCtl, Panic, locks, ring, TypeOK, FlagInv, Opening, GlobalInv, HoldsGlobal,
        LockInv, OneLockHolder, HoldsLockAdding, HoldsLockRunning, HoldsLockControl
  <2>5. RingInv'
    BY <1>15, SysQueueAssumption DEF IInv, DeinitFree, GoCtl, Panic, locks, ring,
        TypeOK, RingInv, Ran, Position
  <2> QED BY <2>1, <2>2, <2>3, <2>4, <2>5 DEF IInv
<1>16. CASE DeinitUnlock(c)
  <2>1. TypeOK'
    BY <1>16, SysQueueAssumption DEF IInv, DeinitUnlock, GoCtl, Panic, locks, ring,
        TypeOK, AddPC, RunPC, CtlPC, Flags, PanicMessages
  <2>2. LockInv'
    BY <1>16, SysQueueAssumption DEF IInv, DeinitUnlock, GoCtl, Panic, locks, ring,
        TypeOK, LockInv, OneLockHolder, ReentrantAddFails, InCallback, HoldsLockAdding,
        HoldsLockRunning, HoldsLockControl
  <2>3. GlobalInv'
    BY <1>16, SysQueueAssumption DEF IInv, DeinitUnlock, GoCtl, Panic, locks, ring,
        TypeOK, GlobalInv, HoldsGlobal
  <2>4. FlagInv'
    BY <1>16, SysQueueAssumption DEF IInv, DeinitUnlock, GoCtl, Panic, locks, ring,
        TypeOK, FlagInv, Opening
  <2>5. RingInv'
    BY <1>16, SysQueueAssumption DEF IInv, DeinitUnlock, GoCtl, Panic, locks, ring,
        TypeOK, RingInv, Ran, Position
  <2> QED BY <2>1, <2>2, <2>3, <2>4, <2>5 DEF IInv
<1>17. CASE DeinitUnlockGlobal(c)
  <2>1. TypeOK'
    BY <1>17, SysQueueAssumption DEF IInv, DeinitUnlockGlobal, GoCtl, Panic, locks,
        ring, TypeOK, AddPC, RunPC, CtlPC, Flags, PanicMessages
  <2>2. LockInv'
    BY <1>17, SysQueueAssumption DEF IInv, DeinitUnlockGlobal, GoCtl, Panic, locks,
        ring, TypeOK, LockInv, OneLockHolder, ReentrantAddFails, InCallback,
        HoldsLockAdding, HoldsLockRunning, HoldsLockControl
  <2>3. GlobalInv'
    BY <1>17, SysQueueAssumption DEF IInv, DeinitUnlockGlobal, GoCtl, Panic, locks,
        ring, TypeOK, GlobalInv, HoldsGlobal
  <2>4. FlagInv'
    BY <1>17, SysQueueAssumption DEF IInv, DeinitUnlockGlobal, GoCtl, Panic, locks,
        ring, TypeOK, FlagInv, Opening
  <2>5. RingInv'
    BY <1>17, SysQueueAssumption DEF IInv, DeinitUnlockGlobal, GoCtl, Panic, locks,
        ring, TypeOK, RingInv, Ran, Position
  <2> QED BY <2>1, <2>2, <2>3, <2>4, <2>5 DEF IInv
<1> QED BY <1>1, <1>2, <1>3, <1>4, <1>5, <1>6, <1>7, <1>8, <1>9, <1>10, <1>11, <1>12, <1>13, <1>14, <1>15, <1>16, <1>17 DEF CtlStep, CtlProgress

-----------------------------------------------------------------------------
LEMMA InitInv == Init => IInv
<1> SUFFICES ASSUME Init PROVE IInv
  OBVIOUS
<1>1. TypeOK
  <2>1. 0 \in Slots /\ 0 \in 0 .. QueueSize
    BY SysQueueAssumption DEF Slots
  <2> QED BY <2>1 DEF Init, TypeOK, Flags, AddPC, RunPC, CtlPC, PanicMessages
<1>2. LockInv
  BY DEF Init, LockInv, OneLockHolder, ReentrantAddFails, InCallback, HoldsLockAdding,
         HoldsLockRunning, HoldsLockControl, Adders
<1>3. GlobalInv /\ FlagInv /\ RingInv
  BY DEF Init, GlobalInv, HoldsGlobal, FlagInv, Opening, RingInv
<1> QED BY <1>1, <1>2, <1>3 DEF IInv

LEMMA StepInv == IInv /\ [Next]_vars => IInv'
<1> SUFFICES ASSUME IInv, [Next]_vars PROVE IInv'
  OBVIOUS
<1>1. CASE \E p \in Adders : AddStep(p)
  BY <1>1, AddKeepsInv
<1>2. CASE RunStep
  BY <1>2, RunKeepsInv
<1>3. CASE \E c \in Controllers : CtlStep(c)
  BY <1>3, CtlKeepsInv
<1>4. CASE UNCHANGED vars
  <2>1. TypeOK' /\ LockInv' /\ GlobalInv' /\ FlagInv'
    BY <1>4 DEF IInv, vars, TypeOK, LockInv, OneLockHolder, ReentrantAddFails, InCallback,
                HoldsLockAdding, HoldsLockRunning, HoldsLockControl, GlobalInv, HoldsGlobal,
                FlagInv, Opening
  <2>2. RingInv'
    BY <1>4 DEF IInv, vars, RingInv, Ran, Position
  <2> QED BY <2>1, <2>2 DEF IInv
<1> QED BY <1>1, <1>2, <1>3, <1>4 DEF Next

LEMMA Invariance == Spec => []IInv
BY InitInv, StepInv, PTL DEF Spec

(***************************************************************************)
(* Every variable keeps its type: in particular count stays between 0 and  *)
(* queue_size although it is incremented and decremented by different      *)
(* tasks, and head and tail stay inside the vector.                        *)
(***************************************************************************)
THEOREM TypeCorrect == Spec => []TypeOK
<1>1. IInv => TypeOK
  BY DEF IInv
<1> QED BY <1>1, Invariance, PTL

(***************************************************************************)
(* The lock is a lock: at most one party is between taking and freeing it, *)
(* although sys_try_lock_if_gbl_is_false reads global_lock and exchanges   *)
(* lock in two steps.                                                      *)
(***************************************************************************)
THEOREM MutualExclusion == Spec => []OneLockHolder
<1>1. IInv => OneLockHolder
  BY DEF IInv, LockInv
<1> QED BY <1>1, Invariance, PTL

(***************************************************************************)
(* A callback cannot add to the queue it runs from.                        *)
(***************************************************************************)
THEOREM NoReentrantAdd == Spec => []ReentrantAddFails
<1>1. IInv => ReentrantAddFails
  BY DEF IInv, LockInv
<1> QED BY <1>1, Invariance, PTL

(***************************************************************************)
(* Nobody touches a slot of a freed vector, with any number of tasks that  *)
(* switch the queue on and off concurrently, and a deinit frees it only    *)
(* when no job is left in it.                                              *)
(***************************************************************************)
THEOREM MemorySafety == Spec => []NoUseAfterFree
<1>1. IInv => NoUseAfterFree
  <2> SUFFICES ASSUME IInv PROVE NoUseAfterFree
    OBVIOUS
  <2>1. run \notin {"idle", "cas", "check", "unlock"} => allocated
    BY DEF IInv, TypeOK, RunPC, FlagInv
  <2> QED BY <2>1 DEF IInv, FlagInv, NoUseAfterFree
<1> QED BY <1>1, Invariance, PTL

(***************************************************************************)
(* The jobs between tail and head are the count jobs not yet retired, each *)
(* with its function.                                                      *)
(***************************************************************************)
THEOREM RingIntegrity == Spec => []RingShape
<1>1. IInv => RingShape
  BY DEF IInv, RingInv, RingShape, Ran, NewJobs
<1> QED BY <1>1, Invariance, PTL

\* A queue that is closing is closed by a deinit that holds the global lock, so no
\* second one finds it closing.
Closing(c) == ctl[c] \in {"deinit_wait", "deinit_relock", "deinit_free"}
ClosingInv == flag \in {"send_deinit_signal", "ready_deinit"} => \E c \in Controllers : Closing(c)

LEMMA StepClosing == IInv /\ ClosingInv /\ [Next]_vars => ClosingInv'
<1> SUFFICES ASSUME IInv, ClosingInv, [Next]_vars PROVE ClosingInv'
  OBVIOUS
<1>1. CASE \E p \in Adders : AddStep(p)
  BY <1>1 DEF AddStep, AddCall, AddGlobal, AddLock, AddTimeout, AddRetry, AddCheck, AddWrite,
              AddAdvance, AddUnlock, ClosingInv, Closing
<1>2. CASE RunStep
  <2>1. ctl' = ctl
    BY <1>2 DEF RunStep, RunCall, RunLock, RunTimeout, RunCheck, RunFunction, RunDestroyer,
                RunAdvance, DrainLoop, DrainDestroyer, DrainAdvance, RunUnlock
  <2>2. flag' = flag \/ (run = "drain" /\ flag' = "ready_deinit")
    BY <1>2 DEF RunStep, RunCall, RunLock, RunTimeout, RunCheck, RunFunction, RunDestroyer,
                RunAdvance, DrainLoop, DrainDestroyer, DrainAdvance, RunUnlock
  <2>3. run = "drain" => flag = "send_deinit_signal"
    BY DEF IInv, FlagInv
  <2> QED BY <2>1, <2>2, <2>3 DEF ClosingInv, Closing
<1>3. ASSUME NEW c \in Controllers, CtlStep(c) PROVE ClosingInv'
  <2>1. ctl \in [Controllers -> CtlPC]
    BY DEF IInv, TypeOK
  <2>2. CASE DeinitSignal(c)
    BY <2>1, <2>2 DEF DeinitSignal, GoCtl, Panic, ClosingInv, Closing
  <2>3. CASE DeinitWait(c) \/ DeinitRelock(c)
    BY <2>1, <2>3 DEF DeinitWait, DeinitRelock, GoCtl, Panic, ClosingInv, Closing
  <2>4. CASE DeinitFree(c) \/ InitFlag(c)
    BY <2>4 DEF DeinitFree, InitFlag, ClosingInv
  <2>5. CASE InitCall(c) \/ DeinitCall(c)
    BY <2>1, <2>5 DEF InitCall, DeinitCall, GoCtl, ClosingInv, Closing
  <2>6. CASE InitGlobal(c) \/ InitLock(c) \/ InitLockGlobal(c) \/ InitBody(c)
    BY <2>1, <2>6 DEF InitGlobal, InitLock, InitLockGlobal, InitBody, GoCtl, Panic, ClosingInv,
                      Closing
  <2>7. CASE InitUnlock(c) \/ InitUnlockGlobal(c) \/ DeinitLockGlobal(c) \/ DeinitLock(c)
    BY <2>1, <2>7 DEF InitUnlock, InitUnlockGlobal, DeinitLockGlobal, DeinitLock, GoCtl, Panic,
                      ClosingInv, Closing
  <2>8. CASE DeinitUnlock(c) \/ DeinitUnlockGlobal(c)
    BY <2>1, <2>8 DEF DeinitUnlock, DeinitUnlockGlobal, GoCtl, ClosingInv, Closing
  <2> QED BY <1>3, <2>2, <2>3, <2>4, <2>5, <2>6, <2>7, <2>8 DEF CtlStep, CtlProgress
<1>4. CASE UNCHANGED vars
  BY <1>4 DEF vars, ClosingInv, Closing
<1> QED BY <1>1, <1>2, <1>3, <1>4 DEF Next

LEMMA StepConsistent == IInv /\ ClosingInv /\ NeverInconsistent /\ [Next]_vars => NeverInconsistent'
<1> SUFFICES ASSUME IInv, ClosingInv, NeverInconsistent, [Next]_vars PROVE NeverInconsistent'
  OBVIOUS
<1>1. CASE \E p \in Adders : AddStep(p)
  BY <1>1 DEF AddStep, AddCall, AddGlobal, AddLock, AddTimeout, AddRetry, AddCheck, AddWrite,
              AddAdvance, AddUnlock, NeverInconsistent
<1>2. CASE RunStep
  <2>1. CASE RunCheck
    \* The oldest job of a running queue has its function: no run is under way.
    <3>1. ASSUME run = "check", flag = "running", count >= 1 PROVE vector[tail].function
      <4>1. allocated /\ ~ Ran /\ count \in 1 .. QueueSize
        BY <3>1, SysQueueAssumption DEF IInv, TypeOK, FlagInv, Ran
      <4>2. Position(0) = tail
        BY AtZero DEF Position, IInv, TypeOK
      <4>3. 0 \in 0 .. count - 1
        BY <4>1
      <4> QED BY <4>1, <4>2, <4>3 DEF IInv, RingInv
    <3> QED BY <2>1, <3>1 DEF RunCheck, NeverInconsistent
  <2>2. CASE ~ RunCheck
    BY <1>2, <2>2 DEF RunStep, RunCall, RunLock, RunTimeout, RunFunction, RunDestroyer, RunAdvance,
                      DrainLoop, DrainDestroyer, DrainAdvance, RunUnlock, Panic, NeverInconsistent
  <2> QED BY <2>1, <2>2
<1>3. ASSUME NEW c \in Controllers, CtlStep(c) PROVE NeverInconsistent'
  <2>1. CASE InitBody(c)
    BY <2>1 DEF IInv, FlagInv, InitBody, Panic, NeverInconsistent
  <2>2. CASE DeinitSignal(c)
    <3>1. flag \in {"running", "off"}
      <4> SUFFICES ASSUME flag \notin {"running", "off"} PROVE FALSE
        OBVIOUS
      <4>1. PICK d \in Controllers : Closing(d)
        BY DEF IInv, TypeOK, Flags, ClosingInv
      <4>2. HoldsGlobal(d) /\ HoldsGlobal(c) /\ ctl[c] = "deinit_signal"
        BY <2>2, <4>1 DEF Closing, HoldsGlobal, DeinitSignal, GoCtl
      <4> QED BY <4>1, <4>2 DEF IInv, GlobalInv, Closing
    <3> QED BY <2>2, <3>1 DEF DeinitSignal, Panic, NeverInconsistent
  <2>3. CASE ~ InitBody(c) /\ ~ DeinitSignal(c)
    BY <1>3, <2>3 DEF CtlStep, CtlProgress, InitCall, DeinitCall, InitGlobal, InitLock,
       InitLockGlobal, InitUnlock, InitUnlockGlobal, InitFlag, DeinitLockGlobal, DeinitLock,
       DeinitWait, DeinitRelock, DeinitFree, DeinitUnlock, DeinitUnlockGlobal, Panic,
       NeverInconsistent
  <2> QED BY <2>1, <2>2, <2>3
<1>4. CASE UNCHANGED vars
  BY <1>4 DEF vars, NeverInconsistent
<1> QED BY <1>1, <1>2, <1>3, <1>4 DEF Next

(***************************************************************************)
(* The queue is never found inconsistent: the panics that would mean so    *)
(* (sys_queue.c) are not reached, whatever the others are.                 *)
(***************************************************************************)
THEOREM Consistency == Spec => []NeverInconsistent
<1>1. Init => ClosingInv /\ NeverInconsistent
  BY DEF Init, ClosingInv, NeverInconsistent
<1> QED BY <1>1, StepClosing, StepConsistent, Invariance, PTL DEF Spec
-----------------------------------------------------------------------------
(***************************************************************************)
(* One controller that is above nobody it may have to wait for, callbacks  *)
(* that return in time and a heap with room for the ring.                  *)
(***************************************************************************)
PatientController ==
  /\ Faults = {}
  /\ \A c, d \in Controllers : c = d
  /\ \A c \in Controllers, q \in Adders : Prio[c] <= Prio[q]

\* An init that has not filled the ring yet finds the queue off all along, and a
\* ring that is allocated while the queue is off is about to be switched on.
Initing(c) == ctl[c] \in {"init_global", "init_cas", "init_lock_global", "init_body"}
SwitchInv ==
  /\ \A c \in Controllers : Initing(c) => flag = "off"
  /\ allocated /\ flag = "off" => \E c \in Controllers : Opening(c)
  /\ ClosingInv

LEMMA StepSwitch ==
  ASSUME PatientController, IInv, SwitchInv, [Next]_vars
  PROVE  SwitchInv'
<1>1. ClosingInv'
  BY StepClosing DEF SwitchInv
<1>2. CASE \E p \in Adders : AddStep(p)
  BY <1>1, <1>2 DEF AddStep, AddCall, AddGlobal, AddLock, AddTimeout, AddRetry, AddCheck, AddWrite,
                    AddAdvance, AddUnlock, ring, SwitchInv, Initing, Opening
<1>3. CASE RunStep
  <2>1. ctl' = ctl /\ allocated' = allocated
    BY <1>3 DEF RunStep, RunCall, RunLock, RunTimeout, RunCheck, RunFunction, RunDestroyer,
                RunAdvance, DrainLoop, DrainDestroyer, DrainAdvance, RunUnlock, ring
  <2>2. flag' = flag \/ (run = "drain" /\ flag' = "ready_deinit")
    BY <1>3 DEF RunStep, RunCall, RunLock, RunTimeout, RunCheck, RunFunction, RunDestroyer,
                RunAdvance, DrainLoop, DrainDestroyer, DrainAdvance, RunUnlock
  <2>3. run = "drain" => flag = "send_deinit_signal"
    BY DEF IInv, FlagInv
  <2> QED BY <1>1, <2>1, <2>2, <2>3 DEF SwitchInv, Initing, Opening
<1>4. ASSUME NEW c \in Controllers, CtlStep(c) PROVE SwitchInv'
  <2>1. ctl \in [Controllers -> CtlPC] /\ (\A d \in Controllers : d = c)
    BY DEF IInv, TypeOK, PatientController
  <2>2. ctl = [d \in Controllers |-> ctl[c]] /\ (Opening(c) => allocated /\ flag = "off")
    BY <2>1 DEF IInv, FlagInv
  <2>3. CASE InitCall(c) \/ DeinitCall(c)
    BY <1>1, <2>1, <2>3 DEF InitCall, DeinitCall, GoCtl, ring, SwitchInv, Initing, Opening
  <2>4. CASE InitGlobal(c) \/ InitLock(c) \/ InitLockGlobal(c)
    BY <1>1, <2>1, <2>4 DEF InitGlobal, InitLock, InitLockGlobal, GoCtl, Panic, ring, SwitchInv,
                            Initing, Opening
  <2>5. CASE InitBody(c)
    BY <1>1, <2>1, <2>5 DEF InitBody, GoCtl, Panic, ring, SwitchInv, Initing, Opening
  <2>6. CASE InitUnlock(c) \/ InitUnlockGlobal(c)
    BY <1>1, <2>1, <2>6 DEF InitUnlock, InitUnlockGlobal, GoCtl, ring, SwitchInv, Initing, Opening
  <2>7. CASE InitFlag(c)
    BY <1>1, <2>1, <2>7 DEF InitFlag, GoCtl, ring, SwitchInv, Initing, Opening
  <2>8. CASE DeinitLockGlobal(c) \/ DeinitLock(c) \/ DeinitWait(c) \/ DeinitRelock(c)
    BY <1>1, <2>1, <2>8 DEF DeinitLockGlobal, DeinitLock, DeinitWait, DeinitRelock, GoCtl, Panic,
                            ring, SwitchInv, Initing, Opening
  <2>9. CASE DeinitSignal(c)
    BY <1>1, <2>1, <2>9 DEF DeinitSignal, GoCtl, Panic, ring, SwitchInv, Initing, Opening
  <2>10. CASE DeinitFree(c) \/ DeinitUnlock(c) \/ DeinitUnlockGlobal(c)
    BY <1>1, <2>1, <2>10 DEF DeinitFree, DeinitUnlock, DeinitUnlockGlobal, GoCtl, ring, SwitchInv,
                            Initing, Opening
  <2> QED BY <1>4, <2>3, <2>4, <2>5, <2>6, <2>7, <2>8, <2>9, <2>10 DEF CtlStep, CtlProgress
<1>5. CASE UNCHANGED vars
  BY <1>1, <1>5 DEF vars, SwitchInv, Initing, Opening
<1> QED BY <1>2, <1>3, <1>4, <1>5 DEF Next

\* Nothing such a controller waits for lasts.
LEMMA WaitsEnd ==
  ASSUME PatientController, IInv, NEW c \in Controllers
  PROVE  ~ SlowRunner(c) /\ ~ LockStaysTaken(c) /\ ~ GlobalStaysTaken(c)
<1>1. /\ Controllers \ {c} = {}
      /\ Faults = {}
      /\ \A q \in Adders : Prio[q] \in Nat /\ Prio[c] \in Nat /\ Prio[c] <= Prio[q]
  BY SysQueueAssumption DEF PatientController, Procs
<1>2. Runner \in Adders /\ Producers \subseteq Adders
  BY DEF Adders
<1>3. \A q \in Adders : ~ (Prio[c] > Prio[q])
  BY <1>1
<1> QED BY <1>1, <1>2, <1>3 DEF SlowRunner, LockStaysTaken, GlobalStaysTaken

LEMMA StepNoPanic ==
  ASSUME PatientController, IInv, SwitchInv, NeverInconsistent', NoPanic, [Next]_vars
  PROVE  NoPanic'
<1>1. CASE \E p \in Adders : AddStep(p)
  BY <1>1 DEF AddStep, AddCall, AddGlobal, AddLock, AddTimeout, AddRetry, AddCheck, AddWrite,
              AddAdvance, AddUnlock, NoPanic
<1>2. CASE RunStep
  <2>1. panic' # "queuefun:NULL" /\ Faults = {}
    BY DEF NeverInconsistent, PatientController
  <2> QED BY <1>2, <2>1 DEF RunStep, RunCall, RunLock, RunTimeout, RunCheck, RunFunction,
                RunDestroyer, RunAdvance, DrainLoop, DrainDestroyer, DrainAdvance, RunUnlock, Panic,
                NoPanic
<1>3. ASSUME NEW c \in Controllers, CtlStep(c) PROVE NoPanic'
  <2>1. \A d \in Controllers : d = c
    BY DEF PatientController
  <2>2. ~ SlowRunner(c) /\ ~ LockStaysTaken(c) /\ ~ GlobalStaysTaken(c)
    BY WaitsEnd
  <2>3. global_lock => HoldsGlobal(c)
    BY <2>1 DEF IInv, GlobalInv
  <2>4. allocated /\ flag = "off" => Opening(c)
    BY <2>1 DEF SwitchInv
  <2>5. CASE InitGlobal(c)
    BY <2>3, <2>5 DEF InitGlobal, HoldsGlobal, NoPanic
  <2>6. CASE InitBody(c)
    BY <2>4, <2>6 DEF InitBody, Opening, SwitchInv, Initing, NoPanic, PatientController
  <2>7. CASE DeinitSignal(c)
    <3>1. panic' # "queue:DEINIT4"
      BY DEF NeverInconsistent
    <3> QED BY <2>4, <2>7, <3>1 DEF DeinitSignal, Opening, Panic, NoPanic
  <2>8. CASE InitLock(c) \/ InitLockGlobal(c) \/ DeinitLockGlobal(c) \/ DeinitLock(c)
             \/ DeinitWait(c) \/ DeinitRelock(c)
    BY <2>2, <2>8 DEF InitLock, InitLockGlobal, DeinitLockGlobal, DeinitLock, DeinitWait,
                      DeinitRelock, NoPanic
  <2>9. CASE InitCall(c) \/ DeinitCall(c) \/ InitUnlock(c) \/ InitUnlockGlobal(c) \/ InitFlag(c)
             \/ DeinitFree(c) \/ DeinitUnlock(c) \/ DeinitUnlockGlobal(c)
    BY <2>9 DEF InitCall, DeinitCall, InitUnlock, InitUnlockGlobal, InitFlag, DeinitFree,
                DeinitUnlock, DeinitUnlockGlobal, NoPanic
  <2> QED BY <1>3, <2>5, <2>6, <2>7, <2>8, <2>9 DEF CtlStep, CtlProgress
<1>4. CASE UNCHANGED vars
  BY <1>4 DEF vars, NoPanic
<1> QED BY <1>2, <1>1, <1>3, <1>4 DEF Next

(***************************************************************************)
(* With one controller that is not above the adders and the queue task,    *)
(* callbacks that return in time and room on the heap, no panic of         *)
(* sys_queue.c is ever reached, however many the adders and the slots are  *)
(* and whatever the priorities among the adders.                           *)
(***************************************************************************)
THEOREM NoPanicOfOneController ==
  ASSUME PatientController
  PROVE  Spec => []NoPanic
<1>1. Init => SwitchInv /\ NoPanic
  BY DEF Init, SwitchInv, Initing, ClosingInv, NoPanic
<1>2. IInv /\ SwitchInv /\ NeverInconsistent' /\ NoPanic /\ [Next]_vars => SwitchInv' /\ NoPanic'
  BY StepSwitch, StepNoPanic
<1> QED BY <1>1, <1>2, Invariance, Consistency, PTL DEF Spec

-----------------------------------------------------------------------------
(***************************************************************************)
(* SysQueue implements QueueService, for every number of producers,        *)
(* controllers and slots, every priority assignment and every fault.       *)
(***************************************************************************)
Contents == Job \cup {NoJob}

\* The n jobs from slot t of the ring v on.
JobsIn(v, t, n) == [k \in 1 .. n |-> v[At(t, k - 1)]]

-----------------------------------------------------------------------------
(***************************************************************************)
(* What writing a slot and moving an index of the ring does to the jobs.   *)
(***************************************************************************)
LEMMA JobsFacts ==
  ASSUME NEW v \in [Slots -> Contents], NEW t \in Slots, NEW n \in 0 .. QueueSize
  PROVE  /\ JobsIn(v, t, n) \in Seq(Contents)
         /\ Len(JobsIn(v, t, n)) = n
         /\ \A k \in 1 .. n : /\ At(t, k - 1) \in Slots
                              /\ JobsIn(v, t, n)[k] = v[At(t, k - 1)]
<1>1. \A k \in 1 .. n : k - 1 \in 0 .. QueueSize
  BY SysQueueAssumption
<1>2. \A k \in 1 .. n : At(t, k - 1) \in Slots
  BY <1>1, AtCases
<1>3. JobsIn(v, t, n) \in [1 .. n -> Contents]
  BY <1>2 DEF JobsIn
<1>4. n \in Nat
  BY SysQueueAssumption
<1>5. JobsIn(v, t, n) \in Seq(Contents)
  BY <1>3, <1>4, SeqDef
<1>6. Len(JobsIn(v, t, n)) = n
  BY <1>3, <1>4, <1>5, LenProperties
<1> QED BY <1>2, <1>5, <1>6 DEF JobsIn

LEMMA NoJobs == ASSUME NEW v \in [Slots -> Contents], NEW t \in Slots PROVE JobsIn(v, t, 0) = <<>>
<1>1. 0 \in 0 .. QueueSize
  BY SysQueueAssumption
<1>2. JobsIn(v, t, 0) \in Seq(Contents) /\ Len(JobsIn(v, t, 0)) = 0
  BY <1>1, JobsFacts
<1> QED BY <1>2, EmptySeq

LEMMA OneMore ==
  ASSUME NEW v \in [Slots -> Contents], NEW t \in Slots, NEW n \in 0 .. QueueSize - 1
  PROVE  JobsIn(v, t, n + 1) = Append(JobsIn(v, t, n), v[At(t, n)])
<1> DEFINE old == JobsIn(v, t, n)
           new == JobsIn(v, t, n + 1)
<1>1. n \in 0 .. QueueSize /\ n + 1 \in 0 .. QueueSize /\ At(t, n) \in Slots
  BY AtCases, SysQueueAssumption
<1>2. /\ old \in Seq(Contents) /\ Len(old) = n /\ v[At(t, n)] \in Contents
      /\ \A k \in 1 .. n : old[k] = v[At(t, k - 1)]
  BY <1>1, JobsFacts
<1>3. /\ new \in Seq(Contents) /\ Len(new) = n + 1
      /\ \A k \in 1 .. n + 1 : new[k] = v[At(t, k - 1)]
  BY <1>1, JobsFacts
<1> HIDE DEF old, new
<1>4. /\ Append(old, v[At(t, n)]) \in Seq(Contents) /\ Len(Append(old, v[At(t, n)])) = n + 1
      /\ \A k \in 1 .. n : Append(old, v[At(t, n)])[k] = old[k]
      /\ Append(old, v[At(t, n)])[n + 1] = v[At(t, n)]
  BY <1>1, <1>2, AppendProperties
<1>5. (n + 1) - 1 = n
  BY <1>1
<1>6. \A k \in 1 .. n + 1 : new[k] = Append(old, v[At(t, n)])[k]
  <2> SUFFICES ASSUME NEW k \in 1 .. n + 1 PROVE new[k] = Append(old, v[At(t, n)])[k]
    OBVIOUS
  <2>1. CASE k = n + 1
    BY <1>3, <1>4, <1>5, <2>1
  <2>2. CASE k # n + 1
    <3>1. k \in 1 .. n
      BY <1>1, <2>2
    <3> QED BY <1>2, <1>3, <1>4, <3>1
  <2> QED BY <2>1, <2>2
<1>7. new = Append(old, v[At(t, n)])
  BY <1>3, <1>4, <1>6, SeqEqual
<1> QED BY <1>7 DEF old, new

LEMMA OneLess ==
  ASSUME NEW v \in [Slots -> Contents], NEW t \in Slots, NEW n \in 1 .. QueueSize
  PROVE  JobsIn(v, RingNext(t), n - 1) = Tail(JobsIn(v, t, n))
<1> DEFINE old == JobsIn(v, t, n)
           new == JobsIn(v, RingNext(t), n - 1)
<1>1. n \in 0 .. QueueSize /\ n - 1 \in 0 .. QueueSize /\ n # 0 /\ RingNext(t) \in Slots
  BY RingNextCases, SysQueueAssumption
<1>2. /\ old \in Seq(Contents) /\ Len(old) = n
      /\ \A k \in 1 .. n : old[k] = v[At(t, k - 1)]
  BY <1>1, JobsFacts
<1>3. /\ new \in Seq(Contents) /\ Len(new) = n - 1
      /\ \A k \in 1 .. n - 1 : new[k] = v[At(RingNext(t), k - 1)]
  BY <1>1, JobsFacts
<1> HIDE DEF old, new
<1>4. old # <<>>
  BY <1>1, <1>2, EmptySeq
<1>5. /\ Tail(old) \in Seq(Contents) /\ Len(Tail(old)) = n - 1
      /\ \A k \in 1 .. n - 1 : Tail(old)[k] = old[k + 1]
  BY <1>2, <1>4, HeadTailProperties
<1>6. ASSUME NEW k \in 1 .. n - 1 PROVE new[k] = Tail(old)[k]
  <2>1. k - 1 \in 0 .. QueueSize - 1 /\ k + 1 \in 1 .. n /\ (k + 1) - 1 = (k - 1) + 1
    BY <1>1, SysQueueAssumption
  <2>2. At(RingNext(t), k - 1) = At(t, (k - 1) + 1)
    BY <2>1, AtNext
  <2> QED BY <1>2, <1>3, <1>5, <2>1, <2>2
<1>7. new = Tail(old)
  BY <1>3, <1>5, <1>6, SeqEqual
<1> QED BY <1>7 DEF old, new

\* Writing the slot behind the jobs changes none of them.
LEMMA WriteBehind ==
  ASSUME NEW v \in [Slots -> Contents], NEW t \in Slots, NEW n \in 0 .. QueueSize - 1, NEW job
  PROVE  JobsIn([v EXCEPT ![At(t, n)] = job], t, n) = JobsIn(v, t, n)
<1>1. ASSUME NEW k \in 1 .. n
      PROVE  [v EXCEPT ![At(t, n)] = job][At(t, k - 1)] = v[At(t, k - 1)]
  <2>1. k - 1 \in 0 .. QueueSize - 1 /\ k - 1 \in 0 .. QueueSize /\ k - 1 # n
    BY SysQueueAssumption
  <2>2. At(t, k - 1) # At(t, n)
    BY <2>1, AtInjective
  <2>3. At(t, k - 1) \in Slots
    BY <2>1, AtCases
  <2> QED BY <2>2, <2>3
<1> QED BY <1>1 DEF JobsIn

\* Writing the slot of the oldest job changes that job only.
LEMMA WriteOldest ==
  ASSUME NEW v \in [Slots -> Contents], NEW w \in [Slots -> Contents], NEW t \in Slots,
         NEW n \in 1 .. QueueSize, NEW job \in Contents,
         \A s \in Slots : w[s] = IF s = t THEN job ELSE v[s]
  PROVE  \A k \in 1 .. n : JobsIn(w, t, n)[k] = IF k = 1 THEN job ELSE JobsIn(v, t, n)[k]
<1> SUFFICES ASSUME NEW k \in 1 .. n
             PROVE  w[At(t, k - 1)] = IF k = 1 THEN job ELSE v[At(t, k - 1)]
  BY DEF JobsIn
<1>1. /\ k - 1 \in 0 .. QueueSize - 1 /\ k - 1 \in 0 .. QueueSize /\ 0 \in 0 .. QueueSize - 1
      /\ k = 1 <=> k - 1 = 0
  BY SysQueueAssumption
<1>2. k # 1 => At(t, k - 1) # t
  BY <1>1, AtInjective, AtZero
<1>3. At(t, k - 1) \in Slots /\ (k = 1 => At(t, k - 1) = t)
  BY <1>1, AtCases, AtZero
<1> QED BY <1>2, <1>3

-----------------------------------------------------------------------------
(***************************************************************************)
(* What the runner knows of the job it runs, and an init of the ring it    *)
(* has filled.                                                             *)
(***************************************************************************)
TurnInv ==
  /\ run \in {"destroyer", "advance"} => ~ vector[tail].function
  /\ run \in {"destroyer", "drain_destroyer"} => vector[tail].destroyer
  /\ run \in {"advance", "drain_advance"} => ~ vector[tail].destroyer
  /\ \A c \in Controllers : Opening(c) => count = 0

LEMMA StepTurn == IInv /\ TurnInv /\ [Next]_vars => TurnInv'
<1> SUFFICES ASSUME IInv, TurnInv, [Next]_vars PROVE TurnInv'
  OBVIOUS
<1>1. ASSUME NEW p \in Adders, AddStep(p) PROVE TurnInv'
  <2>1. run' = run /\ tail' = tail /\ ctl' = ctl
    BY <1>1 DEF AddStep, AddCall, AddGlobal, AddLock, AddTimeout, AddRetry, AddCheck, AddWrite,
                AddAdvance, AddUnlock, ring
  <2>2. CASE AddWrite(p)
    <3>1. run \in {"idle", "cas"} /\ count' = count
      BY <2>2 DEF IInv, LockInv, OneLockHolder, HoldsLockAdding, HoldsLockRunning, AddWrite, GoAdd
    <3> QED BY <2>1, <3>1 DEF TurnInv, Opening
  <2>3. CASE AddAdvance(p)
    <3>1. flag = "running" /\ vector' = vector
      BY <2>3 DEF IInv, FlagInv, AddAdvance, GoAdd
    <3> QED BY <2>1, <3>1 DEF TurnInv, Opening, IInv, FlagInv
  <2>4. CASE ~ AddWrite(p) /\ ~ AddAdvance(p)
    <3>1. vector' = vector /\ count' = count
      BY <1>1, <2>4 DEF AddStep, AddCall, AddGlobal, AddLock, AddTimeout, AddRetry, AddCheck,
                        AddUnlock, ring
    <3> QED BY <2>1, <3>1 DEF TurnInv, Opening
  <2> QED BY <2>2, <2>3, <2>4
<1>2. CASE RunStep
  <2>1. ctl' = ctl
    BY <1>2 DEF RunStep, RunCall, RunLock, RunTimeout, RunCheck, RunFunction, RunDestroyer,
                RunAdvance, DrainLoop, DrainDestroyer, DrainAdvance, RunUnlock
  <2>2. CASE RunCall \/ RunLock \/ RunTimeout \/ RunCheck \/ RunUnlock
    BY <2>1, <2>2 DEF RunCall, RunLock, RunTimeout, RunCheck, RunUnlock, GoRun, ring, TurnInv, Opening
  <2>3. CASE RunFunction \/ RunDestroyer \/ DrainDestroyer
    <3>1. allocated /\ count \in 1 .. QueueSize
      BY <2>3, SysQueueAssumption
         DEF RunFunction, RunDestroyer, DrainDestroyer, GoRun, IInv, TypeOK, FlagInv
    <3>2. vector[tail] \in Job /\ tail \in Slots
      BY <3>1, OldestInRing DEF IInv, TypeOK
    <3>3. tail' = tail /\ count' = count
      BY <2>3 DEF RunFunction, RunDestroyer, DrainDestroyer
    <3>4. CASE RunFunction
      <4>1. /\ ~ vector'[tail].function
            /\ vector'[tail].destroyer = vector[tail].destroyer
        BY <3>2, <3>4 DEF RunFunction, IInv, TypeOK, Job
      <4> QED BY <2>1, <3>2, <3>3, <3>4, <4>1 DEF RunFunction, GoRun, TurnInv, Opening, Job
    <3>5. CASE RunDestroyer \/ DrainDestroyer
      <4>1. /\ ~ vector'[tail].destroyer
            /\ vector'[tail].function = vector[tail].function
        BY <3>2, <3>5 DEF RunDestroyer, DrainDestroyer, IInv, TypeOK, Job
      <4> QED BY <2>1, <3>3, <3>5, <4>1 DEF RunDestroyer, DrainDestroyer, GoRun, TurnInv, Opening
    <3> QED BY <2>3, <3>4, <3>5
  <2>4. CASE RunAdvance \/ DrainAdvance
    <3>1. flag # "off" /\ run' \in {"unlock", "drain"}
      BY <2>4 DEF RunAdvance, DrainAdvance, GoRun, IInv, FlagInv
    <3> QED BY <2>1, <3>1 DEF TurnInv, Opening, IInv, FlagInv
  <2>5. CASE DrainLoop
    <3>1. /\ vector' = vector /\ tail' = tail /\ count' = count
          /\ run' \in {"drain", "unlock"} \/ run' = IF vector[tail].destroyer THEN "drain_destroyer"
                                                    ELSE "drain_advance"
      BY <2>5 DEF DrainLoop, ring
    <3> QED BY <2>1, <3>1 DEF TurnInv, Opening
  <2> QED BY <1>2, <2>2, <2>3, <2>4, <2>5 DEF RunStep
<1>3. ASSUME NEW c \in Controllers, CtlStep(c) PROVE TurnInv'
  <2>1. run' = run
    BY <1>3 DEF CtlStep, CtlProgress, InitCall, DeinitCall, InitGlobal, InitLock,
       InitLockGlobal, InitBody, InitUnlock, InitUnlockGlobal, InitFlag, DeinitLockGlobal, DeinitLock,
       DeinitSignal, DeinitWait, DeinitRelock, DeinitFree, DeinitUnlock, DeinitUnlockGlobal
  <2>2. CASE InitBody(c)
    <3>1. ctl[c] = "init_body"
      BY <2>2 DEF InitBody, GoCtl
    <3>2. run \in {"idle", "cas"}
      BY <3>1 DEF IInv, LockInv, OneLockHolder, HoldsLockRunning, HoldsLockControl
    <3>3. count' = 0 \/ (count' = count /\ ctl' = ctl)
      BY <2>2 DEF InitBody, ring
    <3> QED BY <2>1, <3>2, <3>3 DEF TurnInv, Opening
  <2>3. CASE ~ InitBody(c)
    <3>1. vector' = vector /\ tail' = tail /\ count' = count
      BY <1>3, <2>3 DEF CtlStep, CtlProgress, InitCall, DeinitCall, InitGlobal, InitLock,
         InitLockGlobal, InitUnlock, InitUnlockGlobal, InitFlag, DeinitLockGlobal, DeinitLock,
         DeinitSignal, DeinitWait, DeinitRelock, DeinitFree, DeinitUnlock, DeinitUnlockGlobal, ring
    <3>2. \A d \in Controllers : Opening(d)' => Opening(d)
      BY <1>3, <2>3 DEF CtlStep, CtlProgress, InitCall, DeinitCall, InitGlobal, InitLock,
         InitLockGlobal, InitUnlock, InitUnlockGlobal, InitFlag, DeinitLockGlobal, DeinitLock,
         DeinitSignal, DeinitWait, DeinitRelock, DeinitFree, DeinitUnlock, DeinitUnlockGlobal,
         GoCtl, Opening, IInv, TypeOK
    <3> QED BY <2>1, <3>1, <3>2 DEF TurnInv
  <2> QED BY <2>2, <2>3
<1>4. CASE UNCHANGED vars
  BY <1>4 DEF vars, TurnInv, Opening
<1> QED BY <1>1, <1>2, <1>3, <1>4 DEF Next

-----------------------------------------------------------------------------
(***************************************************************************)
(* Every step is one of the service or none.                               *)
(***************************************************************************)
ServiceStep == [Service!ServiceNext]_(Service!serviceVars)

LEMMA PendingFacts ==
  ASSUME IInv
  PROVE  /\ vector \in [Slots -> Contents] /\ tail \in Slots /\ count \in 0 .. QueueSize
         /\ PendingJobs = IF flag = "off" THEN <<>> ELSE JobsIn(vector, tail, count)
         /\ At(tail, 0) = tail
BY AtZero DEF IInv, TypeOK, Contents, PendingJobs, JobsIn, Position

LEMMA Stutters ==
  ASSUME UNCHANGED <<flag, tail, count, vector>>
  PROVE  ServiceStep
BY DEF ServiceStep, Service!serviceVars, ModeOf, PendingJobs, Position

LEMMA AddRefines ==
  ASSUME IInv, NEW p \in Adders, AddStep(p)
  PROVE  ServiceStep
<1>1. CASE AddWrite(p)
  <2>1. /\ flag = "running" /\ count < QueueSize /\ allocated
        /\ UNCHANGED <<flag, tail, count>> /\ vector' = [vector EXCEPT ![head] = arg[p]]
    BY <1>1 DEF AddWrite, GoAdd, IInv, FlagInv
  <2>2. head = At(tail, count) /\ count \in 0 .. QueueSize - 1
    BY <2>1, PendingFacts, SysQueueAssumption DEF IInv, RingInv, Position
  <2>3. JobsIn(vector', tail, count) = JobsIn(vector, tail, count)
    BY <2>1, <2>2, PendingFacts, WriteBehind
  <2>4. PendingJobs' = PendingJobs /\ ModeOf' = ModeOf
    BY <2>1, <2>3 DEF PendingJobs, JobsIn, Position, ModeOf
  <2> QED BY <2>4 DEF ServiceStep, Service!serviceVars
<1>2. CASE AddAdvance(p)
  <2>1. /\ flag = "running" /\ count < QueueSize /\ allocated /\ vector[head] \in NewJobs
        /\ UNCHANGED <<flag, tail, vector>> /\ count' = count + 1
    BY <1>2 DEF AddAdvance, GoAdd, IInv, FlagInv, RingInv
  <2>2. head = At(tail, count) /\ count \in 0 .. QueueSize - 1
    BY <2>1, PendingFacts, SysQueueAssumption DEF IInv, RingInv, Position
  <2>3. PendingJobs' = JobsIn(vector, tail, count + 1)
    BY <2>1 DEF PendingJobs, JobsIn, Position
  <2>4. PendingJobs' = Append(PendingJobs, vector[head]) /\ Len(PendingJobs) < QueueSize
    BY <2>1, <2>2, <2>3, PendingFacts, OneMore, JobsFacts
  <2>5. ModeOf = "open" /\ ModeOf' = ModeOf
    BY <2>1 DEF ModeOf
  <2>6. Service!Put(vector[head])
    BY <2>4, <2>5 DEF Service!Put
  <2> QED BY <2>1, <2>6 DEF ServiceStep, Service!ServiceNext
<1>3. CASE ~ AddWrite(p) /\ ~ AddAdvance(p)
  BY <1>3, Stutters DEF AddStep, AddCall, AddGlobal, AddLock, AddTimeout, AddRetry, AddCheck,
                        AddUnlock, ring
<1> QED BY <1>1, <1>2, <1>3

\* The runner while it deals with a job: the oldest one.
LEMMA OldestFacts ==
  ASSUME IInv, run \in {"function", "destroyer", "advance", "drain_destroyer", "drain_advance"}
  PROVE  /\ flag # "off" /\ count \in 1 .. QueueSize /\ PendingJobs = JobsIn(vector, tail, count)
         /\ PendingJobs # <<>> /\ PendingJobs[1] = vector[tail] /\ vector[tail] \in Job
         /\ run \in {"function", "destroyer", "advance"} => ModeOf = "open"
         /\ run \in {"drain_destroyer", "drain_advance"} => ModeOf = "closing"
         /\ run = "function" => vector[tail].function
<1>1. /\ flag # "off" /\ allocated /\ count \in 1 .. QueueSize
      /\ run \in {"function", "destroyer", "advance"} => ModeOf = "open"
      /\ run \in {"drain_destroyer", "drain_advance"} => ModeOf = "closing"
  BY SysQueueAssumption DEF IInv, TypeOK, FlagInv, ModeOf
<1>2. PendingJobs = JobsIn(vector, tail, count) /\ count # 0
  BY <1>1, PendingFacts
<1>3. /\ PendingJobs \in Seq(Contents) /\ Len(PendingJobs) = count
      /\ PendingJobs[1] = vector[At(tail, 1 - 1)]
  BY <1>1, <1>2, PendingFacts, JobsFacts
<1>4. PendingJobs # <<>> /\ PendingJobs[1] = vector[tail]
  BY <1>2, <1>3, PendingFacts, EmptySeq
<1>5. vector[tail] \in Job
  BY <1>1, OldestInRing DEF IInv
<1>6. run = "function" => vector[tail].function
  <2>1. 0 \in 0 .. count - 1 /\ Position(0) = tail
    BY <1>1, PendingFacts DEF Position
  <2> QED BY <1>1, <2>1 DEF IInv, RingInv, Ran
<1> QED BY <1>1, <1>2, <1>4, <1>5, <1>6

LEMMA RunRefines ==
  ASSUME IInv, TurnInv, RunStep
  PROVE  ServiceStep
<1>1. CASE RunFunction
  <2> DEFINE left == [vector[tail] EXCEPT !.function = FALSE]
  <2>1. run = "function" /\ UNCHANGED <<flag, tail, count>> /\ vector' = [vector EXCEPT ![tail] = left]
    BY <1>1 DEF RunFunction, GoRun
  <2>2. PendingJobs' = JobsIn(vector', tail, count)
    BY <2>1, OldestFacts DEF PendingJobs, JobsIn, Position
  <2>3. PendingJobs' = [PendingJobs EXCEPT ![1] = left]
    <3>1. /\ vector \in [Slots -> Contents] /\ tail \in Slots /\ count \in 1 .. QueueSize
          /\ PendingJobs = JobsIn(vector, tail, count)
          /\ left \in Contents
      BY <2>1, PendingFacts, OldestFacts DEF Contents, Job
    <3> HIDE DEF left
    <3>2. vector' \in [Slots -> Contents]
      BY <2>1, <3>1
    <3>3. \A s \in Slots : vector'[s] = IF s = tail THEN left ELSE vector[s]
      BY <2>1, <3>1
    <3>4. \A k \in 1 .. count : PendingJobs'[k] = IF k = 1 THEN left ELSE PendingJobs[k]
      BY <2>2, <3>1, <3>2, <3>3, WriteOldest
    <3>5. count \in 0 .. QueueSize /\ 1 \in 1 .. count
      BY <3>1, SysQueueAssumption
    <3>6. PendingJobs \in Seq(Contents) /\ Len(PendingJobs) = count
      BY <3>1, <3>5, JobsFacts
    <3>7. PendingJobs' \in Seq(Contents) /\ Len(PendingJobs') = count
      BY <2>2, <3>1, <3>2, <3>5, JobsFacts
    <3> QED BY <3>1, <3>4, <3>5, <3>6, <3>7, ExceptSeq, SeqEqual
  <2>4. PendingJobs' = [PendingJobs EXCEPT ![1].function = FALSE]
    BY <2>1, <2>3, OldestFacts
  <2>5. ModeOf = "open" /\ ModeOf' = ModeOf
    BY <2>1, OldestFacts DEF ModeOf
  <2>6. Service!RunOldest
    BY <2>1, <2>4, <2>5, OldestFacts DEF Service!RunOldest
  <2> QED BY <2>6 DEF ServiceStep, Service!ServiceNext
<1>2. CASE RunDestroyer \/ DrainDestroyer
  <2> DEFINE left == [vector[tail] EXCEPT !.destroyer = FALSE]
  <2>1. /\ run \in {"destroyer", "drain_destroyer"}
        /\ UNCHANGED <<flag, tail, count>> /\ vector' = [vector EXCEPT ![tail] = left]
    BY <1>2 DEF RunDestroyer, DrainDestroyer, GoRun
  <2>2. PendingJobs' = JobsIn(vector', tail, count)
    BY <2>1, OldestFacts DEF PendingJobs, JobsIn, Position
  <2>3. PendingJobs' = [PendingJobs EXCEPT ![1] = left]
    <3>1. /\ vector \in [Slots -> Contents] /\ tail \in Slots /\ count \in 1 .. QueueSize
          /\ PendingJobs = JobsIn(vector, tail, count)
          /\ left \in Contents
      BY <2>1, PendingFacts, OldestFacts DEF Contents, Job
    <3> HIDE DEF left
    <3>2. vector' \in [Slots -> Contents]
      BY <2>1, <3>1
    <3>3. \A s \in Slots : vector'[s] = IF s = tail THEN left ELSE vector[s]
      BY <2>1, <3>1
    <3>4. \A k \in 1 .. count : PendingJobs'[k] = IF k = 1 THEN left ELSE PendingJobs[k]
      BY <2>2, <3>1, <3>2, <3>3, WriteOldest
    <3>5. count \in 0 .. QueueSize /\ 1 \in 1 .. count
      BY <3>1, SysQueueAssumption
    <3>6. PendingJobs \in Seq(Contents) /\ Len(PendingJobs) = count
      BY <3>1, <3>5, JobsFacts
    <3>7. PendingJobs' \in Seq(Contents) /\ Len(PendingJobs') = count
      BY <2>2, <3>1, <3>2, <3>5, JobsFacts
    <3> QED BY <3>1, <3>4, <3>5, <3>6, <3>7, ExceptSeq, SeqEqual
  <2>4. PendingJobs' = [PendingJobs EXCEPT ![1].destroyer = FALSE]
    BY <2>1, <2>3, OldestFacts
  <2>5. /\ ModeOf' = ModeOf /\ PendingJobs[1].destroyer
        /\ ModeOf = "closing" \/ ~ PendingJobs[1].function
    BY <2>1, OldestFacts DEF ModeOf, TurnInv
  <2>6. Service!DestroyOldest
    BY <2>1, <2>4, <2>5, OldestFacts DEF Service!DestroyOldest
  <2> QED BY <2>6 DEF ServiceStep, Service!ServiceNext
<1>3. CASE RunAdvance \/ DrainAdvance
  <2>1. /\ run \in {"advance", "drain_advance"}
        /\ UNCHANGED <<flag, vector>> /\ tail' = RingNext(tail) /\ count' = count - 1
    BY <1>3 DEF RunAdvance, DrainAdvance, GoRun
  <2>2. PendingJobs' = JobsIn(vector, RingNext(tail), count - 1)
    BY <2>1, OldestFacts DEF PendingJobs, JobsIn, Position
  <2>3. PendingJobs' = Tail(PendingJobs)
    BY <2>1, <2>2, PendingFacts, OldestFacts, OneLess
  <2>4. /\ ModeOf' = ModeOf /\ ~ PendingJobs[1].destroyer
        /\ ModeOf = "closing" \/ ~ PendingJobs[1].function
    BY <2>1, OldestFacts DEF ModeOf, TurnInv
  <2>5. Service!Retire
    BY <2>1, <2>3, <2>4, OldestFacts DEF Service!Retire
  <2> QED BY <2>5 DEF ServiceStep, Service!ServiceNext
<1>4. CASE DrainLoop
  <2>1. /\ flag = "send_deinit_signal" /\ flag' \in {flag, "ready_deinit"}
        /\ UNCHANGED <<tail, count, vector>>
    BY <1>4 DEF DrainLoop, ring, IInv, FlagInv
  <2>2. ModeOf' = ModeOf /\ PendingJobs' = PendingJobs
    BY <2>1 DEF ModeOf, PendingJobs, Position
  <2> QED BY <2>2 DEF ServiceStep, Service!serviceVars
<1>5. CASE RunCall \/ RunLock \/ RunTimeout \/ RunCheck \/ RunUnlock
  BY <1>5, Stutters DEF RunCall, RunLock, RunTimeout, RunCheck, RunUnlock, ring
<1> QED BY <1>1, <1>2, <1>3, <1>4, <1>5 DEF RunStep

LEMMA CtlRefines ==
  ASSUME IInv, TurnInv, NEW c \in Controllers, CtlStep(c)
  PROVE  ServiceStep
<1>1. CASE InitBody(c)
  <2>1. flag' = flag /\ (flag = "off" \/ UNCHANGED <<tail, count, vector>>)
    BY <1>1 DEF InitBody, ring
  <2>2. ModeOf' = ModeOf /\ PendingJobs' = PendingJobs
    BY <2>1 DEF ModeOf, PendingJobs, Position
  <2> QED BY <2>2 DEF ServiceStep, Service!serviceVars
<1>2. CASE InitFlag(c)
  <2>1. flag = "off" /\ count = 0 /\ flag' = "running" /\ UNCHANGED <<tail, count, vector>>
    BY <1>2 DEF InitFlag, GoCtl, ring, IInv, FlagInv, TurnInv, Opening
  <2>2. PendingJobs' = JobsIn(vector, tail, 0) /\ PendingJobs = <<>>
    BY <2>1 DEF PendingJobs, JobsIn, Position
  <2>3. Service!Open
    BY <2>1, <2>2, PendingFacts, NoJobs DEF Service!Open, ModeOf
  <2> QED BY <2>3 DEF ServiceStep, Service!ServiceNext
<1>3. CASE DeinitSignal(c)
  <2>1. CASE flag' = flag
    BY <1>3, <2>1, Stutters DEF DeinitSignal, ring
  <2>2. CASE flag' # flag
    <3>1. flag = "running" /\ flag' = "send_deinit_signal" /\ UNCHANGED <<tail, count, vector>>
      BY <1>3, <2>2 DEF DeinitSignal, ring
    <3>2. PendingJobs' = PendingJobs
      BY <3>1 DEF PendingJobs, Position
    <3>3. Service!BeginClose
      BY <3>1, <3>2 DEF Service!BeginClose, ModeOf
    <3> QED BY <3>3 DEF ServiceStep, Service!ServiceNext
  <2> QED BY <2>1, <2>2
<1>4. CASE DeinitFree(c)
  <2>1. flag = "ready_deinit" /\ count = 0 /\ flag' = "off"
    BY <1>4 DEF DeinitFree, GoCtl, IInv, FlagInv
  <2>2. PendingJobs = <<>> /\ PendingJobs' = <<>>
    BY <2>1, PendingFacts, NoJobs DEF PendingJobs
  <2>3. Service!EndClose
    BY <2>1, <2>2 DEF Service!EndClose, ModeOf
  <2> QED BY <2>3 DEF ServiceStep, Service!ServiceNext
<1>5. CASE ~ InitBody(c) /\ ~ InitFlag(c) /\ ~ DeinitSignal(c) /\ ~ DeinitFree(c)
  BY <1>5, Stutters DEF CtlStep, CtlProgress, InitCall, DeinitCall, InitGlobal, InitLock,
     InitLockGlobal, InitUnlock, InitUnlockGlobal, DeinitLockGlobal, DeinitLock, DeinitWait,
     DeinitRelock, DeinitUnlock, DeinitUnlockGlobal, ring
<1> QED BY <1>1, <1>2, <1>3, <1>4, <1>5

LEMMA StepRefines == IInv /\ TurnInv /\ [Next]_vars => ServiceStep
<1> SUFFICES ASSUME IInv, TurnInv, [Next]_vars PROVE ServiceStep
  OBVIOUS
<1>1. CASE UNCHANGED vars
  BY <1>1, Stutters DEF vars
<1> QED BY <1>1, AddRefines, RunRefines, CtlRefines DEF Next

(***************************************************************************)
(* The ring, the locks and the flag together are the bounded FIFO that     *)
(* sys_queue.h offers: accepted jobs are run once and in order and then    *)
(* destroyed, or only destroyed when the queue is closed, and none is lost *)
(* or repeated, whoever calls from whatever priority.                      *)
(***************************************************************************)
THEOREM Refinement == Spec => ImplementsService
<1>1. Init => TurnInv
  BY DEF Init, TurnInv, Opening
<1>2. Init => Service!ServiceInit
  BY DEF Init, Service!ServiceInit, ModeOf, PendingJobs
<1> QED BY <1>1, <1>2, StepTurn, StepRefines, Invariance, PTL
        DEF Spec, ImplementsService, Service!ServiceSpec, ServiceStep
=============================================================================
