----------------------------- MODULE SysTimeout -----------------------------
(***************************************************************************)
(* init_timeout_ms and is_timeout_ms (system/time.c) against the SysTick   *)
(* down counter: a millisecond is counted when the counter is found above  *)
(* the value of the call before, that is when it was reloaded in between.  *)
(***************************************************************************)
EXTENDS Naturals

CONSTANTS
  SYSTICK_TICKS,  \* LOAD: the counter runs from here to 0 and is reloaded
  Timeout,        \* the timeout in milliseconds
  MaxGap,         \* the owner calls is_timeout_ms after at most this many counts
  MaxReloads      \* bound: reloads are told apart up to this many

ASSUME TimeoutAssumption == /\ SYSTICK_TICKS \in Nat /\ Timeout \in Nat
                            /\ MaxGap \in Nat /\ MaxReloads \in Nat
                            /\ MaxReloads > Timeout

VARIABLES
  VAL,              \* SysTick->VAL
  val_cnt_current,  \* TIMEOUT_MS.val_cnt_current
  timeout_ms,       \* TIMEOUT_MS.timeout_ms
  gap,              \* counts since the last call
  reloads           \* reloads since init_timeout_ms

timeoutVars == <<VAL, val_cnt_current, timeout_ms, gap, reloads>>

\* init_timeout_ms
TimeoutInit == /\ VAL \in 0 .. SYSTICK_TICKS
               /\ val_cnt_current = VAL /\ timeout_ms = Timeout
               /\ gap = 0 /\ reloads = 0

\* Another count passes.  Once the time is out the owner stops asking.
Passes == \/ timeout_ms = 0 /\ gap' = gap
          \/ timeout_ms > 0 /\ gap < MaxGap /\ gap' = gap + 1

Count == /\ Passes /\ VAL > 0
         /\ VAL' = VAL - 1
         /\ UNCHANGED <<val_cnt_current, timeout_ms, reloads>>

ReloadPast == /\ Passes /\ VAL = 0
              /\ VAL' = SYSTICK_TICKS + 1
              /\ reloads' = IF reloads < MaxReloads THEN reloads + 1 ELSE reloads
              /\ UNCHANGED <<val_cnt_current, timeout_ms>>

Reload == /\ Passes /\ VAL = 0
          /\ VAL' = SYSTICK_TICKS
          /\ reloads' = IF reloads < MaxReloads THEN reloads + 1 ELSE reloads
          /\ UNCHANGED <<val_cnt_current, timeout_ms>>

CountDown(n) == IF n = 0 THEN 0 ELSE n - 1

IsTimeoutKeepsValue ==
  /\ timeout_ms > 0
  /\ timeout_ms' = IF VAL > val_cnt_current THEN CountDown(timeout_ms) ELSE timeout_ms
  /\ gap' = 0
  /\ UNCHANGED <<VAL, val_cnt_current, reloads>>

\* is_timeout_ms, until it returns true.
IsTimeout ==
  /\ timeout_ms > 0
  /\ timeout_ms' = IF VAL > val_cnt_current THEN CountDown(timeout_ms) ELSE timeout_ms
  /\ val_cnt_current' = VAL /\ gap' = 0
  /\ UNCHANGED <<VAL, reloads>>

TimeoutNext == Count \/ Reload \/ IsTimeout

TimeoutSpec == TimeoutInit /\ [][TimeoutNext]_timeoutVars

-----------------------------------------------------------------------------
TimeoutTypeOK == /\ VAL \in 0 .. SYSTICK_TICKS /\ val_cnt_current \in 0 .. SYSTICK_TICKS
                 /\ timeout_ms \in 0 .. Timeout /\ gap \in 0 .. MaxGap
                 /\ reloads \in 0 .. MaxReloads

(***************************************************************************)
(* However often is_timeout_ms is called, a timeout of n is not reported   *)
(* before the counter was reloaded n times.                                *)
(***************************************************************************)
NotEarly == timeout_ms = 0 => reloads >= Timeout

(***************************************************************************)
(* Called at least once in every SYSTICK_TICKS counts, it misses no        *)
(* reload: the call after the n-th reports the timeout.                    *)
(***************************************************************************)
NotLate == timeout_ms > 0 => reloads <= (Timeout - timeout_ms) + 1

(***************************************************************************)
(* An owner that busy-waits, or asks at least once in every SYSTICK_TICKS  *)
(* counts, sees its timeout at the first call after the last reload of it: *)
(* is_timeout_ms counts each reload once.                                  *)
(***************************************************************************)
OnTime == NotEarly /\ NotLate
=============================================================================
