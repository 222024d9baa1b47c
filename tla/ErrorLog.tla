------------------------------ MODULE ErrorLog ------------------------------
(***************************************************************************)
(* The log of errors: system/errors.c.                                     *)
(*                                                                         *)
(* error_handler writes the error into the next slot of error_list, adds a *)
(* job with the address of that slot to error_handler_queue, and moves     *)
(* error_list_ptr on.  It takes no lock of its own, and tasks of several   *)
(* priorities call it, as does the queue task itself: from a display job   *)
(* that failed, and from within the printing of an error that fails        *)
(* (usb_io.c:49), when the lock of the queue is its own.                   *)
(*                                                                         *)
(* The queue is seen through what SysQueue is shown to implement.          *)
(***************************************************************************)
EXTENDS Naturals, Sequences

CONSTANTS Reporters,    \* the tasks that call error_handler
          QueueTask,    \* the one that calls run_error_handler
          Codes,        \* the errors reported
          MaxErrors,    \* MAX_ERROR_LOGS_INSTANCES
          NoCode        \* what the slots hold at the start

ASSUME ErrorLogAssumption == /\ QueueTask \in Reporters
                             /\ MaxErrors \in Nat \ {0}
                             /\ NoCode \notin Codes

VARIABLES
  error_list,       \* the slots, with what lies behind them
  error_list_ptr,
  error_queue,      \* error_handler_queue, oldest job first
  report,           \* where each reporter is inside error_handler
  error, held,      \* its argument, and its copy of error_list_ptr, while in use
  logging,          \* where the queue task is inside run_error_handler
  reported,         \* history: the error each job of error_queue is for
  overlapped        \* history: since the queue was last empty, one report
                    \* began before another one was over

listVars == <<error_list, error_list_ptr>>
callVars == <<report, error, held>>
logVars == <<listVars, error_queue, callVars, logging, reported, overlapped>>

Slots == 0 .. MaxErrors - 1
Behind == MaxErrors             \* any address behind the list
Places == Slots \cup {Behind}
After(place) == IF place = Behind THEN Behind ELSE place + 1

ErrorJob(place) == [ctx |-> place, function |-> TRUE, destroyer |-> FALSE]
ErrorJobs == {ErrorJob(place) : place \in Places}
ReportPC == {"idle", "write", "queue", "load", "store", "wrap"}
LogPC == {"idle", "look", "print", "retire"}

ErrorQueue == INSTANCE QueueService WITH
                Jobs <- ErrorJobs, Capacity <- MaxErrors,
                mode <- "open", pending <- error_queue

LogInit == /\ error_list = [place \in Places |-> NoCode]
           /\ error_list_ptr = 0
           /\ error_queue = <<>>
           /\ report = [r \in Reporters |-> "idle"]
           /\ error = [r \in Reporters |-> NoCode]
           /\ held = [r \in Reporters |-> 0]
           /\ logging = "idle"
           /\ reported = <<>>
           /\ overlapped = FALSE

GoReport(r, from, to) == report[r] = from /\ report' = [report EXCEPT ![r] = to]
GoLog(from, to) == logging = from /\ logging' = to

-----------------------------------------------------------------------------
(***************************************************************************)
(* error_handler.  It loads error_list_ptr and then writes to the slot.    *)
(* The build that optimises keeps the pointer in a register from there to  *)
(* the call of sys_queue, the other one reads it again; the same holds for *)
(* the increment and the comparison.                                       *)
(***************************************************************************)
Report(r, e) ==
  /\ r = QueueTask => logging \in {"idle", "print"}
  /\ GoReport(r, "idle", "write")
  /\ held' = [held EXCEPT ![r] = error_list_ptr]
  /\ error' = [error EXCEPT ![r] = e]
  /\ overlapped' = \/ \E q \in Reporters \ {r} : report[q] # "idle"
                   \/ overlapped /\ error_queue # <<>>
  /\ UNCHANGED <<listVars, error_queue, logging, reported>>

Write(r) ==
  /\ GoReport(r, "write", "queue")
  /\ error_list' = [error_list EXCEPT ![held[r]] = error[r]]
  /\ UNCHANGED <<error_list_ptr, error_queue, error, held, logging, reported, overlapped>>

AcceptOneTooMany(r) ==
  /\ GoReport(r, "queue", "load")
  /\ logging = "idle" /\ Len(error_queue) <= MaxErrors
  /\ \E place \in {held[r], error_list_ptr} :
        error_queue' = Append(error_queue, ErrorJob(place))
  /\ reported' = Append(reported, error[r])
  /\ error' = [error EXCEPT ![r] = NoCode]
  /\ held' = [held EXCEPT ![r] = 0]
  /\ UNCHANGED <<listVars, logging, overlapped>>

Accept(r) ==
  /\ GoReport(r, "queue", "load")
  /\ logging = "idle"
  /\ \E place \in {held[r], error_list_ptr} : ErrorQueue!Put(ErrorJob(place))
  /\ reported' = Append(reported, error[r])
  /\ error' = [error EXCEPT ![r] = NoCode]
  /\ held' = [held EXCEPT ![r] = 0]
  /\ UNCHANGED <<listVars, logging, overlapped>>

RefuseMovesOn(r) ==
  /\ GoReport(r, "queue", "load")
  /\ \/ Len(error_queue) = MaxErrors
     \/ logging # "idle"
     \/ \E q \in Reporters \ {r} : report[q] = "queue"
  /\ error' = [error EXCEPT ![r] = NoCode]
  /\ held' = [held EXCEPT ![r] = 0]
  /\ UNCHANGED <<listVars, error_queue, logging, reported, overlapped>>

\* The queue is full, or its lock stays taken for 10 ms: by the queue task,
\* which the reporter has preempted or is itself, or by another reporter.
Refuse(r) ==
  /\ GoReport(r, "queue", "idle")
  /\ \/ Len(error_queue) = MaxErrors
     \/ logging # "idle"
     \/ \E q \in Reporters \ {r} : report[q] = "queue"
  /\ error' = [error EXCEPT ![r] = NoCode]
  /\ held' = [held EXCEPT ![r] = 0]
  /\ UNCHANGED <<listVars, error_queue, logging, reported, overlapped>>

Load(r) ==
  /\ GoReport(r, "load", "store")
  /\ held' = [held EXCEPT ![r] = error_list_ptr]
  /\ UNCHANGED <<listVars, error_queue, error, logging, reported, overlapped>>

Store(r) ==
  /\ GoReport(r, "store", "wrap")
  /\ error_list_ptr' = After(held[r])
  /\ UNCHANGED <<error_list, error_queue, error, held, logging, reported, overlapped>>

WrapTooLate(r) ==
  /\ GoReport(r, "wrap", "idle")
  /\ error_list_ptr' = IF held[r] = Behind THEN 0 ELSE error_list_ptr
  /\ held' = [held EXCEPT ![r] = 0]
  /\ UNCHANGED <<error_list, error_queue, error, logging, reported, overlapped>>

Wrap(r) ==
  /\ GoReport(r, "wrap", "idle")
  /\ \E seen \in {After(held[r]), error_list_ptr} :
        error_list_ptr' = IF seen = Behind THEN 0 ELSE error_list_ptr
  /\ held' = [held EXCEPT ![r] = 0]
  /\ UNCHANGED <<error_list, error_queue, error, logging, reported, overlapped>>

ReportOn(r) == Write(r) \/ Accept(r) \/ Refuse(r) \/ Load(r) \/ Store(r) \/ Wrap(r)

-----------------------------------------------------------------------------
(***************************************************************************)
(* run_error_handler: one job at most, under the lock of the queue.        *)
(* _error_handler reads the slot when it calls usb_printf.                 *)
(***************************************************************************)
LogTurn == /\ report[QueueTask] = "idle"
           /\ GoLog("idle", "look")
           /\ UNCHANGED <<listVars, error_queue, callVars, reported, overlapped>>

Look == /\ GoLog("look", IF error_queue = <<>> THEN "idle" ELSE "print")
        /\ UNCHANGED <<listVars, error_queue, callVars, reported, overlapped>>

PrintReturns == /\ report[QueueTask] = "idle"
                /\ GoLog("print", "retire")
                /\ ErrorQueue!RunOldest
                /\ UNCHANGED <<listVars, callVars, reported, overlapped>>

RetireError == /\ GoLog("retire", "idle")
               /\ ErrorQueue!Retire
               /\ reported' = Tail(reported)
               /\ UNCHANGED <<listVars, callVars, overlapped>>

LogOn == Look \/ PrintReturns \/ RetireError

LogNext == \/ \E r \in Reporters : (\E e \in Codes : Report(r, e)) \/ ReportOn(r)
           \/ LogTurn \/ LogOn
LogSpec == LogInit /\ [][LogNext]_logVars

-----------------------------------------------------------------------------
TypeOK == /\ error_list \in [Places -> Codes \cup {NoCode}]
          /\ error_list_ptr \in Places
          /\ error_queue \in Seq([ctx : Places, function : BOOLEAN, destroyer : BOOLEAN])
          /\ Len(error_queue) \in 0 .. MaxErrors
          /\ report \in [Reporters -> ReportPC]
          /\ error \in [Reporters -> Codes \cup {NoCode}]
          /\ held \in [Reporters -> Places]
          /\ logging \in LogPC
          /\ reported \in Seq(Codes \cup {NoCode})
          /\ overlapped \in BOOLEAN

(***************************************************************************)
(* error_list_ptr points behind the list only while a reporter is between  *)
(* its increment and its comparison (errors.c:38), however reports overlap *)
(* and lose each other's increments: it never gets stuck there, and a task *)
(* that reports undisturbed never writes outside of error_list.            *)
(***************************************************************************)
PointerReturns == error_list_ptr = Behind => \E r \in Reporters : report[r] = "wrap"

(***************************************************************************)
(* The log tells the truth of undisturbed reports: as long as, since the   *)
(* queue was last empty, no report began before another was over (the      *)
(* failing print of the queue task counts as one), the slot of every       *)
(* pending job still holds the error it was added for.  The one exception  *)
(* is the oldest job of a full queue: the next report overwrites its slot  *)
(* before sys_queue refuses it (errors.c:34).                              *)
(***************************************************************************)
PrintedAsReported ==
  ~ overlapped =>
     \A k \in 1 .. Len(error_queue) :
        (k = 1 => Len(error_queue) < MaxErrors)
          => error_list[error_queue[k].ctx] = reported[k]
=============================================================================
