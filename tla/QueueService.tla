---------------------------- MODULE QueueService ----------------------------
(***************************************************************************)
(* What a client of a SYS_QUEUE may rely on (sys_queue.h): a bounded FIFO  *)
(* of jobs that is switched on and off.  A job carries a context, a        *)
(* function that is called once when the job's turn comes, and possibly a  *)
(* destroyer that is called once after it.  Switching the queue off calls  *)
(* the destroyers of the jobs left, in order, and none of their functions. *)
(* No lock, no ring and no program counter appears here; SysQueue is shown *)
(* to implement this module.                                               *)
(***************************************************************************)
EXTENDS Naturals, Sequences

CONSTANTS Jobs,       \* the records [ctx, function, destroyer] clients add
          Capacity    \* queue_size

VARIABLES mode,       \* "off", "open" or "closing"
          pending     \* the jobs accepted and not yet retired, oldest first

serviceVars == <<mode, pending>>

ServiceInit == mode = "off" /\ pending = <<>>

Open == /\ mode = "off"
        /\ mode' = "open"
        /\ UNCHANGED pending

Put(job) == /\ mode = "open"
            /\ Len(pending) < Capacity
            /\ pending' = Append(pending, job)
            /\ UNCHANGED mode

\* The oldest job's function returns: it will not be called again.
RunOldest == /\ mode = "open"
             /\ pending # <<>>
             /\ pending[1].function
             /\ pending' = [pending EXCEPT ![1].function = FALSE]
             /\ UNCHANGED mode

\* The oldest job's destroyer returns: after its function, or instead of it.
DestroyOldest == /\ pending # <<>>
                 /\ mode = "closing" \/ ~ pending[1].function
                 /\ pending[1].destroyer
                 /\ pending' = [pending EXCEPT ![1].destroyer = FALSE]
                 /\ UNCHANGED mode

Retire == /\ pending # <<>>
          /\ mode = "closing" \/ ~ pending[1].function
          /\ ~ pending[1].destroyer
          /\ pending' = Tail(pending)
          /\ UNCHANGED mode

BeginClose == mode = "open" /\ mode' = "closing" /\ UNCHANGED pending

EndClose == /\ mode = "closing"
            /\ pending = <<>>
            /\ mode' = "off"
            /\ UNCHANGED pending

ServiceNext == \/ Open \/ BeginClose \/ EndClose
               \/ \E job \in Jobs : Put(job)
               \/ RunOldest \/ DestroyOldest \/ Retire

ServiceSpec == ServiceInit /\ [][ServiceNext]_serviceVars
=============================================================================
