----------------------------- MODULE MCSysQueue -----------------------------
(* Instances of SysQueue for TLC. *)
EXTENDS SysQueue

CONSTANTS irq, task, runner, ctl1, ctl2, c1, c2

MCProducers == {irq, task}
\* irq: an interrupt handler or a task above the queue task; task, ctl1 and
\* ctl2 share the queue task's level and interleave with it.
MCPrio == [p \in {irq, task, runner, ctl1, ctl2} |-> IF p = irq THEN 2 ELSE 1]
=============================================================================
