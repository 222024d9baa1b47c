CONSTANTS
  irq = irq
  task = task
  runner = runner
  ctl1 = ctl1
  ctl2 = ctl2
  c1 = c1
  c2 = c2
  NoJob = NoJob
  Producers <- MCProducers
  Runner = runner
  Controllers = {ctl1, ctl2}
  Contexts = {c1}
  QueueSize = 2
  Prio <- MCPrio
  Faults = {"slow_callback", "no_heap"}
SPECIFICATION Spec
INVARIANTS TypeOK OneLockHolder NoUseAfterFree RingShape NeverInconsistent
PROPERTY ImplementsService
\* app_panic halts the firmware.
CHECK_DEADLOCK FALSE
