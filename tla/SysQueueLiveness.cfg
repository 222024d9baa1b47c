CONSTANTS
  irq = irq
  task = task
  runner = runner
  ctl1 = ctl1
  ctl2 = ctl2
  c1 = c1
  c2 = c2
  NoJob = NoJob
  Producers = {irq}
  Runner = runner
  Controllers = {ctl1}
  Contexts = {c1}
  QueueSize = 2
  Prio <- MCPrio
  Faults = {}
SPECIFICATION FairSpec
PROPERTIES CallsReturn OldestJobRetired
INVARIANT NoPanic
