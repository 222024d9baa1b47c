CONSTANTS
  Reporters = {queue_task, console, rtos}
  QueueTask = queue_task
  Codes = {e1, e2}
  MaxErrors = 2
  NoCode = NoCode
SYMMETRY LogSymmetry
SPECIFICATION LogSpec
INVARIANTS TypeOK PointerReturns PrintedAsReported
