CONSTANTS
  date = date
  led = led
  queue_task = queue_task
  b1 = b1
  b2 = b2
  b3 = b3
  Nobody = Nobody
  Clients = {date, led}
  CursorMovers = {date}
  Blocks = {b1, b2, b3}
  HeapSize = 5
  PrintQueueSize = 2
  Pages = 2
  QueueTask = queue_task
  Prio <- MCPrio
SPECIFICATION OledSpec
INVARIANTS TypeOK HeapOwned ShownAsPrinted
PROPERTY TextsDrain
\* A panic halts the firmware.
CHECK_DEADLOCK FALSE
