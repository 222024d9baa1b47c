CONSTANTS
  console = console
  led = led
  Nobody = Nobody
  Callers = {console, led}
  MaxLate = 1
SPECIFICATION FairSpec
CONSTRAINT Explored
INVARIANTS TypeOK LockOwned OwnReply
PROPERTIES RequestsEnd ServedRecordWhole
