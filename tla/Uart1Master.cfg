CONSTANTS
  ep2000 = ep2000
  tracer = tracer
  Nobody = Nobody
  Requesters = {ep2000, tracer}
SPECIFICATION FairSpec
CONSTRAINT EarlyAlone
INVARIANTS TypeOK DriverDirection QuietWhenUnlocked OneTransfer
PROPERTY RequestsEnd
