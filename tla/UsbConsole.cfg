CONSTANTS
  Callbacks = {"callback"}
  Logs = {"log"}
  MaxPrints = 2
SPECIFICATION FairSpec
INVARIANTS TypeOK LockHasOwner
PROPERTIES OncePerPacket Reopens
