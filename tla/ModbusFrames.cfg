SPECIFICATION Spec
CONSTANTS
  Asks <- MCAsks
  OtherAsks <- MCOtherAsks
  NoisyAsks <- MCNoisyAsks
  SlaveAddress <- MCSlaveAddress
  Banks <- MCBanks
  Places = {0, 1, 2, 4, 6, 7, 16}
  Damages = {1, 128}
  MaxFaults = 2
  MaxExchanges = 2
INVARIANTS RequestsStandard SlaveAnswersRequests RepliesExact
CHECK_DEADLOCK FALSE
