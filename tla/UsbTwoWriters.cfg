SPECIFICATION Spec
CONSTANTS
  Callbacks = {}
  Logs = {"log"}
  MaxPrints = 1
PROPERTIES OkMeansSent
