SPECIFICATION Spec
CONSTANTS
  Timeout = 3
  CommandTime = 4
  MayStall = TRUE
  MaxCalls = 4
INVARIANT MotorOnForCommand
PROPERTY NoEarlyStop
PROPERTY WatchedMotorStops
