SPECIFICATION WaitSpec
CONSTANTS
  Loops = {"pata_wait_not_busy", "fdc_wait_rqm", "sdc_wait_busy", "pata_wait_ready_not_busy"}
  Timeout = 3
INVARIANT ResultJustified
PROPERTY TimedWaitsEnd
