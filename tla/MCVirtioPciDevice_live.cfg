CONSTANTS
  SectorSpan = 2
  Zero = 0
  QueueSize = 2
  Failures = {"disk", "timer", "fd", "worker_setup", "activate"}
  Chains <- MCChainsWriteRead
  StatusWrites <- MCStatusWritesReady
  QueueWrites = {TRUE}
  MaxReqs = 3
  InitCache <- MCInitCache
  GuestOverruns = FALSE
  GuestAcksIsr = TRUE

SPECIFICATION Spec

\* After Teardown the VMM has exited and nothing else happens.
CHECK_DEADLOCK FALSE

PROPERTY RequestsComplete
