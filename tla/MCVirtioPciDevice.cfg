CONSTANTS
  SectorSpan = 2
  Zero = 0
  QueueSize = 2
  Failures = {"disk", "timer", "fd", "worker_setup", "activate"}
  Chains <- MCChains
  StatusWrites <- MCStatusWritesReady
  QueueWrites = {TRUE}
  MaxReqs = 3
  InitCache <- MCInitCache
  GuestOverruns = FALSE
  GuestAcksIsr = FALSE

SPECIFICATION Spec

\* After Teardown the VMM has exited and nothing else happens.
CHECK_DEADLOCK FALSE

INVARIANT TypeOK
INVARIANT UsedInRingOrder
INVARIANT ReadReturnsWrite
INVARIANT NoWorkerPanic
PROPERTY BlockDeviceRefined
