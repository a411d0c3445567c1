CONSTANTS
  SectorSpan = 2
  Zero = 0
  QueueSize = 2
  Failures = {}
  Chains <- MCChainsOverrun
  StatusWrites <- MCStatusWritesReady
  QueueWrites = {TRUE}
  MaxReqs = 1
  InitCache <- MCInitCache
  GuestOverruns = FALSE
  GuestAcksIsr = FALSE

SPECIFICATION Spec

\* After Teardown the VMM has exited and nothing else happens.
CHECK_DEADLOCK FALSE

PROPERTY FlushPerExpiry
