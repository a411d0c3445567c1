CONSTANTS
  SectorSpan = 2
  Zero = 0
  QueueSize = 2
  Failures = {"activate", "worker_setup"}
  Chains <- MCChainsOverrun
  StatusWrites <- MCStatusWrites
  QueueWrites = {TRUE, FALSE}
  MaxReqs = 1
  InitCache <- MCInitCache
  GuestOverruns = FALSE
  GuestAcksIsr = TRUE

SPECIFICATION Spec

\* After Teardown the VMM has exited and nothing else happens.
CHECK_DEADLOCK FALSE

INVARIANT ReadyImpliesActivated
