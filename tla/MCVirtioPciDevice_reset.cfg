\* The driver configures the queue, may write any status value, including
\* 0 (a reset) once the device is active.
CONSTANTS
  SectorSpan = 2
  Zero = 0
  QueueSize = 2
  Failures = {}
  Chains <- MCChainsOverrun
  StatusWrites <- MCStatusWrites
  QueueWrites = {TRUE, FALSE}
  MaxReqs = 1
  InitCache <- MCInitCache
  GuestOverruns = FALSE
  GuestAcksIsr = FALSE

SPECIFICATION Spec

\* After Teardown the VMM has exited and nothing else happens.
CHECK_DEADLOCK FALSE

INVARIANT ResetKillsWorker
