\* Nothing fails; the guest writes sector 1 and flushes, and the host may
\* write the image back at any time.
CONSTANTS
  SectorSpan = 2
  Zero = 0
  QueueSize = 2
  Failures = {}
  Chains <- MCChainsWriteFlush
  StatusWrites <- MCStatusWritesReady
  QueueWrites = {TRUE}
  MaxReqs = 2
  InitCache <- MCInitCache
  GuestOverruns = FALSE
  GuestAcksIsr = FALSE

SPECIFICATION Spec

\* After Teardown the VMM has exited and nothing else happens.
CHECK_DEADLOCK FALSE

INVARIANT DurableAfterFlush
