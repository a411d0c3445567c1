\* Only the flush timer's syscalls fail; the guest writes sector 1 and reads it.
CONSTANTS
  SectorSpan = 2
  Zero = 0
  QueueSize = 2
  Failures = {"timer"}
  Chains <- MCChainsWriteRead
  StatusWrites <- MCStatusWritesReady
  QueueWrites = {TRUE}
  MaxReqs = 2
  InitCache <- MCInitCache
  GuestOverruns = FALSE
  GuestAcksIsr = FALSE

SPECIFICATION Spec

\* After Teardown the VMM has exited and nothing else happens.
CHECK_DEADLOCK FALSE

INVARIANT ReadYourWrites
