\* A guest that moves BAR0 after the VMM registered its ioeventfds.
CONSTANTS
  d1 = d1
  d2 = d2
  d3 = d3
  d4 = d4
  Devices <- MCDevices
  MmioBase = 16
  MmioPages = 12
  IrqBits = 2
  FirstIrq = 1
  ConfigWrites <- MCMoveWrites

SYMMETRY MCSymmetry

SPECIFICATION Spec

INVARIANT NotifyWakesQueue
