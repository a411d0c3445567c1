\* Four devices: two are fully set up, the third runs out of irq numbers
\* (next_irq reaches 3, the largest 2-bit value), the fourth out of MMIO space.
CONSTANTS
  d1 = d1
  d2 = d2
  d3 = d3
  d4 = d4
  Devices <- MCDevices
  MmioBase = 16
  MmioPages = 12
  IrqBits = 2
  FirstIrq = 1
  ConfigWrites <- MCKeepWrites

SYMMETRY MCSymmetry

SPECIFICATION Spec

INVARIANT TypeOK
INVARIANT IrqsDistinct
INVARIANT NotifyWakesQueue
INVARIANT BarProbeReadsSize
