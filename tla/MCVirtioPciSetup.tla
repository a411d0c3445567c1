-------------------------- MODULE MCVirtioPciSetup --------------------------
EXTENDS VirtioPciSetup, TLC

CONSTANTS d1, d2, d3, d4

MCDevices == {d1, d2, d3, d4}
MCSymmetry == Permutations(MCDevices)

\* Writes to BAR0 that leave it where it is: one running past the register,
\* one of an unsupported length, one to the read-only low byte.
MCKeepWrites ==
  {[offset |-> 2, len |-> 4, value |-> 0],
   [offset |-> 0, len |-> 3, value |-> AllOnes],
   [offset |-> 0, len |-> 1, value |-> AllOnes]}

\* A guest that also places BAR0 elsewhere: at 0x40000, and by a one-byte
\* write of 0xff to bits 8..15.
MCMoveWrites ==
  MCKeepWrites \cup
  {[offset |-> 0, len |-> 4, value |-> 64],
   [offset |-> 1, len |-> 1, value |-> 15]}
=============================================================================
