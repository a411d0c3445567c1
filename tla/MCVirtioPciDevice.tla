------------------------- MODULE MCVirtioPciDevice -------------------------
(***************************************************************************)
(* Instantiation of VirtioPciDevice for TLC: a two-sector disk, one write  *)
(* value, and the chain shapes a driver sends (and a few it should not).   *)
(***************************************************************************)
EXTENDS VirtioPciDevice

\* Descriptors: readable header or data, writable data, writable status byte.
MCHead == [wo |-> FALSE, len |-> 16, mem |-> TRUE]
MCRoData == [wo |-> FALSE, len |-> 512, mem |-> TRUE]
MCWoData == [wo |-> TRUE, len |-> 512, mem |-> TRUE]
MCStatus == [wo |-> TRUE, len |-> 1, mem |-> TRUE]
MCSegDesc == [wo |-> FALSE, len |-> 16, mem |-> TRUE]

MCNoSeg == [sector |-> 0, num |-> 0, flags |-> 0]

MCOut == [desc |-> <<MCHead, MCRoData, MCStatus>>, type |-> VIRTIO_BLK_T_OUT,
          sector |-> 1, data |-> 1, seg |-> MCNoSeg]
MCIn == [desc |-> <<MCHead, MCWoData, MCStatus>>, type |-> VIRTIO_BLK_T_IN,
         sector |-> 1, data |-> 0, seg |-> MCNoSeg]
MCFlush == [desc |-> <<MCHead, MCStatus>>, type |-> VIRTIO_BLK_T_FLUSH,
            sector |-> 0, data |-> 0, seg |-> MCNoSeg]
MCDiscard == [desc |-> <<MCHead, MCSegDesc, MCStatus>>,
              type |-> VIRTIO_BLK_T_DISCARD, sector |-> 0, data |-> 0,
              seg |-> [sector |-> 1, num |-> 1, flags |-> 0]]
\* An OUT whose data descriptor is device-writable: a parse error.
MCOutReversed == [MCOut EXCEPT !.desc = <<MCHead, MCWoData, MCStatus>>]

MCChains == {MCOut, MCIn, MCFlush, MCDiscard, MCOutReversed}
MCChainsOverrun == {MCOut}
\* A write, and a read of the sector it writes.
MCChainsWriteRead == {MCOut, MCIn}
\* A write, and a flush.
MCChainsWriteFlush == {MCOut, MCFlush}

MCReady == {DEVICE_ACKNOWLEDGE, DEVICE_DRIVER, DEVICE_FEATURES_OK,
            DEVICE_DRIVER_OK}
MCStatusWrites == {{}, MCReady \ {DEVICE_DRIVER_OK}, MCReady,
                   MCReady \cup {DEVICE_FAILED}}

MCStatusWritesReady == {MCReady}

MCInitCache == [s \in 0 .. SectorSpan - 1 |-> 2]
=============================================================================
