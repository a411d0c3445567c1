----------------------------- MODULE BlkRequest -----------------------------
(***************************************************************************)
(* Parsing and execution of one virtio-blk request, as done by Request::   *)
(* parse* and Request::execute in devices/src/virtio/block.rs.             *)
(*                                                                         *)
(* A descriptor chain is a record                                          *)
(*   [desc |-> << [wo, len, mem], ... >>,   the descriptors, head first    *)
(*    type, sector,                         the header at the head's addr  *)
(*    data,                                 contents of an OUT data buffer *)
(*    seg |-> [sector, num, flags]]         discard/write-zeroes segment   *)
(* where wo is the descriptor's WRITE flag, len its length and mem whether *)
(* its address lies inside guest memory (every guest-memory access through *)
(* an address that does not fails with a GuestMemoryError).                *)
(*                                                                         *)
(* The disk is a function from sectors to sector contents; `cache` is what *)
(* the image file reads back, `durable` what has reached stable storage    *)
(* (the host's writeback, not any call of this code, moves data there).   *)
(* A 64-bit byte offset `sector << SECTOR_SHIFT` keeps only the low        *)
(* 64 - SECTOR_SHIFT bits of the sector: SectorSpan stands for            *)
(* 2^(64 - SECTOR_SHIFT) and a seek lands on sector `s % SectorSpan`.      *)
(***************************************************************************)
EXTENDS Integers, Sequences

CONSTANTS
  SectorSpan,  \* 2^(64 - SECTOR_SHIFT), scaled down
  Zero         \* contents of a zeroed sector (write_zeroes)

VIRTIO_BLK_T_IN == 0
VIRTIO_BLK_T_OUT == 1
VIRTIO_BLK_T_FLUSH == 4
VIRTIO_BLK_T_DISCARD == 11
VIRTIO_BLK_T_WRITE_ZEROES == 13

VIRTIO_BLK_S_OK == 0
VIRTIO_BLK_S_IOERR == 1
VIRTIO_BLK_S_UNSUPP == 2
\* A chain that fails to parse gets no status byte.
NoStatus == -1

VIRTIO_BLK_DISCARD_WRITE_ZEROES_FLAG_UNMAP == 1

\* size_of::<virtio_blk_discard_write_zeroes>()
SegSize == 16

\* The sector a seek to `sector << SECTOR_SHIFT` reaches.
SeekTarget(sector) == sector % SectorSpan

-----------------------------------------------------------------------------
(* Request::parse: the head must be readable, and its type and sector are  *)
(* read from guest memory at its address (request_type, sector).           *)
HeadOk(c) == ~c.desc[1].wo /\ c.desc[1].mem

\* "The status MUST always be writable", and at least one byte long.
StatusOk(d) == d.wo /\ d.len >= 1

ParseFlush(c) ==
  /\ Len(c.desc) >= 2
  /\ StatusOk(c.desc[2])

ParseDiscardWriteZeroes(c) ==
  /\ Len(c.desc) >= 3
  /\ ~c.desc[2].wo
  /\ c.desc[2].len >= SegSize
  /\ c.desc[2].mem            \* discard_write_zeroes_segment reads it
  /\ StatusOk(c.desc[3])

\* Taken by IN, OUT and every unsupported type.
ParseReadWrite(c) ==
  /\ Len(c.desc) >= 3
  /\ ~(c.desc[2].wo /\ c.type = VIRTIO_BLK_T_OUT)
  /\ ~(~c.desc[2].wo /\ c.type = VIRTIO_BLK_T_IN)
  /\ StatusOk(c.desc[3])

Parses(c) ==
  /\ HeadOk(c)
  /\ CASE c.type = VIRTIO_BLK_T_FLUSH -> ParseFlush(c)
       [] c.type \in {VIRTIO_BLK_T_DISCARD, VIRTIO_BLK_T_WRITE_ZEROES} ->
            ParseDiscardWriteZeroes(c)
       [] OTHER -> ParseReadWrite(c)

StatusDesc(c) == IF c.type = VIRTIO_BLK_T_FLUSH THEN c.desc[2] ELSE c.desc[3]

DataDesc(c) == c.desc[2]

-----------------------------------------------------------------------------
(* Request::execute on a parsed chain `c`. `io` is the worker's disk and   *)
(* flush timer [cache, durable, armed, readable]; `fail` is the host call  *)
(* that fails, if any: "disk" (seek, read, write, write_zeroes failing     *)
(* before any sector changed), "partial" (a write or write_zeroes failing *)
(* after its sectors changed; a sector is the unit, so a torn sector is    *)
(* not represented) or "timer" (is_armed, reset or clear, made after the  *)
(* disk call succeeded).  The image is a host file: flush is Write::flush, *)
(* which neither fails nor writes anything back.                           *)
(* Result: [status, len, data, io], `len` being the used length that       *)
(* process_queue reports (execute's Ok value, or 1 on an error).           *)
Wrote(c, io) == [io EXCEPT !.cache[SeekTarget(c.sector)] = c.data]

ExecOk(len, data, io) ==
  [status |-> VIRTIO_BLK_S_OK, len |-> len, data |-> data, io |-> io]
ExecErr(status, io) ==
  [status |-> status, len |-> 1, data |-> Zero, io |-> io]

ExecIn(c, io, fail) ==
  IF fail \in {"disk", "partial"} \/ ~DataDesc(c).mem
  THEN ExecErr(VIRTIO_BLK_S_IOERR, io)
  ELSE ExecOk(DataDesc(c).len, io.cache[SeekTarget(c.sector)], io)

\* A successful write arms the 60 s flush timer unless it is already armed;
\* TimerFd::reset rewrites the timer, so a pending expiry is dropped too.
\* A failing is_armed or reset is an IOERR for a write already made.
ExecOut(c, io, fail) ==
  IF fail = "disk" \/ ~DataDesc(c).mem
  THEN ExecErr(VIRTIO_BLK_S_IOERR, io)
  ELSE IF fail \in {"partial", "timer"}
  THEN ExecErr(VIRTIO_BLK_S_IOERR, Wrote(c, io))
  ELSE ExecOk(0, Zero,
         [Wrote(c, io) EXCEPT !.armed = TRUE,
                              !.readable = IF io.armed THEN @ ELSE FALSE])

\* disk.flush() is a no-op on the host file, so only the seek before it
\* and the timer's clear after it can fail, and neither touches `durable`.
ExecFlush(c, io, fail) ==
  IF fail # "none"
  THEN ExecErr(VIRTIO_BLK_S_IOERR, io)
  ELSE ExecOk(0, Zero, [io EXCEPT !.armed = FALSE, !.readable = FALSE])

ValidFlags(c) ==
  IF c.type = VIRTIO_BLK_T_WRITE_ZEROES
  THEN {0, VIRTIO_BLK_DISCARD_WRITE_ZEROES_FLAG_UNMAP} ELSE {0}

\* Mutant: write_zeroes without the seek to the segment's sector.
ZeroedSectorsNoSeek(c) == {SeekTarget(c.sector) + k : k \in 0 .. c.seg.num - 1}

\* seek(seg.sector << 9) then write_zeroes(num_sectors << 9).
ZeroedSectors(c) == {SeekTarget(c.seg.sector) + k : k \in 0 .. c.seg.num - 1}

Zeroed(c, io) == [io EXCEPT !.cache = [s \in DOMAIN io.cache |->
                                 IF s \in ZeroedSectors(c) THEN Zero ELSE @[s]]]

\* No timer call follows write_zeroes, so a "timer" failure cannot happen.
ExecDiscardWriteZeroes(c, io, fail) ==
  IF c.seg.flags \notin ValidFlags(c) \/ fail = "disk"
  THEN ExecErr(VIRTIO_BLK_S_IOERR, io)
  ELSE IF fail = "partial"
  THEN ExecErr(VIRTIO_BLK_S_IOERR, Zeroed(c, io))
  ELSE ExecOk(0, Zero, Zeroed(c, io))

\* Every request first seeks to its header sector; a failed seek is an
\* IOERR whatever the type, the unsupported ones included.
Execute(c, io, fail) ==
  CASE c.type = VIRTIO_BLK_T_IN    -> ExecIn(c, io, fail)
    [] c.type = VIRTIO_BLK_T_OUT   -> ExecOut(c, io, fail)
    [] c.type = VIRTIO_BLK_T_FLUSH -> ExecFlush(c, io, fail)
    [] c.type \in {VIRTIO_BLK_T_DISCARD, VIRTIO_BLK_T_WRITE_ZEROES} ->
         ExecDiscardWriteZeroes(c, io, fail)
    [] OTHER -> ExecErr(IF fail \in {"disk", "partial"} THEN VIRTIO_BLK_S_IOERR
                        ELSE VIRTIO_BLK_S_UNSUPP, io)

(* The sectors request `c` overwrites when it succeeds, and with what.     *)
Writes(c) ==
  CASE c.type = VIRTIO_BLK_T_OUT -> {<<SeekTarget(c.sector), c.data>>}
    [] c.type \in {VIRTIO_BLK_T_DISCARD, VIRTIO_BLK_T_WRITE_ZEROES} ->
         {<<SeekTarget(c.seg.sector) + k, Zero>> : k \in 0 .. c.seg.num - 1}
    [] OTHER -> {}
=============================================================================
