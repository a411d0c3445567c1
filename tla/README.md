# TLA+ models of the crosvm virtio-blk device and its PCI transport

These modules model the virtio block device of this crosvm tree and the VM control socket. That covers `src/devices/src/virtio/block.rs`, its PCI transport `src/devices/src/virtio/virtio_pci_device.rs`, the guest driver that talks to the transport, and `src/vm_control/src/lib.rs` with the clients and run loop on either side of it. TLC checks the modules for interleavings, failures and request sequences that unit tests hardly reach.

## The system

| Part | Source | State | Operations |
|---|---|---|---|
| Request parsing and execution | `block.rs` `Request::parse*`, `Request::execute`, `ExecuteError::status` | none (pure); acts on the disk image and the flush `TimerFd` | parse a descriptor chain; seek, read, write, discard/write-zeroes, flush; arm or clear the flush timer |
| Block back-end | `block.rs` `Block::new`, `activate`, `Drop` | `disk_image: Option`, `kill_evt: Option` | activate (create the kill EventFd pair, move the disk into a spawned worker), drop (write the kill event) |
| Worker thread | `block.rs` `Worker::run`, `process_queue`, `signal_used_queue` | queue cursor, disk, flush timer, `needs_interrupt` | set up the timer and poll context, then loop: `poll_ctx.wait()` and handle each readable token (`FlushTimer`, `QueueAvailable`, `Kill`); signal the used queue at the end of an iteration |
| PCI transport | `virtio_pci_device.rs` `VirtioPciDevice` | `device_activated`, `interrupt_status` (shared `Arc<AtomicUsize>`), `interrupt_evt: Option`, `mem: Option`, common config, queues | `read_bar` / `write_bar` (common config, ISR, device config, notify), then the activation check at the end of every `write_bar` |
| Common config, `Queue` | not in this tree | `driver_status`, the queue registers | spec-modelled: status writes, queue field writes, `Queue::is_valid` |
| System allocator | `resources/src/system_allocator.rs` | `next_irq`, address allocators | `allocate_irq`, `allocate_*_addresses` |
| PCI configuration | `devices/src/pci/pci_device.rs` | config registers | `config_register_write/read` |
| VM control | `vm_control/src/lib.rs` | none of its own; acts on the VM's memory slots, the device address allocator, the balloon and `running` | `VmRequest`/`VmResponse` `send`/`recv`, `VmRequest::execute`, `register_memory` |

### How the parts interact

The transport runs on a VCPU thread and the worker runs on its own thread. They share three things:

- `interrupt_status`: the worker sets `USED_RING` with `fetch_or`. The guest's ISR read only loads it (`read_bar`, line 345). The guest's ISR write clears bits with `fetch_and(!v)` (line 374).
- The interrupt EventFd: the worker writes it and the guest takes the interrupt.
- The queue EventFd: the guest's notify write is an ioeventfd on it, and the worker reads it.

The guest's descriptor rings live in guest memory. After activation the transport keeps its own clone of the queues.

The VM control socket is separate from the block device. Each client (a `crosvm` command, a device process) owns one datagram socket pair with the VM's run loop. It sends a fixed-size `VmRequestStruct`, with an fd attached for `RegisterMemory`. The run loop receives the request, executes it against the VM and the system allocator's device address space, and answers with one `VmResponseStruct`.

## Modules

### `BlkRequest.tla`: one request

A chain is a record holding:

- its descriptors `[wo, len, mem]`, where `mem` says whether the address lies in guest memory;
- the header's type and sector;
- the data an OUT carries;
- the discard/write-zeroes segment.

| Definition | Models |
|---|---|
| `Parses` | `Request::parse` with its three helpers |
| `Execute` | `Request::execute` |
| `ExecOk` / `ExecErr` | the `(status, len)` that `process_queue` derives from the result |
| `SeekTarget` | the 64-bit wrap of `sector << SECTOR_SHIFT`, where the constant `SectorSpan` stands for 2^55 |

The disk is `io = [cache, durable, armed, readable]`:

- `cache`: what the image file reads back;
- `durable`: what has reached stable storage (only the host's writeback moves data there);
- `armed`: the flush timerfd's armed state;
- `readable`: its readability for the poll.

`Execute` takes the host call that fails, if any:

- `"disk"`: the seek, read, write or write_zeroes fails before a sector changed;
- `"partial"`: a write or write_zeroes fails after its sectors changed (the unit is a sector, so a torn sector is not represented);
- `"timer"`: `is_armed`, `reset` or `clear` fails after the disk call succeeded.

`ExecOut` arms the timer only if it is not already armed, as `is_armed` / `reset` do. The image is a host file, so `disk.flush()` is `Write::flush` on a `std::fs::File`: it never fails and writes nothing back. `ExecFlush` therefore only clears the timer, and leaves `durable` alone.

### `BlockWorker.tla`: the back-end and its worker thread

Variables:

- `wpc`: where the worker is: `none`, `starting`, `idle` in `wait`, `handling` the tokens of one wait, `exited` or `panicked`;
- `todo`: the tokens of that wait still to handle;
- `needs_irq`;
- the ring as histories: `avail` (the chains the driver published; chain k has head k), `next_avail` (the cursor) and `used` (the published `[head, len, status, data]` entries);
- the event fds: `queue_evt` and `kill_evt`;
- `isr` and `irq`;
- the `Option`s of `Block`: `disk_held` and `kill_held`.

Actions:

| Action | Models |
|---|---|
| `WorkerSetup` | `TimerFd::new` and `PollContext::new`, either of which may fail |
| `WorkerWait` | `poll_ctx.wait()`, which is level-triggered: every readable fd is reported. A failed wait breaks the loop |
| `HandleFlushTimer`, `HandleQueueAvailable`, `HandleKill` | one match arm each, in any order, as `iter_readable` gives them. The flush of `HandleFlushTimer` is a no-op on a host file |
| `QueueEvtReadFails` | the `QueueAvailable` arm when `queue_evt.read()` fails: the loop breaks before `process_queue` |
| `EndBatch` | `if needs_interrupt { signal_used_queue() }` |
| `BlockActivate` | `Block::activate`, with its three early returns |
| `BlockDrop` | `Drop` |
| `TimerExpire` | the environment step in which an armed timer fires |
| `HostWriteback` | the environment step in which the host's page cache writes some sectors of the image to stable storage |

`HandleQueueAvailable` contains the whole of `process_queue`, as a `FoldLeft` of `ChainStep` over the chains between `next_avail` and the end of `avail`. That is parse, execute, the status write with its `unwrap`, the store into `used_desc_heads[used_count]`, and the `add_used` loop. A panic in the fold leaves the worker `panicked` with nothing published.

### `VirtioPciDevice.tla`: transport, guest driver and back-end together

`VirtioPciDevice.tla` EXTENDS `BlockWorker` and adds:

- the transport's variables: `driver_status`, `queue`, `activated`, `mem_held`, `irq_held`;
- the guest's variables: `guest_seen` (used entries consumed), `guest_ack` (the ISR value read and still to be written back), `torn_down`.

Actions:

| Action | Models |
|---|---|
| `WriteDriverStatus` | the common-config branch of `write_bar` for a status write, followed by the activation check (`ActivateIfReady`, lines 391-404) |
| `WriteQueueField` | the same branch for a queue field, followed by the activation check |
| `GuestReadIsr` | `read_bar`'s ISR branch: a load. A driver that takes the read as clearing the ISR (`GuestAcksIsr = FALSE`) then consumes the used ring if `USED_RING` was set |
| `GuestWriteIsr` | `write_bar`'s ISR branch (`fetch_and`), followed by the activation check. A driver that clears the ISR this way (`GuestAcksIsr = TRUE`) writes back the value it read and only then consumes the used ring |
| `GuestSubmit` | the guest publishing a chain and kicking the queue EventFd |
| `Teardown` | dropping the device |

`MCVirtioPciDevice.tla` defines the descriptors and chains the runs use:

- `MCOut`, `MCIn`, `MCFlush`, `MCDiscard`;
- `MCOutReversed`, an OUT whose data descriptor is device-writable, which fails to parse.

Every descriptor lies in guest memory: `Queue::iter`'s walk (outside this tree) drops a descriptor whose range does not, so parse never sees one.

### `VirtioPciSetup.tla`: bringing devices onto the bus, and BAR programming

This module covers:

- `SystemAllocator::allocate_irq` and the MMIO allocation, in `AssignIrq` and `AllocateIoBars`;
- `VirtioPciDevice::allocate_io_bars` and `add_pci_capabilities` (`Capabilities`);
- `ioeventfds` (`IoEventFds`), registered by the VMM (`RegisterIoevents`);
- `BusDevice::config_register_write` on BAR0 (`ConfigRegisterWrite`). It has two early returns, and the byte, word and dword writes go through the BAR-size mask (`WriteBar`).

The VMM sets devices up one at a time. A device fails setup when the MMIO space or the irq width is exhausted.

The guest does the rest:

- it sizes BAR0 (`ProbeBar`, `RestoreBar`) and makes other BAR writes (`GuestConfigWrite`);
- it kicks a queue at the address it derives from BAR0 and the notify capability (`GuestNotify`). The write reaches the queue EventFd only through a registered ioeventfd. Otherwise it reaches `write_bar`'s notify window, which does nothing.

BAR0 is kept as bits 12..31, a page number. Bits 0..11 are read-only flags for a 16 KiB BAR.

### `BlockDevice.tla`: what the device promises

`BlockDevice.tla` is an abstract specification with no rings, threads or timers. Its state:

- `reqs`: the requests the driver made available;
- `results`: the answers so far;
- `disk`: the contents a read returns;
- `halted`.

Its actions:

| Action | What it does |
|---|---|
| `Submit` | the driver makes a request available |
| `Complete` | the next n ≥ 1 pending requests are answered in order, each atomically |
| `Halt` | the device stops for good; some executed but unanswered requests may have taken effect |

A request answered with an error may have applied any part of its own writes, and nothing else. A request that addresses a sector beyond the disk cannot succeed and writes nothing. The specification promises nothing about stable storage, since the code does not sync the image.

`VirtioPciDevice.tla` instantiates it as `Device` with a refinement mapping:

- `reqs` ← `avail`;
- `results` ← the status and data of the used entries;
- `disk` ← `io.cache`;
- `halted` ← the worker has exited or panicked.

The addressed sectors come from `Request::execute` (`AddressedRead`, `AddressedWrites`). `BlockDeviceRefined == Device!Spec` is checked as a `PROPERTY`. A `process_queue` batch maps to one `Complete`, and a worker exit or panic to `Halt`. Every other step, the host's writeback included, is a stuttering step of `BlockDevice`.

### `VmControl.tla`: the VM control socket

State:

- `req_sock[c]` and `resp_sock[c]`: a client's two datagram queues;
- `phase`, `pending` and `expected`: the client's side of a call;
- `held`: the `[slot, pfn]` registrations a client was told;
- `sent`: how many requests a client has made;
- the VM: `mem` (slot ↦ pfn), `dev_next` (the device allocator's bump pointer), `running` and `balloon`.

Wire integers are scaled to `Width` bits, with the same casts as the code (`as u32`, `as i32`, `as u64`, `checked_abs`).

| Definition | Models |
|---|---|
| `EncodeRequest` / `DecodeRequest` | `VmRequest::send` / `recv`, including the fd count and the `InvalidType` / `ExpectFd` errors |
| `EncodeResponse` / `DecodeResponse` | `VmResponse::send` / `recv` |
| `ReprCSize`, `ResponsePadding` | the `#[repr(C)]` layout of the wire structs. A response's tail padding is a nondeterministic byte |
| `RegisterMemory` | `register_memory`: mmap, device address allocation, `add_device_memory`, and the `(addr >> 12, slot)` answer |
| `Execute` | `VmRequest::execute`'s arms for `Exit`, `RegisterMemory`, `UnregisterMemory`, `BalloonAdjust` and `AllocateAndRegisterGpuMemory` |
| `ClientSend`, `ClientSendRaw`, `ClientRecv` | a client sending, a peer writing a malformed datagram, and a client receiving. `recv` blocks until a datagram is queued: a connected datagram socket sees no end of file when its peer goes away |
| `ServeRequest` | one iteration of the run loop for a readable control socket |

`MCVmControl.tla` gives the model values for two clients and a negative and a positive balloon page count.

## Runs

| Run (cfg) | Checks | Result |
|---|---|---|
| `data` (`MCVirtioPciDevice.cfg`) | `TypeOK`, `UsedInRingOrder`, `ReadReturnsWrite`, `NoWorkerPanic`, `BlockDeviceRefined` | pass (≈221k states, about 15 s) |
| `live` (`_live.cfg`) | `RequestsComplete` with a driver that writes the ISR back | pass |
| `activation` (`_activation.cfg`) | `ReadyImpliesActivated` | pass |
| `flush_durable` (`_flush_durable.cfg`) | `DurableAfterFlush` for a write followed by a flush | violation |
| `reset` (`_reset.cfg`) | `ResetKillsWorker` with a driver that writes status 0 after activation | violation |
| `timer_error` (`_timer_error.cfg`) | `ReadYourWrites` with failing timer syscalls | violation |
| `flush_timer` | `FlushPerExpiry` | violation |
| `setup` (`MCVirtioPciSetup.cfg`) | `TypeOK`, `IrqsDistinct`, `NotifyWakesQueue`, `BarProbeReadsSize` | pass |
| `bar_move` | `NotifyWakesQueue` with a guest that moves BAR0 | violation |
| `vmcontrol` (`MCVmControl.cfg`) | `TypeOK`, `WireRoundTrip`, `HeldMemoryMapped`, `RequestsAnswered` | pass (≈584k states, about 60 s) |
| `response_padding` (`MCVmControl_padding.cfg`) | `ResponseBytesDefined` | violation |

What the properties say:

- **`UsedInRingOrder`**: used entry k is head k. Across batches, panics and kills, each chain is completed once and in ring order.
- **`ReadReturnsWrite`**: a successful IN returns the value of the last successful OUT, DISCARD or WRITE_ZEROES to that sector before it (or the initial contents), or the value of a write answered IOERR after that one. A failed write may have landed (`"partial"`, `"timer"`), but no write is lost, reordered or applied to another sector. It involves the seek wrap, failed writes and discard segments whose sector differs from the header's.
- **`ReadYourWrites`** (timer_error only): the stricter form, as if a write answered IOERR had no effect.
- **`NoWorkerPanic`** (data run): a driver that keeps at most `QueueSize` chains outstanding never makes the worker panic. This holds across batches, because used entries are published only at the end of a batch and the driver reuses a slot only after it has consumed the entry. So the `[_; QUEUE_SIZE]` array `used_desc_heads` is exactly large enough.
- **`DurableAfterFlush`**: after the last FLUSH answered OK, every sector holds on stable storage the value of the last successful write before that flush, or of a later write. This is what `VIRTIO_BLK_F_FLUSH`, which the device offers, promises the driver.
- **`RequestsComplete`**: while the worker runs, every published request is eventually consumed by the guest. This is the liveness of the whole notify → process → interrupt → ISR chain. The live run's driver clears the ISR by writing back the bits it read and consumes the used ring after that write, so a worker `fetch_or` between the driver's read and its write-back is part of what is checked.
- **`ReadyImpliesActivated`**: whichever write completes the driver's setup, ready status plus a valid queue means activated, and at most one worker is ever spawned.

- **`IrqsDistinct`**: no two devices share an irq. The third device of the setup run finds `next_irq` at the largest value of its width, so the check covers `checked_add` at the edge: a saturating add would hand the second device's irq out again.
- **`NotifyWakesQueue`**: every notify write wakes its own device's queue EventFd, and no address has two ioeventfds.
- **`BarProbeReadsSize`**: while the guest sizes BAR0 (all ones written), the register reads back the BAR size; otherwise BAR0 is aligned to that size. It checks the write path of `config_register_write` through the BAR-size mask. The run keeps a 16 KiB aligned MMIO base, as `arch` provides; see the hazard at `system_allocator.rs:51` for an unaligned one.

- **`BlockDeviceRefined`**: the device the guest sees through the rings implements `BlockDevice`. Requests are answered in avail order, each as an atomic step on the image. A failed request leaves at most its own writes. A worker that exits or panics leaves only the effects of chains it executed. The data run includes the timer failures and the partial writes, which the abstract specification allows.
- **`WireRoundTrip`**: the run loop decodes the request a client sent, and the client decodes the response `execute` built. This covers the balloon count's `as u32` / `as i32` and the errno's `checked_abs`.
- **`HeldMemoryMapped`**: every registration a client holds is mapped by the VM at that pfn, and no slot is held by two clients, also when slots are reused after `UnregisterMemory`. Mappings do not overlap, and every mapped slot is held or announced in a response in flight.
- **`RequestsAnswered`**: every request a client makes with `VmRequest::send` is eventually answered while the run loop runs. Once an `Exit` stops the loop, a client still waiting blocks for good; the property says nothing then.

Each passing property has a mutant in `PROJECT.json` that TLC finds violates it:

| Mutant | A plausible bug it stands for |
|---|---|
| `AdvanceAvailStale` | iterating a copy of the queue |
| `AdvanceAvailPastEnd` | an off-by-one in the cursor |
| `ZeroedSectorsNoSeek` | a missing second seek in discard |
| `EndBatchNoStatus` | writing the irq without setting `USED_RING` |
| `WriteQueueFieldNoActivate` | checking activation only on status writes |
| `AssignIrqUnchecked` | an unchecked add |
| `AssignIrqSaturating` | `saturating_add` in place of `checked_add` |
| `IoEventFdsAtBase` | the notify offset missing from `ioeventfds` |
| `ConfigRegisterWriteEndExclusive` | an off-by-one in the register bound check, which drops the all-ones probe write |
| `UsedDescHeadsFullEarly` | `used_desc_heads` one entry shorter than the queue |
| `ChainStepStaleIo` | executing every chain of a batch against the image as it was before the batch (breaks `BlockDeviceRefined`) |
| `RegisterMemoryUnchecked` | `allocate_device_addresses`' `None` not checked |
| `DecodeRequestUnsigned` | `num_pages` decoded without `as i32` |
| `PfnBytes` | the address itself sent as the pfn |
| `EncodeRequestNoFd` | `RegisterMemory` sent without its fd, which `recv` drops with `ExpectFd` and never answers |

### What the violations show

- **`flush_durable`**: `Block` offers `VIRTIO_BLK_F_FLUSH` (`block.rs:593`) and answers a FLUSH with OK after `disk.flush()` (`block.rs:427`). `DiskFile` is only `Read + Seek + Write + WriteZeroes` (`block.rs:111`), so on a host file that call is `Write::flush`, which for `std::fs::File` does nothing. The 60 s timer flush (`block.rs:534`) is the same call. In the trace the guest writes sector 1 and flushes, both are answered OK, and `durable` still holds the old contents; a host crash at that point loses a write the guest has flushed. The host's writeback (`HostWriteback`) may happen at any time, but nothing forces it.
- **`reset`**: spec §4.4 says that a `driver_status` write of 0 after activation (a device reset) signals the worker's kill event. In the code, the tail of `write_bar` only ever activates, and the only writer of `Block`'s kill event is `Drop` (`block.rs:615`). In the trace the driver activates the device and then writes 0: the worker is starting, with no kill event. After a guest reboot or a driver unbind, the old worker keeps serving the old queue. Because `device_activated` stays set, the queue the new driver configures is never activated.
- **`timer_error`**: `ExecOut` writes the data to the image and then calls `flush_timer.is_armed()` / `reset()` with `?` (`block.rs:388`). With a disk that never fails, when the timer syscall fails the request is answered IOERR although the write took effect, and a later IN reads the data of a write the guest was told failed. Neither the spec nor a comment says what an error status promises about the disk; `ReadReturnsWrite` and `BlockDeviceRefined` allow it, as they must for a write that fails part way.

One pass of `process_queue` over more than `QueueSize` chains panics on `used_desc_heads[used_count]` (line 477). A guest that advances `avail.idx` past the queue size does that: with `GuestOverruns = TRUE` and three chains, `NoWorkerPanic` is violated. No run keeps that case; the data run shows that the bound is tight for a conforming driver.

OUT, FLUSH and DISCARD also report used length 0 where the virtio spec counts the status byte. A unit test of spec scenario 3 shows that directly, so it is not kept as a run.
- **`flush_timer`**: the `FlushTimer` arm never reads the timerfd, so the level-triggered poll reports it on every wait. The worker flushes in a loop until an OUT re-arms the timer or a FLUSH clears it. `FlushPerExpiry` uses a history variable, `timer_fired`, to say that each flush handled by the timer follows a new expiry.

- **`bar_move`**: `ioeventfds` computes the notify address from BAR0 once, at setup. A guest that later places BAR0 elsewhere (spec §202), with a dword or a one-byte write, notifies at an address with no ioeventfd. `write_bar`'s notify window is a stub (line 386), so the notification is lost. This contradicts spec §77/§197.

- **`response_padding`**: the comment on `VmResponseStruct` says it has no implicit padding, which its `unsafe impl DataInit` relies on. Its fields take 44 bytes, and `#[repr(C)]` rounds the struct to 48 for the `Le64` alignment (`VM_RESPONSE_SIZE` is 48 to match). `VmResponse::send` stores a struct whose last four bytes were never initialized, so a response datagram may carry four bytes of the server's stack.

The refinement also catches the seek wrap of `block.rs:369`. With a chain for sector 3 over `SectorSpan` 2, an IN is answered OK from the sector it wraps to, which `BlockDevice` forbids. The data run's chains stay in range.

## Bounds

| Constant | Value | Why this value |
|---|---|---|
| `SectorSpan` | 2 | two sectors, so that a discard of sector 1 and a read or write of sector 1 can differ from sector 0 |
| `QueueSize` | 2 | stands for 256; two per batch already gives multi-chain batches |
| `MaxReqs` | 3 (data, live), 2 (timer_error, flush_durable), 1 (activation, reset) | three chains over a ring of two make the cursor pass the ring's size and give a write, a failed write and a read in one history, under four failure kinds per chain. At 4 the data run takes more than three minutes |

The live run uses only OUT and IN chains: the request kinds do not matter to the interrupt path, and the whole chain set makes the liveness check run for minutes.

The vmcontrol run has two clients with two requests each. `Width` is 4 and the page is 2 bytes. The device range has six bytes (three pages) and there are two slots, so registrations run out of both. Sizes are 0 (mmap fails), 1 and 3. The balloon gets -1 and 3, and the `Failures` set covers `add_device_memory`, the balloon and the GPU allocation. Two clients are the fewest that can race for a reused slot.

The setup run has four devices (symmetric model values):

- the MMIO space holds three BARs, and the 2-bit irq counter starts at 1;
- two devices get irqs 1 and 2, the third finds `next_irq` = 3, the largest 2-bit value, and fails on `checked_add`, and the fourth fails on the MMIO allocation.

The data runs fix the driver's status write to the ready value and the queue writes to `TRUE`. The activation run enumerates status values that are not ready, with or without FAILED, and the queue fields set and unset.

`Failures` enables:

- disk-call failures (`"disk"`), each either before (`"disk"`) or after (`"partial"`) the call changed its sectors;
- timer syscall failures (`"timer"`) in `is_armed` / `reset` / `clear`, after the disk call succeeded;
- `poll_ctx.wait` and `queue_evt.read` failures (`"fd"`), each of which breaks the poll loop;
- worker setup failures;
- activation failures (kill EventFd creation, spawn).

## Fairness

- **The worker thread** (`WF_vars(WorkerStep)`): it is a dedicated thread that blocks only in `poll_ctx.wait()`, and its steps are enabled only when an fd is readable.
- **`GuestReadIsr` and `GuestWriteIsr`** (weak fairness): a pending interrupt is eventually taken by the guest's handler, which then acknowledges it.
- **Guest submissions, configuration writes and teardown**: no fairness. The guest and the VMM may stop at any time.
- **VM control**: `ServeRequest(c)` and `ClientRecv(c)` are weakly fair. The run loop polls every control socket, and a waiting client blocks in `recv`. Clients need not send. The vmcontrol run uses no symmetry, because TLC does not check liveness soundly under symmetry.
- **`TimerExpire` and `HostWriteback`**: no fairness. The flush timer is 60 s and the kernel's writeback is not under the code's control; no property depends on either happening.

## Not modelled

- Device-config reads and writes: a byte copy.
- The notify `write_bar` branch: a no-op with a TODO; notification goes through the ioeventfd, modelled as `GuestSubmit` setting `queue_evt`.
- `keep_fds`, `features`, `build_config_space`, `read_config`: pure values a unit test covers (spec scenarios 1 and 2).
- The byte layout of the capabilities. `VirtioPciNotifyCap::new` sets `cap_len` to `size_of::<VirtioPciNotifyCap>()`, which is 18. That leaves out the two header bytes `add_capability` prepends, and spec §6 (the 16-byte header plus `notify_off_multiplier`) implies 20. It is a constant a unit test shows, so no run states it.
- `irq_num as u8` in `assign_irq` (`virtio_pci_device.rs:283`): the allocator's irq counter is modelled at 2 bits, so the truncation never bites; modelling it needs a counter wider than the cast.
- `read_only` (`block.rs:594`): stored but never consulted, so a write to a read-only disk is executed like any other. No state of the model depends on it.
- The io address space of the allocator: nothing in this tree allocates from it.
- PCI configuration registers other than BAR0, and `config_register_read`. Reads do not change state.
- `VmRequest::execute`'s `RegisterIoevent` and `RegisterIrqfd` arms: no datagram can carry these requests (`send` refuses them), so only an in-process caller outside this tree reaches them.
- `MaybeOwnedFd` and the GPU buffer's plane descriptors, which are copied field by field.
- `AddressRanges`, a builder whose `create_allocator` only checks that each range is present.
- A torn sector: a write failing part way changes whole sectors or none.
- Descriptors outside guest memory: `Queue::iter` (outside this tree) drops them, so the `unwrap` of the status write at `block.rs:470` can fail only on a range that spans a hole between memory regions, which the abstract chains do not describe.
- What a device does after a reset: spec §9 leaves re-activation open, so only the kill event §4.4 requires is checked (`reset`).

## Open items

1. BAR1 (the high half of the 64-bit BAR) in `VirtioPciSetup`. It stays 0 while the MMIO range lies below 4 GiB.
2. `config_register_read/write` beyond BAR0. Those registers live in `PciConfiguration`, which is not in this tree.
