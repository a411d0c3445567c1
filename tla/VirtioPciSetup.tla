--------------------------- MODULE VirtioPciSetup ---------------------------
(***************************************************************************)
(* Bringing virtio-pci devices onto the bus, and the guest's view of them: *)
(* the SystemAllocator (resources/src/system_allocator.rs) hands out an    *)
(* MMIO range and an irq per device; VirtioPciDevice::allocate_io_bars     *)
(* places the settings BAR and add_pci_capabilities describes its four     *)
(* windows; the VMM registers the ioeventfds that ioeventfds() returns.    *)
(* The guest then probes and programs BAR0 through config_register_write   *)
(* (devices/src/pci/pci_device.rs) and kicks queues at the notify address  *)
(* it computes from the BAR and the notify capability.                     *)
(*                                                                         *)
(* A BAR0 value is kept as its bits 12..31 (a 4 KiB page number): bits     *)
(* 0..11 hold the read-only memory-type flags and are never written by the *)
(* guest since the BAR is larger than a page. A guest address is a record  *)
(* [page, byte]. BAR1 (the high half of the 64-bit BAR) stays 0.           *)
(***************************************************************************)
EXTENDS Integers, FiniteSets

CONSTANTS
  Devices,      \* the virtio-pci devices the VMM creates
  MmioBase,     \* mmio_base given to the SystemAllocator, in pages
  MmioPages,    \* mmio_size, in pages
  IrqBits,      \* width of next_irq (u32, scaled down)
  FirstIrq,     \* first_irq
  ConfigWrites  \* guest writes to BAR0: [offset, len, value], value being
                \* bits 12..31 of the written bytes placed at their offset

VARIABLES
  mmio_next,    \* the MMIO AddressAllocator's next free page
  next_irq,     \* SystemAllocator.next_irq
  phase,        \* per device, the VMM's progress in setting it up
  bar,          \* BAR0 of each device's configuration space (page number)
  irq,          \* irq number assigned to each device
  ioevents,     \* ioeventfds registered with the VM: <<address, device>>
  saved,        \* BAR0 value the guest read before probing it
  probing,      \* the guest has written all-ones to BAR0, not yet restored
  queue_evt,    \* each device's queue EventFd is signalled
  lost          \* history: devices a guest notify write did not wake

vars == <<mmio_next, next_irq, phase, bar, irq, ioevents, saved, probing,
          queue_evt, lost>>

PAGE == 4096
RegPageBits == 20                \* bits 12..31 of a 32-bit register
AllOnes == 2^RegPageBits - 1
NoValue == -1

\* Byte offsets and sizes in the settings BAR (virtio_pci_device.rs).
COMMON_CONFIG_BAR_OFFSET == 0
COMMON_CONFIG_SIZE == 56
ISR_CONFIG_BAR_OFFSET == 4096
ISR_CONFIG_SIZE == 1
DEVICE_CONFIG_BAR_OFFSET == 8192
DEVICE_CONFIG_SIZE == 4096
NOTIFICATION_BAR_OFFSET == 12288
NOTIFICATION_SIZE == 4096
CAPABILITY_BAR_SIZE == 4         \* 0x4000 bytes, in pages
NOTIFY_OFF_MULTIPLIER == 4
\* QUEUE_SIZES of the block device: one queue.
NumQueues == 1

AddrOf(page, off) == [page |-> page + off \div PAGE, byte |-> off % PAGE]

Phases == {"created", "bars", "irq", "ready", "failed"}

-----------------------------------------------------------------------------
(* SystemAllocator::allocate_mmio_addresses, which delegates to           *)
(* AddressAllocator::allocate with a page alignment (not in this tree):    *)
(* the next aligned address whose range fits, or none.                     *)
AllocMmio(size) ==
  IF size = 0 \/ mmio_next + size > MmioBase + MmioPages THEN NoValue
  ELSE mmio_next

IsPowerOfTwo(n) == \E k \in 0 .. RegPageBits : n = 2^k

(* add_pci_capabilities: the capabilities advertised in the configuration *)
(* space, each naming a BAR and a window [offset, offset + length).        *)
Capabilities(settings_bar) ==
  <<[cfg_type |-> "CommonConfig", bar |-> settings_bar,
     offset |-> COMMON_CONFIG_BAR_OFFSET, length |-> COMMON_CONFIG_SIZE],
    [cfg_type |-> "IsrConfig", bar |-> settings_bar,
     offset |-> ISR_CONFIG_BAR_OFFSET, length |-> ISR_CONFIG_SIZE],
    [cfg_type |-> "DeviceConfig", bar |-> settings_bar,
     offset |-> DEVICE_CONFIG_BAR_OFFSET, length |-> DEVICE_CONFIG_SIZE],
    [cfg_type |-> "NotifyConfig", bar |-> settings_bar,
     offset |-> NOTIFICATION_BAR_OFFSET, length |-> NOTIFICATION_SIZE,
     multiplier |-> NOTIFY_OFF_MULTIPLIER],
    [cfg_type |-> "PciConfig", bar |-> 0, offset |-> 0, length |-> 0]>>

\* The settings BAR is the first memory region of a fresh configuration.
SettingsBar == 0

(* VMM setup runs devices one at a time.                                   *)
SetupIdle == \A e \in Devices : phase[e] \in {"created", "ready", "failed"}

(* VirtioPciDevice::allocate_io_bars: allocate CAPABILITY_BAR_SIZE of MMIO *)
(* space, add it as a memory region (BAR0), then add the capabilities.     *)
AllocateIoBars(d) ==
  /\ phase[d] = "created"
  /\ SetupIdle
  /\ LET addr == AllocMmio(CAPABILITY_BAR_SIZE)
     IN IF addr = NoValue
        THEN /\ phase' = [phase EXCEPT ![d] = "failed"]
             /\ UNCHANGED <<mmio_next, bar>>
        ELSE /\ mmio_next' = addr + CAPABILITY_BAR_SIZE
             /\ IF IsPowerOfTwo(CAPABILITY_BAR_SIZE)
                THEN /\ bar' = [bar EXCEPT ![d] = addr]
                     /\ phase' = [phase EXCEPT ![d] = "bars"]
                ELSE /\ phase' = [phase EXCEPT ![d] = "failed"]
                     /\ UNCHANGED bar
  /\ UNCHANGED <<next_irq, irq, ioevents, saved, probing, queue_evt, lost>>

\* Mutants: next_irq + 1 without checked_add; with saturating_add.
AssignIrqUnchecked(d) ==
  /\ phase[d] = "bars"
  /\ next_irq' = next_irq + 1
  /\ irq' = [irq EXCEPT ![d] = next_irq]
  /\ phase' = [phase EXCEPT ![d] = "irq"]
  /\ UNCHANGED <<mmio_next, bar, ioevents, saved, probing, queue_evt, lost>>

AssignIrqSaturating(d) ==
  /\ phase[d] = "bars"
  /\ LET irq_num == IF next_irq + 1 < 2^IrqBits THEN next_irq + 1 ELSE next_irq
     IN /\ next_irq' = irq_num
        /\ irq' = [irq EXCEPT ![d] = irq_num - 1]
  /\ phase' = [phase EXCEPT ![d] = "irq"]
  /\ UNCHANGED <<mmio_next, bar, ioevents, saved, probing, queue_evt, lost>>

(* SystemAllocator::allocate_irq, then assign_irq: next_irq.checked_add(1) *)
(* fails when next_irq is the largest value of its width.                  *)
AssignIrq(d) ==
  /\ phase[d] = "bars"
  /\ IF next_irq + 1 < 2^IrqBits
     THEN /\ next_irq' = next_irq + 1
          /\ irq' = [irq EXCEPT ![d] = next_irq]
          /\ phase' = [phase EXCEPT ![d] = "irq"]
     ELSE /\ phase' = [phase EXCEPT ![d] = "failed"]
          /\ UNCHANGED <<next_irq, irq>>
  /\ UNCHANGED <<mmio_next, bar, ioevents, saved, probing, queue_evt, lost>>

(* ioeventfds: one per queue at notify_base + i * NOTIFY_OFF_MULTIPLIER,   *)
(* notify_base read from BAR0 now; the VMM registers them with the VM.     *)
\* Mutant: the ioeventfd placed at the BAR's base, not at its notify window.
IoEventFdsAtBase(d) ==
  {<<AddrOf(bar[d], i * NOTIFY_OFF_MULTIPLIER), d>> : i \in 0 .. NumQueues - 1}

IoEventFds(d) ==
  {<<AddrOf(bar[d], NOTIFICATION_BAR_OFFSET + i * NOTIFY_OFF_MULTIPLIER), d>> :
     i \in 0 .. NumQueues - 1}

RegisterIoevents(d) ==
  /\ phase[d] = "irq"
  /\ ioevents' = ioevents \cup IoEventFds(d)
  /\ phase' = [phase EXCEPT ![d] = "ready"]
  /\ UNCHANGED <<mmio_next, next_irq, bar, irq, saved, probing, queue_evt, lost>>

-----------------------------------------------------------------------------
(* PciConfiguration::write_byte/word/reg on BAR0 (not in this tree): the   *)
(* written bytes replace bits [8 * offset, 8 * (offset + len)) of the      *)
(* register, then only the bits the BAR size leaves writable change.       *)
Bits(x, lo, hi) == (x % 2^hi) - (x % 2^lo)

WriteBar(old, offset, len, value) ==
  LET lo == IF 8 * offset > 12 THEN 8 * offset - 12 ELSE 0
      hi == IF 8 * (offset + len) > 12 THEN 8 * (offset + len) - 12 ELSE 0
      written == old - Bits(old, lo, hi) + Bits(value, lo, hi)
  IN (written \div CAPABILITY_BAR_SIZE) * CAPABILITY_BAR_SIZE
       + (old % CAPABILITY_BAR_SIZE)

\* Mutant: the bound check rejects a write that ends at the register's end.
ConfigRegisterWriteEndExclusive(old, offset, len, value) ==
  IF offset + len >= 4 \/ len \notin {1, 2, 4} THEN old
  ELSE WriteBar(old, offset, len, value)

(* BusDevice::config_register_write: a write that runs past the register   *)
(* is dropped, and only 1, 2 and 4 byte writes are applied.                *)
ConfigRegisterWrite(old, offset, len, value) ==
  IF offset + len > 4 \/ len \notin {1, 2, 4} THEN old
  ELSE WriteBar(old, offset, len, value)

(* The guest sizes BAR0: it saves the value, writes all-ones, and reads    *)
(* back the size mask; memory decoding is off until it restores the BAR.  *)
ProbeBar(d) ==
  /\ phase[d] = "ready"
  /\ ~probing[d]
  /\ saved' = [saved EXCEPT ![d] = bar[d]]
  /\ bar' = [bar EXCEPT ![d] = ConfigRegisterWrite(bar[d], 0, 4, AllOnes)]
  /\ probing' = [probing EXCEPT ![d] = TRUE]
  /\ UNCHANGED <<mmio_next, next_irq, phase, irq, ioevents, queue_evt, lost>>

RestoreBar(d) ==
  /\ probing[d]
  /\ bar' = [bar EXCEPT ![d] = ConfigRegisterWrite(bar[d], 0, 4, saved[d])]
  /\ probing' = [probing EXCEPT ![d] = FALSE]
  /\ UNCHANGED <<mmio_next, next_irq, phase, irq, ioevents, saved, queue_evt,
                 lost>>

(* Any other write the guest makes to BAR0.                                *)
GuestConfigWrite(d, w) ==
  /\ phase[d] = "ready"
  /\ ~probing[d]
  /\ bar' = [bar EXCEPT ![d] = ConfigRegisterWrite(bar[d], w.offset, w.len,
                                                   w.value)]
  /\ UNCHANGED <<mmio_next, next_irq, phase, irq, ioevents, saved, probing,
                 queue_evt, lost>>

(* The driver's notify address for queue q: the BAR the notify capability  *)
(* names, plus its offset, plus queue_notify_off (= q) times the           *)
(* multiplier.                                                             *)
NotifyCap == Capabilities(SettingsBar)[4]

GuestNotifyAddr(d, q) ==
  AddrOf(bar[d], NotifyCap.offset + q * NotifyCap.multiplier)

(* The guest kicks queue q. A write that hits an ioeventfd signals its     *)
(* EventFd; any other exits to the VMM, where write_bar's notify window    *)
(* does nothing.                                                           *)
GuestNotify(d, q) ==
  /\ phase[d] = "ready"
  /\ ~probing[d]
  /\ LET woken == {e \in Devices : <<GuestNotifyAddr(d, q), e>> \in ioevents}
     IN /\ queue_evt' = [e \in Devices |-> queue_evt[e] \/ e \in woken]
        /\ lost' = IF d \in woken THEN lost ELSE lost \cup {d}
  /\ UNCHANGED <<mmio_next, next_irq, phase, bar, irq, ioevents, saved,
                 probing>>

(* The device's worker reads its queue EventFd.                            *)
QueueEvtRead(d) ==
  /\ queue_evt[d]
  /\ queue_evt' = [queue_evt EXCEPT ![d] = FALSE]
  /\ UNCHANGED <<mmio_next, next_irq, phase, bar, irq, ioevents, saved,
                 probing, lost>>

-----------------------------------------------------------------------------
(* SystemAllocator::new and VirtioPciDevice::new for every device.         *)
Init ==
  /\ mmio_next = MmioBase
  /\ next_irq = FirstIrq
  /\ phase = [d \in Devices |-> "created"]
  /\ bar = [d \in Devices |-> 0]
  /\ irq = [d \in Devices |-> NoValue]
  /\ ioevents = {}
  /\ saved = [d \in Devices |-> 0]
  /\ probing = [d \in Devices |-> FALSE]
  /\ queue_evt = [d \in Devices |-> FALSE]
  /\ lost = {}

Next ==
  \E d \in Devices :
    \/ AllocateIoBars(d)
    \/ AssignIrq(d)
    \/ RegisterIoevents(d)
    \/ ProbeBar(d)
    \/ RestoreBar(d)
    \/ \E w \in ConfigWrites : GuestConfigWrite(d, w)
    \/ \E q \in 0 .. NumQueues - 1 : GuestNotify(d, q)
    \/ QueueEvtRead(d)

Spec == Init /\ [][Next]_vars

-----------------------------------------------------------------------------
TypeOK ==
  /\ mmio_next \in MmioBase .. MmioBase + MmioPages
  /\ next_irq \in 0 .. 2^IrqBits - 1
  /\ phase \in [Devices -> Phases]
  /\ bar \in [Devices -> 0 .. AllOnes]
  /\ irq \in [Devices -> {NoValue} \cup 0 .. 2^IrqBits - 1]
  /\ probing \in [Devices -> BOOLEAN]
  /\ queue_evt \in [Devices -> BOOLEAN]
  /\ lost \subseteq Devices

Placed == {d \in Devices : phase[d] \in {"irq", "ready"}}

(* No two devices share an irq: allocate_irq never hands out a number     *)
(* twice, also once next_irq has reached the largest value of its width    *)
(* and the device that asks next gets none.                                *)
IrqsDistinct ==
  \A d, e \in Placed : d # e => irq[d] # irq[e]

(* The guest can size and use every BAR the VMM placed: outside a probe,  *)
(* BAR0 lies on a multiple of its size (the allocator's alignment, which  *)
(* allocate_io_bars relies on), and while the guest probes, the value it  *)
(* reads back after writing all-ones decodes to CAPABILITY_BAR_SIZE (the  *)
(* write path of config_register_write through the BAR's size mask).      *)
BarProbeReadsSize ==
  \A d \in Placed :
    /\ probing[d] => 2^RegPageBits - bar[d] = CAPABILITY_BAR_SIZE
    /\ ~probing[d] => bar[d] % CAPABILITY_BAR_SIZE = 0

(* Every notify write the guest makes, at the address it derives from BAR0 *)
(* and the notify capability, reaches its device's queue EventFd through   *)
(* the ioeventfds the VMM registered, and wakes no other device.           *)
NotifyWakesQueue ==
  /\ lost = {}
  /\ \A a \in {x[1] : x \in ioevents} :
       Cardinality({x \in ioevents : x[1] = a}) = 1
=============================================================================
