-------------------------- MODULE VirtioPciDevice --------------------------
(***************************************************************************)
(* The virtio PCI transport (devices/src/virtio/virtio_pci_device.rs)      *)
(* wrapping the block back-end of BlockWorker, driven by a guest driver    *)
(* running on a VCPU thread concurrently with the worker thread.           *)
(*                                                                         *)
(* Transport state: the common-config driver_status and the selected       *)
(* queue's configuration, device_activated, and the resources it moves     *)
(* into the back-end on activation (the guest memory handle and the        *)
(* interrupt EventFd). The guest driver publishes chains and kicks the     *)
(* queue (the notify write is an ioeventfd on the queue EventFd), and on   *)
(* an interrupt reads the ISR byte and consumes the used ring: right away  *)
(* if it takes the read as clearing the ISR, or after it has cleared the   *)
(* bits it read by writing them back (GuestAcksIsr).                       *)
(***************************************************************************)
EXTENDS BlockWorker

CONSTANTS
  Chains,        \* descriptor chains the guest may publish
  StatusWrites,  \* driver_status values the guest may write
  QueueWrites,   \* values the guest may write to a queue field
  MaxReqs,       \* bound on the chains the guest publishes
  InitCache,     \* initial contents of the disk image
  GuestOverruns, \* the guest may publish more than QueueSize outstanding chains
  GuestAcksIsr   \* the guest clears the ISR by writing back what it read

VARIABLES
  driver_status, \* common_config.driver_status, as a set of bit names
  queue,         \* the transport's queue: [ready, size_ok, addrs_ok]
  activated,     \* device_activated
  mem_held,      \* mem is Some
  irq_held,      \* interrupt_evt is Some
  guest_seen,    \* the guest has consumed used[1..guest_seen]
  guest_ack,     \* ISR value the guest read and will write back, or {}
  torn_down      \* the VMM has dropped the device

transport_vars == <<driver_status, queue, activated, mem_held, irq_held>>
guest_vars == <<guest_seen, guest_ack, torn_down>>
vars == <<worker_vars, block_vars, shared_vars, transport_vars, guest_vars>>

DEVICE_ACKNOWLEDGE == "ACKNOWLEDGE"
DEVICE_DRIVER == "DRIVER"
DEVICE_DRIVER_OK == "DRIVER_OK"
DEVICE_FEATURES_OK == "FEATURES_OK"
DEVICE_FAILED == "FAILED"
StatusBits == {DEVICE_ACKNOWLEDGE, DEVICE_DRIVER, DEVICE_DRIVER_OK,
               DEVICE_FEATURES_OK, DEVICE_FAILED}

QueueFields == {"ready", "size_ok", "addrs_ok"}

ASSUME StatusWrites \subseteq SUBSET StatusBits /\ QueueWrites \subseteq BOOLEAN

-----------------------------------------------------------------------------
(* is_driver_ready: exactly the four ready bits, FAILED clear.             *)
IsDriverReady(status) ==
  /\ status = {DEVICE_ACKNOWLEDGE, DEVICE_DRIVER, DEVICE_DRIVER_OK,
               DEVICE_FEATURES_OK}
  /\ DEVICE_FAILED \notin status

(* Queue::is_valid: ready, a power-of-two size within the maximum, and the *)
(* three rings inside guest memory at their alignment.                     *)
QueueIsValid(q) == q.ready /\ q.size_ok /\ q.addrs_ok

(* are_queues_valid: false while the guest memory handle is absent.        *)
AreQueuesValid(q) == mem_held /\ QueueIsValid(q)

(* The tail of write_bar, on the state the write produced: on the first    *)
(* time the driver is ready with valid queues, take the interrupt EventFd  *)
(* and the guest memory, activate the back-end and set device_activated.   *)
ActivateIfReady(status, q) ==
  IF ~activated /\ IsDriverReady(status) /\ AreQueuesValid(q) /\ irq_held
  THEN /\ irq_held' = FALSE
       /\ mem_held' = FALSE
       /\ activated' = TRUE
       /\ BlockActivate
  ELSE UNCHANGED <<activated, mem_held, irq_held, wpc, block_vars>>

-----------------------------------------------------------------------------
(* write_bar to the common config: store driver_status.                    *)
WriteDriverStatus(s) ==
  /\ ~torn_down
  /\ driver_status' = s
  /\ ActivateIfReady(s, queue)
  /\ UNCHANGED <<queue, todo, needs_irq, next_avail, io, timer_fired,
                 shared_vars, guest_vars>>

\* Mutant: activation is only re-evaluated after status writes.
WriteQueueFieldNoActivate(f, v) ==
  /\ ~torn_down
  /\ queue' = [queue EXCEPT ![f] = v]
  /\ UNCHANGED <<activated, mem_held, irq_held, wpc, block_vars>>
  /\ UNCHANGED <<driver_status, todo, needs_irq, next_avail, io, timer_fired,
                 shared_vars, guest_vars>>

(* write_bar to the common config: a field of the selected queue.          *)
WriteQueueField(f, v) ==
  /\ ~torn_down
  /\ queue' = [queue EXCEPT ![f] = v]
  /\ ActivateIfReady(driver_status, queue')
  /\ UNCHANGED <<driver_status, todo, needs_irq, next_avail, io, timer_fired,
                 shared_vars, guest_vars>>

(* The guest publishes a chain in the available ring and writes the notify *)
(* address, which the ioeventfd turns into a write of the queue EventFd.   *)
(* A driver keeps at most QueueSize chains outstanding.                    *)
GuestSubmit(c) ==
  /\ ~torn_down
  /\ Len(avail) < MaxReqs
  /\ GuestOverruns \/ Len(avail) - guest_seen < QueueSize
  /\ avail' = Append(avail, c)
  /\ queue_evt' = TRUE
  /\ UNCHANGED <<worker_vars, block_vars, transport_vars, guest_vars,
                 used, kill_evt, isr, irq>>

\* The guest consumes the used ring if the ISR value it read has USED_RING.
Consume(v) == IF INTERRUPT_STATUS_USED_RING \in v THEN Len(used) ELSE guest_seen

(* The guest takes the interrupt and does read_bar on the ISR byte: the    *)
(* interrupt_status word is loaded, and nothing is cleared.                *)
GuestReadIsr ==
  /\ ~torn_down
  /\ irq
  /\ guest_ack = {}
  /\ irq' = FALSE
  /\ guest_seen' = IF GuestAcksIsr THEN guest_seen ELSE Consume(isr)
  /\ guest_ack' = IF GuestAcksIsr THEN isr ELSE {}
  /\ UNCHANGED <<worker_vars, block_vars, transport_vars, torn_down,
                 avail, used, queue_evt, kill_evt, isr>>

(* write_bar on the ISR byte: clear the written bits (fetch_and(!v)); the *)
(* guest then consumes the used ring.                                      *)
GuestWriteIsr ==
  /\ ~torn_down
  /\ guest_ack # {}
  /\ isr' = isr \ guest_ack
  /\ guest_ack' = {}
  /\ guest_seen' = Consume(guest_ack)
  /\ ActivateIfReady(driver_status, queue)
  /\ UNCHANGED <<driver_status, queue, todo, needs_irq, next_avail, io,
                 timer_fired, torn_down,
                 avail, used, queue_evt, kill_evt, irq>>

(* The VMM drops the transport, and with it the Block.                     *)
Teardown ==
  /\ ~torn_down
  /\ torn_down' = TRUE
  /\ BlockDrop
  /\ UNCHANGED <<worker_vars, disk_held, spawned, transport_vars,
                 guest_seen, guest_ack, avail, used, queue_evt, isr, irq>>

-----------------------------------------------------------------------------
Init ==
  /\ wpc = "none"
  /\ todo = {}
  /\ needs_irq = FALSE
  /\ next_avail = 0
  /\ io = [cache |-> InitCache, durable |-> InitCache,
           armed |-> FALSE, readable |-> FALSE]
  /\ timer_fired = FALSE
  /\ avail = <<>>
  /\ used = <<>>
  /\ queue_evt = FALSE
  /\ kill_evt = FALSE
  /\ isr = {}
  /\ irq = FALSE
  /\ disk_held = TRUE
  /\ kill_held = FALSE
  /\ spawned = 0
  /\ driver_status = {}
  /\ queue = [f \in QueueFields |-> FALSE]
  /\ activated = FALSE
  /\ mem_held = TRUE
  /\ irq_held = TRUE
  /\ guest_seen = 0
  /\ guest_ack = {}
  /\ torn_down = FALSE

WorkerStep ==
  /\ WorkerNext
  /\ UNCHANGED <<transport_vars, guest_vars>>

Next ==
  \/ \E s \in StatusWrites : WriteDriverStatus(s)
  \/ \E f \in QueueFields, v \in QueueWrites : WriteQueueField(f, v)
  \/ \E c \in Chains : GuestSubmit(c)
  \/ GuestReadIsr
  \/ GuestWriteIsr
  \/ Teardown
  \/ WorkerStep
  \/ TimerExpire /\ UNCHANGED <<transport_vars, guest_vars>>
  \/ HostWriteback /\ UNCHANGED <<transport_vars, guest_vars>>

(* The worker is an OS thread and is eventually scheduled while it has     *)
(* something to do; the guest services a pending interrupt.                *)
Fairness ==
  /\ WF_vars(WorkerStep)
  /\ WF_vars(GuestReadIsr)
  /\ WF_vars(GuestWriteIsr)

Spec == Init /\ [][Next]_vars /\ Fairness

-----------------------------------------------------------------------------
TypeOK ==
  /\ wpc \in {"none", "starting", "idle", "handling", "exited", "panicked"}
  /\ todo \subseteq Tokens
  /\ needs_irq \in BOOLEAN
  /\ next_avail \in 0 .. MaxReqs
  /\ io.armed \in BOOLEAN /\ io.readable \in BOOLEAN
  /\ avail \in Seq(Chains) /\ Len(avail) <= MaxReqs
  /\ Len(used) <= MaxReqs
  /\ isr \subseteq {INTERRUPT_STATUS_USED_RING}
  /\ {queue_evt, kill_evt, irq, disk_held, kill_held, timer_fired} \subseteq BOOLEAN
  /\ driver_status \subseteq StatusBits
  /\ queue \in [QueueFields -> BOOLEAN]
  /\ {activated, mem_held, irq_held, torn_down} \subseteq BOOLEAN
  /\ guest_seen \in 0 .. Len(used)
  /\ guest_ack \subseteq {INTERRUPT_STATUS_USED_RING}

(* Activation is never missed: whichever write (status, queue field or    *)
(* ISR) completes the driver's setup, once driver_status holds exactly the *)
(* four ready bits and the queue is valid the back-end has been activated, *)
(* and at most one worker thread has ever been spawned.                    *)
ReadyImpliesActivated ==
  /\ IsDriverReady(driver_status) /\ QueueIsValid(queue) => activated
  /\ spawned <= 1

(* The used ring returns every published chain at most once and in ring    *)
(* order: process_queue's iteration and its deferred add_used loop never   *)
(* skip, repeat or reorder a head across batches.                          *)
UsedInRingOrder ==
  /\ Len(used) <= Len(avail)
  /\ \A k \in 1 .. Len(used) : used[k].head = k

\* Index of the last successful request before position k that wrote
\* sector s (0 if none).
LastWriteBefore(k, s) ==
  LET J == {j \in 1 .. k - 1 :
              /\ used[j].status = VIRTIO_BLK_S_OK
              /\ \E w \in Writes(avail[j]) : w[1] = s}
  IN IF J = {} THEN 0 ELSE Max(J)

ValueWritten(j, s) == CHOOSE v \in {w[2] : w \in Writes(avail[j])} : <<s, v>> \in Writes(avail[j])

(* A successful IN returns what the last successful OUT, DISCARD or        *)
(* WRITE_ZEROES before it left in that sector (the disk's initial contents *)
(* if none did), or what a write answered IOERR after that one left there: *)
(* a failed write may have written, but no write may be lost, reordered    *)
(* across a batch, or land on another sector.                              *)
ReadReturnsWrite ==
  \A k \in 1 .. Len(used) :
    LET c == avail[k]
        s == SeekTarget(c.sector)
        j == LastWriteBefore(k, s)
        failed == {ValueWritten(i, s) :
                     i \in {i \in j + 1 .. k - 1 :
                              /\ used[i].status = VIRTIO_BLK_S_IOERR
                              /\ \E w \in Writes(avail[i]) : w[1] = s}}
    IN (c.type = VIRTIO_BLK_T_IN /\ used[k].status = VIRTIO_BLK_S_OK) =>
         used[k].data \in failed \cup {IF j = 0 THEN InitCache[s]
                                        ELSE ValueWritten(j, s)}

(* Stricter: a successful IN returns what the last successful write left   *)
(* in that sector, as if a write answered IOERR had no effect.             *)
ReadYourWrites ==
  \A k \in 1 .. Len(used) :
    LET c == avail[k]
        s == SeekTarget(c.sector)
        j == LastWriteBefore(k, s)
    IN (c.type = VIRTIO_BLK_T_IN /\ used[k].status = VIRTIO_BLK_S_OK) =>
         used[k].data = IF j = 0 THEN InitCache[s] ELSE ValueWritten(j, s)

(* Once the guest has a successful FLUSH completion, every write that      *)
(* completed successfully before it is on stable storage: each sector's   *)
(* durable contents are no older than its last such write (what the       *)
(* VIRTIO_BLK_F_FLUSH feature the device offers promises the driver).      *)
DurableAfterFlush ==
  LET F == {j \in 1 .. Len(used) : avail[j].type = VIRTIO_BLK_T_FLUSH
                                   /\ used[j].status = VIRTIO_BLK_S_OK}
      f == IF F = {} THEN 0 ELSE Max(F)
  IN \A s \in DOMAIN io.durable :
       LET w == LastWriteBefore(f, s)
       IN w > 0 =>
            \E j \in w .. Len(avail) : <<s, io.durable[s]>> \in Writes(avail[j])

(* Every chain the guest publishes while the worker runs is eventually     *)
(* consumed by the guest from the used ring, unless the worker thread      *)
(* stops: the interrupt and the ISR byte together never lose a batch.      *)
RequestsComplete ==
  \A i \in 1 .. MaxReqs :
    (Len(avail) >= i /\ wpc \in Running) ~>
      (guest_seen >= i \/ wpc \in {"exited", "panicked"})

(* Spec section 4.4: a driver that writes 0 to driver_status after the     *)
(* device was activated resets it, and the transport then signals the     *)
(* worker's kill event. So once an activated device's status is 0, its    *)
(* worker is not left running on the old queue: the kill event is written *)
(* or no worker runs. (write_bar's tail only ever activates, and the only  *)
(* writer of the kill event is Drop for Block.)                            *)
ResetKillsWorker ==
  activated /\ driver_status = {} =>
    kill_evt \/ wpc \in {"none", "exited", "panicked"}

(* No descriptor chain the guest publishes makes the worker thread panic.  *)
NoWorkerPanic == wpc # "panicked"

(* Each FlushTimer wakeup of the worker answers its own expiry of the      *)
(* flush timer.                                                            *)
FlushPerExpiry == [][HandleFlushTimer => timer_fired]_vars

-----------------------------------------------------------------------------
(* Refinement: the transport and the block back-end together implement     *)
(* BlockDevice.  A request is a chain; the sectors it addresses are its    *)
(* header's (or its segment's) sector numbers, not where the seek lands.   *)
\* The sector an IN chain addresses.
AddressedRead(c) == IF c.type = VIRTIO_BLK_T_IN THEN c.sector ELSE -1

\* The sectors an OUT, DISCARD or WRITE_ZEROES chain addresses, and with what.
AddressedWrites(c) ==
  CASE c.type = VIRTIO_BLK_T_OUT -> {<<c.sector, c.data>>}
    [] c.type \in {VIRTIO_BLK_T_DISCARD, VIRTIO_BLK_T_WRITE_ZEROES} ->
         {<<c.seg.sector + k, Zero>> : k \in 0 .. c.seg.num - 1}
    [] OTHER -> {}

\* The used ring read as results: a used entry's status byte and data.
UsedResults == [k \in 1 .. Len(used) |->
                  [status |-> used[k].status, data |-> used[k].data]]

Device == INSTANCE BlockDevice
            WITH Requests <- Chains,
                 Sectors <- DOMAIN InitCache,
                 InitDisk <- InitCache,
                 OK <- VIRTIO_BLK_S_OK,
                 Statuses <- {VIRTIO_BLK_S_OK, VIRTIO_BLK_S_IOERR,
                              VIRTIO_BLK_S_UNSUPP, NoStatus},
                 ReadSector <- AddressedRead,
                 WritesOf <- AddressedWrites,
                 reqs <- avail,
                 results <- UsedResults,
                 disk <- io.cache,
                 halted <- wpc \in {"exited", "panicked"}

(* The device the guest sees through the rings is a BlockDevice: every     *)
(* batch process_queue publishes answers the next chains in avail order,   *)
(* each as an atomic step on the disk image that is either a success, or *)
(* an error leaving at most the request's own writes, and a worker that    *)
(* exits or panics leaves only the effects of chains it executed.          *)
BlockDeviceRefined == Device!Spec
=============================================================================
