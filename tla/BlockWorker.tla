---------------------------- MODULE BlockWorker ----------------------------
(***************************************************************************)
(* The virtio-blk back-end (Block, Worker in devices/src/virtio/block.rs): *)
(* activation, and the worker thread's poll loop over the flush timer, the *)
(* queue event and the kill event.                                         *)
(*                                                                         *)
(* The split ring is abstracted to the history it carries: `avail` is the  *)
(* sequence of chains the driver has published (chain k has head index k), *)
(* `next_avail` the worker's cursor into it, and `used` the sequence of    *)
(* [head, len, status, data] entries the worker has published.            *)
(***************************************************************************)
EXTENDS BlkRequest, SequencesExt

CONSTANTS
  QueueSize,   \* QUEUE_SIZE: the queue's size and used_desc_heads' length
  Failures     \* which host-side failures may happen: a subset of
               \* {"disk", "timer", "fd", "worker_setup", "activate"};
               \* "disk" brings both a disk call failing before it wrote
               \* and one failing after ("partial"), "fd" the worker's
               \* poll_ctx.wait and queue_evt.read

VARIABLES
  wpc,         \* worker thread: "none", "starting", "idle" (in poll_ctx.wait),
               \* "handling" (iterating events), "exited", "panicked"
  todo,        \* tokens of the current poll_ctx.wait() not yet handled
  needs_irq,   \* needs_interrupt of the current loop iteration
  next_avail,  \* the worker's queue: chains avail[1..next_avail] consumed
  io,          \* disk image and flush timer: [cache, durable, armed, readable]
  avail,       \* chains published in the available ring
  used,        \* entries published in the used ring
  queue_evt,   \* the queue EventFd's counter is non-zero
  kill_evt,    \* the kill EventFd has been written
  isr,         \* interrupt_status: set of bits ("USED_RING")
  irq,         \* interrupt EventFd written, not yet taken by the guest
  disk_held,   \* Block.disk_image is Some
  kill_held,   \* Block.kill_evt is Some
  spawned,     \* history: number of worker threads spawned
  timer_fired  \* history: the flush timer expired since the worker last
               \* handled a FlushTimer token

worker_vars == <<wpc, todo, needs_irq, next_avail, io, timer_fired>>
block_vars == <<disk_held, kill_held, spawned>>
shared_vars == <<avail, used, queue_evt, kill_evt, isr, irq>>

Tokens == {"FlushTimer", "QueueAvailable", "Kill"}
INTERRUPT_STATUS_USED_RING == "USED_RING"
Running == {"idle", "handling"}

-----------------------------------------------------------------------------
(* Block::activate, called by the transport with the queue and resources.  *)
(* Creating the kill EventFd pair may fail: activate returns with nothing  *)
(* done. Otherwise the disk is moved into a spawned worker thread; if the  *)
(* spawn fails the disk is dropped with the closure.                       *)
BlockActivate ==
  \/ /\ "activate" \in Failures
     /\ UNCHANGED <<wpc, block_vars>>
  \/ /\ kill_held' = TRUE
     /\ IF disk_held
        THEN /\ disk_held' = FALSE
             /\ \/ /\ wpc' = "starting"
                   /\ spawned' = spawned + 1
                \/ /\ "activate" \in Failures
                   /\ UNCHANGED <<wpc, spawned>>
        ELSE UNCHANGED <<wpc, disk_held, spawned>>

(* Drop for Block: write the kill event if the device was activated.       *)
BlockDrop ==
  /\ kill_held' = FALSE
  /\ kill_evt' = (kill_evt \/ kill_held)

-----------------------------------------------------------------------------
(* Worker::run setup: TimerFd::new and PollContext::new may fail, in which *)
(* case the thread returns before polling.                                 *)
WorkerSetup ==
  /\ wpc = "starting"
  /\ \/ wpc' = "idle"
     \/ /\ "worker_setup" \in Failures
        /\ wpc' = "exited"
  /\ UNCHANGED <<todo, needs_irq, next_avail, io, timer_fired, block_vars,
                 shared_vars>>

\* The descriptors readable for the level-triggered poll context.
Readable ==
  {t \in Tokens : \/ t = "FlushTimer" /\ io.readable
                  \/ t = "QueueAvailable" /\ queue_evt
                  \/ t = "Kill" /\ kill_evt}

(* poll_ctx.wait() returns every readable token and needs_interrupt is    *)
(* reset; if the wait fails the worker breaks out of the poll loop.        *)
WorkerWait ==
  /\ wpc = "idle"
  /\ Readable # {}
  /\ \/ /\ wpc' = "handling"
        /\ todo' = Readable
        /\ needs_irq' = FALSE
     \/ /\ "fd" \in Failures
        /\ wpc' = "exited"
        /\ UNCHANGED <<todo, needs_irq>>
  /\ UNCHANGED <<next_avail, io, timer_fired, block_vars, shared_vars>>

(* Token::FlushTimer: self.disk_image.flush(), whose error would leave the *)
(* poll loop; on the host file it is Write::flush, which does nothing and  *)
(* returns Ok.  The timer descriptor itself is not read.                   *)
HandleFlushTimer ==
  /\ wpc = "handling"
  /\ "FlushTimer" \in todo
  /\ todo' = todo \ {"FlushTimer"}
  /\ timer_fired' = FALSE
  /\ UNCHANGED <<wpc, io, needs_irq, next_avail, block_vars, shared_vars>>

(* Token::Kill: break 'poll, whatever is left of the batch.                *)
HandleKill ==
  /\ wpc = "handling"
  /\ "Kill" \in todo
  /\ wpc' = "exited"
  /\ todo' = {}
  /\ UNCHANGED <<needs_irq, next_avail, io, timer_fired, block_vars,
                 shared_vars>>

-----------------------------------------------------------------------------
(* Worker::process_queue over the chains the queue iterator yields.        *)
(* One fold step handles one chain: parse it, execute it, write its status *)
(* byte (unwrap: a status address outside guest memory panics), record     *)
(* (head, len) in used_desc_heads[used_count] (a [_; QUEUE_SIZE] array: a  *)
(* QUEUE_SIZE+1-th chain panics on the index).                             *)
\* Mutant: used_desc_heads one entry shorter than the queue.
UsedDescHeadsFullEarly(heads) == Len(heads) >= QueueSize - 1

(* used_desc_heads[used_count] is out of bounds once QUEUE_SIZE heads are  *)
(* stored.                                                                 *)
UsedDescHeadsFull(heads) == Len(heads) >= QueueSize

\* Mutant: each chain executes against the disk as it was when the batch
\* started, not after the chains before it.
ChainStepStaleIo(acc, x) ==
  LET head == x[1]
      c == x[2]
      ex == Execute(c, io, x[3])
      entry == IF Parses(c)
               THEN [head |-> head, len |-> ex.len, status |-> ex.status,
                     data |-> ex.data]
               ELSE [head |-> head, len |-> 0, status |-> NoStatus,
                     data |-> Zero]
      io2 == IF Parses(c) THEN ex.io ELSE acc.io
      status_panics == Parses(c) /\ ~StatusDesc(c).mem
  IN IF acc.panic THEN acc
     ELSE [io |-> io2,
           heads |-> IF status_panics THEN acc.heads
                     ELSE Append(acc.heads, entry),
           panic |-> status_panics \/ UsedDescHeadsFull(acc.heads)]

ChainStep(acc, x) ==
  LET head == x[1]
      c == x[2]
      ex == Execute(c, acc.io, x[3])
      entry == IF Parses(c)
               THEN [head |-> head, len |-> ex.len, status |-> ex.status,
                     data |-> ex.data]
               ELSE [head |-> head, len |-> 0, status |-> NoStatus,
                     data |-> Zero]
      io2 == IF Parses(c) THEN ex.io ELSE acc.io
      status_panics == Parses(c) /\ ~StatusDesc(c).mem
  IN IF acc.panic THEN acc
     ELSE [io |-> io2,
           heads |-> IF status_panics THEN acc.heads
                     ELSE Append(acc.heads, entry),
           panic |-> status_panics \/ UsedDescHeadsFull(acc.heads)]

ProcessQueue(chains, fails) ==
  FoldLeft(ChainStep, [io |-> io, heads |-> <<>>, panic |-> FALSE],
           [k \in 1 .. Len(chains) |-> <<next_avail + k, chains[k], fails[k]>>])

\* The host call that fails, if any, per chain of the batch.
FailChoices(n) ==
  [1 .. n -> {"none"} \cup (Failures \cap {"disk", "timer"})
                     \cup (IF "disk" \in Failures THEN {"partial"} ELSE {})]

(* The queue iterator leaves next_avail past the last chain it yielded.   *)
\* Mutants: the iterator runs on a copy of the queue; it overshoots by one.
AdvanceAvailStale == next_avail' = next_avail
AdvanceAvailPastEnd == next_avail' = Len(avail) + 1
AdvanceAvail == next_avail' = Len(avail)

(* Token::QueueAvailable: read the queue event (on failure leave the poll *)
(* loop), process every available chain, then add_used each (head, len)  *)
(* in order; a non-empty batch asks for an interrupt.                      *)
QueueEvtReadFails ==
  /\ wpc = "handling"
  /\ "QueueAvailable" \in todo
  /\ "fd" \in Failures
  /\ wpc' = "exited"
  /\ UNCHANGED <<todo, needs_irq, next_avail, io, timer_fired, block_vars,
                 shared_vars>>

HandleQueueAvailable ==
  /\ wpc = "handling"
  /\ "QueueAvailable" \in todo
  /\ LET chains == SubSeq(avail, next_avail + 1, Len(avail))
     IN \E fails \in FailChoices(Len(chains)) :
          LET r == ProcessQueue(chains, fails)
          IN /\ io' = r.io
             /\ queue_evt' = FALSE
             /\ IF r.panic
                THEN /\ wpc' = "panicked"
                     /\ UNCHANGED <<todo, needs_irq, next_avail, used>>
                ELSE /\ todo' = todo \ {"QueueAvailable"}
                     /\ AdvanceAvail
                     /\ used' = used \o r.heads
                     /\ needs_irq' = (needs_irq \/ r.heads # <<>>)
                     /\ UNCHANGED wpc
  /\ UNCHANGED <<avail, kill_evt, isr, irq, timer_fired, block_vars>>

(* End of one loop iteration: signal_used_queue if needed (set USED_RING   *)
(* in interrupt_status, then write the interrupt EventFd).                 *)
\* Mutant: signal_used_queue writes the EventFd without setting USED_RING.
EndBatchNoStatus ==
  /\ wpc = "handling"
  /\ todo = {}
  /\ wpc' = "idle"
  /\ irq' = (irq \/ needs_irq)
  /\ UNCHANGED <<todo, needs_irq, next_avail, io, timer_fired, block_vars,
                 avail, used, queue_evt, kill_evt, isr>>

EndBatch ==
  /\ wpc = "handling"
  /\ todo = {}
  /\ wpc' = "idle"
  /\ IF needs_irq
     THEN /\ isr' = isr \cup {INTERRUPT_STATUS_USED_RING}
          /\ irq' = TRUE
     ELSE UNCHANGED <<isr, irq>>
  /\ UNCHANGED <<todo, needs_irq, next_avail, io, timer_fired, block_vars,
                 avail, used, queue_evt, kill_evt>>

WorkerNext ==
  \/ WorkerSetup
  \/ WorkerWait
  \/ HandleFlushTimer
  \/ HandleQueueAvailable
  \/ QueueEvtReadFails
  \/ HandleKill
  \/ EndBatch

(* The flush timer expires (environment step): an armed timer becomes      *)
(* unarmed and its descriptor readable.                                    *)
TimerExpire ==
  /\ wpc \in Running
  /\ io.armed
  /\ io' = [io EXCEPT !.armed = FALSE, !.readable = TRUE]
  /\ timer_fired' = TRUE
  /\ UNCHANGED <<wpc, todo, needs_irq, next_avail, block_vars, shared_vars>>

(* The host's page cache writes some of the image's sectors back to stable *)
(* storage (environment step, whether or not the worker runs).             *)
HostWriteback ==
  /\ \E S \in SUBSET DOMAIN io.cache :
       io' = [io EXCEPT !.durable = [s \in DOMAIN @ |->
                                      IF s \in S THEN io.cache[s] ELSE @[s]]]
  /\ io' # io
  /\ UNCHANGED <<wpc, todo, needs_irq, next_avail, timer_fired, block_vars,
                 shared_vars>>
=============================================================================
