---------------------------- MODULE BlockDevice ----------------------------
(***************************************************************************)
(* What a virtio block device promises its driver, without rings, threads, *)
(* timers or descriptor layouts: the requests the driver makes available   *)
(* are answered in the order it made them, each as one atomic step on a    *)
(* disk of Sectors; a successful read returns the sector's current        *)
(* contents, a successful write changes exactly the sectors it addresses, *)
(* and an error may leave any part of the request's writes behind (a      *)
(* write that failed part way, or succeeded and was then reported failed). *)
(* Nothing is promised about stable storage: the image is flushed with    *)
(* Write::flush, which a host file does not sync.  The device may stop    *)
(* for good; requests it executed but never answered may then have taken  *)
(* effect.                                                                 *)
(***************************************************************************)
EXTENDS Integers, Sequences

CONSTANTS
  Requests,       \* the requests a driver may make
  Sectors,        \* the disk's sectors
  InitDisk,       \* the disk's initial contents
  Zero,           \* the data of a result that carries none
  OK,             \* the success status
  Statuses,       \* every status a result may carry
  ReadSector(_),  \* the sector a read request reads, or NoSector
  WritesOf(_)     \* <<sector, value>> pairs a request writes on success

NoSector == -1

VARIABLES
  reqs,     \* the requests made available, in order
  results,  \* results[k]: [status, data] answering reqs[k]
  disk,     \* contents a read returns
  halted    \* the device has stopped serving

vars == <<reqs, results, disk, halted>>

\* A request may succeed only if every sector it addresses is on the disk.
InRange(r) ==
  /\ ReadSector(r) \in Sectors \cup {NoSector}
  /\ \A w \in WritesOf(r) : w[1] \in Sectors

Overwrite(d, ws) == [s \in DOMAIN d |-> IF \E w \in ws : w[1] = s
                                        THEN (CHOOSE w \in ws : w[1] = s)[2]
                                        ELSE d[s]]

\* The states one answered request can lead to from st = [results, disk]:
\* success, or any error status with any part of the writes applied.  A
\* request that addresses a sector off the disk fails before it writes.
Answer(st, r) ==
  LET ok == [status |-> OK,
             data |-> IF ReadSector(r) = NoSector THEN Zero
                      ELSE st.disk[ReadSector(r)]]
      d2 == Overwrite(st.disk, WritesOf(r))
  IN  (IF InRange(r)
       THEN {[results |-> Append(st.results, ok), disk |-> d2]}
       ELSE {})
      \cup {[results |-> Append(st.results, [status |-> e, data |-> Zero]),
             disk |-> Overwrite(st.disk, part)]
              : e \in Statuses \ {OK},
                part \in IF InRange(r) THEN SUBSET WritesOf(r) ELSE {{}}}

\* Answering the requests rs one after the other.
RECURSIVE AnswerAll(_, _)
AnswerAll(st, rs) ==
  IF rs = <<>> THEN {st}
  ELSE UNION {AnswerAll(t, Tail(rs)) : t \in Answer(st, Head(rs))}

Pending == SubSeq(reqs, Len(results) + 1, Len(reqs))
Now == [results |-> results, disk |-> disk]

-----------------------------------------------------------------------------
Init ==
  /\ reqs = <<>>
  /\ results = <<>>
  /\ disk = InitDisk
  /\ halted = FALSE

\* The driver makes a request available.
Submit(r) ==
  /\ reqs' = Append(reqs, r)
  /\ UNCHANGED <<results, disk, halted>>

\* The device answers the next n pending requests, in order.
Complete ==
  /\ ~halted
  /\ \E n \in 1 .. Len(Pending) :
       \E st \in AnswerAll(Now, SubSeq(Pending, 1, n)) :
         /\ results' = st.results
         /\ disk' = st.disk
  /\ UNCHANGED <<reqs, halted>>

\* The device stops; the first n pending requests may have taken effect
\* without being answered.
Halt ==
  /\ ~halted
  /\ halted' = TRUE
  /\ \E n \in 0 .. Len(Pending) :
       \E st \in AnswerAll(Now, SubSeq(Pending, 1, n)) :
         /\ disk' = st.disk
  /\ UNCHANGED <<reqs, results>>

Next ==
  \/ \E r \in Requests : Submit(r)
  \/ Complete
  \/ Halt

Spec == Init /\ [][Next]_vars
=============================================================================
