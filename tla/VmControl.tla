------------------------------ MODULE VmControl ------------------------------
(***************************************************************************)
(* The VM control socket of src/vm_control/src/lib.rs: clients send a      *)
(* VmRequest as one fixed-size little-endian datagram (VmRequest::send),   *)
(* the main process receives it (VmRequest::recv), executes it against the *)
(* VM and the system allocator (VmRequest::execute, register_memory) and   *)
(* answers with one VmResponse datagram (VmResponse::send), which the      *)
(* client decodes (VmResponse::recv).                                      *)
(*                                                                         *)
(* Each client owns one socket pair, so a client's requests and responses  *)
(* are two FIFO queues of datagrams.  Wire integers keep their conversions *)
(* but are scaled to Width bits (Le32) and 2*Width bits (Le64); errno      *)
(* values are renumbered into that width.  The GPU buffer's width, height  *)
(* and plane descriptors are copied field by field and are left out; its   *)
(* format stands for the three request fields.                             *)
(***************************************************************************)
EXTENDS Integers, SequencesExt, FiniteSets

CONSTANTS
    Clients,      \* processes holding a control socket to the VM
    Width,        \* bits of a scaled Le32
    PageSize,     \* alignment of the device address space (pagesize())
    DevBase,      \* first device address
    DevSize,      \* size of the device address range
    Slots,        \* memory slots the hypervisor can still hand out
    BadSlot,      \* a slot number no registration returned
    MemSizes,     \* sizes a client asks register_memory to map
    BalloonPages, \* page counts of BalloonAdjust
    GpuSizes,     \* sizes the GPU allocator's buffers seek to
    HasGpu,       \* whether the allocator has a GPU memory allocator
    MaxRequests,  \* requests each client makes
    Failures      \* host calls that may fail: "mmap", "add_memory",
                  \* "balloon", "gpu"

ASSUME Width >= 3 /\ PageSize > 0 /\ BadSlot \notin Slots /\ HasGpu \in BOOLEAN

VARIABLES
    req_sock,   \* req_sock[c]: datagrams from client c not yet received
    resp_sock,  \* resp_sock[c]: response datagrams to client c
    phase,      \* phase[c]: "idle" or "waiting" for a response
    pending,    \* pending[c]: the request client c is waiting on
    expected,   \* expected[c]: the VmResponse execute built for c
    held,       \* held[c]: the [slot, pfn] registrations c was told of
    sent,       \* sent[c]: requests client c has made
    mem,        \* device memory the VM maps: slot -> [addr, size]
    dev_next,   \* first unallocated device address
    running,    \* the run loop's running flag
    balloon     \* page counts written to the balloon host socket

vars == <<req_sock, resp_sock, phase, pending, expected, held, sent, mem,
          dev_next, running, balloon>>

-----------------------------------------------------------------------------
(* Wire constants (lib.rs 92-97, 307-311) and the scaled integer casts.    *)

VM_REQUEST_TYPE_EXIT == 1
VM_REQUEST_TYPE_REGISTER_MEMORY == 2
VM_REQUEST_TYPE_UNREGISTER_MEMORY == 3
VM_REQUEST_TYPE_BALLOON_ADJUST == 4
VM_REQUEST_TYPE_ALLOCATE_AND_REGISTER_GPU_MEMORY == 5
VM_RESPONSE_TYPE_OK == 1
VM_RESPONSE_TYPE_ERR == 2
VM_RESPONSE_TYPE_REGISTER_MEMORY == 3
VM_RESPONSE_TYPE_ALLOCATE_AND_REGISTER_GPU_MEMORY == 4

ENOENT == 2
ERANGE == 3
EIO == 5
ENODEV == 6
EINVAL == 7

\* `x as u32` into an Le32, `x as u64` into an Le64, `u as i32`.
Le32(x) == x % (2^Width)
Le64(x) == x % (2^(2 * Width))
AsI32(u) == IF u >= 2^(Width - 1) THEN u - 2^Width ELSE u

\* The VmRequest and VmResponse variants; arg is the size, slot, page count
\* or format a variant carries.
Req(kind, arg) == [kind |-> kind, arg |-> arg]
Resp(kind, errno, pfn, slot) ==
    [kind |-> kind, errno |-> errno, pfn |-> pfn, slot |-> slot]
RespOk == Resp("Ok", 0, 0, 0)
RespErr(e) == Resp("Err", e, 0, 0)
NoRequest == Req("None", 0)

\* A decoding result: Ok(val) or Err(err) of VmControlError.
Ok(v) == [ok |-> TRUE, val |-> v, err |-> "None"]
Fail(e, none) == [ok |-> FALSE, val |-> none, err |-> e]

-----------------------------------------------------------------------------
(* The request codec.                                                      *)

\* VmRequestStruct::default() and the datagram's fd array.
NoReqStruct == [type_ |-> 0, slot |-> 0, size |-> 0, num_pages |-> 0,
                format |-> 0, fd |-> FALSE]

\* VmRequest::send: RegisterIoevent and RegisterIrqfd are refused with
\* InvalidType before anything is sent.
Sendable(r) == r.kind \notin {"RegisterIoevent", "RegisterIrqfd"}

\* (mutant) the RegisterMemory arm forgets fd_len = 1.
EncodeRequestNoFd(r) ==
    CASE r.kind = "Exit" ->
            [NoReqStruct EXCEPT !.type_ = VM_REQUEST_TYPE_EXIT]
      [] r.kind = "RegisterMemory" ->
            [NoReqStruct EXCEPT !.type_ = VM_REQUEST_TYPE_REGISTER_MEMORY,
                                !.size = Le64(r.arg)]
      [] r.kind = "UnregisterMemory" ->
            [NoReqStruct EXCEPT !.type_ = VM_REQUEST_TYPE_UNREGISTER_MEMORY,
                                !.slot = Le32(r.arg)]
      [] r.kind = "BalloonAdjust" ->
            [NoReqStruct EXCEPT !.type_ = VM_REQUEST_TYPE_BALLOON_ADJUST,
                                !.num_pages = Le32(r.arg)]
      [] r.kind = "AllocateGpu" ->
            [NoReqStruct EXCEPT
                !.type_ = VM_REQUEST_TYPE_ALLOCATE_AND_REGISTER_GPU_MEMORY,
                !.format = Le32(r.arg)]

EncodeRequest(r) ==
    CASE r.kind = "Exit" ->
            [NoReqStruct EXCEPT !.type_ = VM_REQUEST_TYPE_EXIT]
      [] r.kind = "RegisterMemory" ->
            [NoReqStruct EXCEPT !.type_ = VM_REQUEST_TYPE_REGISTER_MEMORY,
                                !.size = Le64(r.arg), !.fd = TRUE]
      [] r.kind = "UnregisterMemory" ->
            [NoReqStruct EXCEPT !.type_ = VM_REQUEST_TYPE_UNREGISTER_MEMORY,
                                !.slot = Le32(r.arg)]
      [] r.kind = "BalloonAdjust" ->
            [NoReqStruct EXCEPT !.type_ = VM_REQUEST_TYPE_BALLOON_ADJUST,
                                !.num_pages = Le32(r.arg)]
      [] r.kind = "AllocateGpu" ->
            [NoReqStruct EXCEPT
                !.type_ = VM_REQUEST_TYPE_ALLOCATE_AND_REGISTER_GPU_MEMORY,
                !.format = Le32(r.arg)]

\* (mutant) num_pages decoded without the `as i32`.
DecodeRequestUnsigned(d) ==
    CASE d.type_ = VM_REQUEST_TYPE_EXIT -> Ok(Req("Exit", 0))
      [] d.type_ = VM_REQUEST_TYPE_REGISTER_MEMORY ->
            IF d.fd THEN Ok(Req("RegisterMemory", d.size))
                    ELSE Fail("ExpectFd", NoRequest)
      [] d.type_ = VM_REQUEST_TYPE_UNREGISTER_MEMORY ->
            Ok(Req("UnregisterMemory", d.slot))
      [] d.type_ = VM_REQUEST_TYPE_BALLOON_ADJUST ->
            Ok(Req("BalloonAdjust", d.num_pages))
      [] d.type_ = VM_REQUEST_TYPE_ALLOCATE_AND_REGISTER_GPU_MEMORY ->
            Ok(Req("AllocateGpu", d.format))
      [] OTHER -> Fail("InvalidType", NoRequest)

\* VmRequest::recv of a full-sized datagram (every datagram send produces).
DecodeRequest(d) ==
    CASE d.type_ = VM_REQUEST_TYPE_EXIT -> Ok(Req("Exit", 0))
      [] d.type_ = VM_REQUEST_TYPE_REGISTER_MEMORY ->
            IF d.fd THEN Ok(Req("RegisterMemory", d.size))
                    ELSE Fail("ExpectFd", NoRequest)
      [] d.type_ = VM_REQUEST_TYPE_UNREGISTER_MEMORY ->
            Ok(Req("UnregisterMemory", d.slot))
      [] d.type_ = VM_REQUEST_TYPE_BALLOON_ADJUST ->
            Ok(Req("BalloonAdjust", AsI32(d.num_pages)))
      [] d.type_ = VM_REQUEST_TYPE_ALLOCATE_AND_REGISTER_GPU_MEMORY ->
            Ok(Req("AllocateGpu", d.format))
      [] OTHER -> Fail("InvalidType", NoRequest)

-----------------------------------------------------------------------------
(* The #[repr(C)] layout of the wire structs (lib.rs 100-110, 314-326).    *)

\* Field sizes in declaration order: Le32 is 4 bytes, Le64 is 8.
VmRequestStructFields == <<4, 4, 8, 4, 4, 4, 4>>
VmResponseStructFields == <<4, 4, 8, 4, 4, 4, 4, 4, 4, 4>>
VM_REQUEST_SIZE == 32
VM_RESPONSE_SIZE == 48

AlignUp(x, a) == ((x + a - 1) \div a) * a

\* repr(C): each field at the next multiple of its alignment (its size
\* here), the struct's size rounded up to its largest alignment.
ReprCSize(fs) ==
    AlignUp(FoldLeft(LAMBDA end, f : AlignUp(end, f) + f, 0, fs), Max(ToSet(fs)))
FieldBytes(fs) == FoldLeft(LAMBDA n, f : n + f, 0, fs)

\* VmResponse::send stores a VmResponseStruct::default() whose fields are
\* set one by one; the bytes of its padding are never written and carry
\* whatever the stack held (0 or any other value).
ResponsePadding ==
    IF ReprCSize(VmResponseStructFields) > FieldBytes(VmResponseStructFields)
    THEN {0, 1} ELSE {0}

-----------------------------------------------------------------------------
(* The response codec.                                                     *)

NoRespStruct ==
    [type_ |-> 0, errno |-> 0, pfn |-> 0, slot |-> 0, fd |-> FALSE, pad |-> 0]

\* e.errno().checked_abs().unwrap_or(ERANGE)
CheckedAbs(e) ==
    IF e = -(2^(Width - 1)) THEN ERANGE ELSE IF e < 0 THEN -e ELSE e

\* VmResponse::send.
EncodeResponse(r) ==
    CASE r.kind = "Ok" -> [NoRespStruct EXCEPT !.type_ = VM_RESPONSE_TYPE_OK]
      [] r.kind = "Err" ->
            [NoRespStruct EXCEPT !.type_ = VM_RESPONSE_TYPE_ERR,
                                 !.errno = Le32(CheckedAbs(r.errno))]
      [] r.kind = "RegisterMemory" ->
            [NoRespStruct EXCEPT !.type_ = VM_RESPONSE_TYPE_REGISTER_MEMORY,
                                 !.pfn = Le64(r.pfn), !.slot = Le32(r.slot)]
      [] r.kind = "AllocateGpu" ->
            [NoRespStruct EXCEPT
                !.type_ = VM_RESPONSE_TYPE_ALLOCATE_AND_REGISTER_GPU_MEMORY,
                !.pfn = Le64(r.pfn), !.slot = Le32(r.slot), !.fd = TRUE]

\* VmResponse::recv of a full-sized datagram.
DecodeResponse(d) ==
    CASE d.type_ = VM_RESPONSE_TYPE_OK -> Ok(RespOk)
      [] d.type_ = VM_RESPONSE_TYPE_ERR -> Ok(RespErr(AsI32(d.errno)))
      [] d.type_ = VM_RESPONSE_TYPE_REGISTER_MEMORY ->
            Ok(Resp("RegisterMemory", 0, d.pfn, d.slot))
      [] d.type_ = VM_RESPONSE_TYPE_ALLOCATE_AND_REGISTER_GPU_MEMORY ->
            IF d.fd THEN Ok(Resp("AllocateGpu", 0, d.pfn, d.slot))
                    ELSE Fail("ExpectFd", RespOk)
      [] OTHER -> Fail("InvalidType", RespOk)

-----------------------------------------------------------------------------
(* VmRequest::execute and register_memory.                                 *)

\* SystemAllocator::allocate_device_addresses: the next page-aligned
\* address whose [addr, addr + size) fits in the remaining range; fails on
\* size 0 or exhaustion.  Allocations are never freed.
AllocateDeviceAddresses(size) ==
    LET addr == ((dev_next + PageSize - 1) \div PageSize) * PageSize
    IN  IF size > 0 /\ addr + size <= DevBase + DevSize
        THEN [ok |-> TRUE, addr |-> addr]
        ELSE [ok |-> FALSE, addr |-> addr]

\* (mutant) the address itself returned as the pfn.
PfnBytes(addr) == addr

\* addr >> 12: the page frame number of a device address.
Pfn(addr) == addr \div PageSize

\* register_memory: map the fd, allocate device addresses, add the memory to
\* the VM (a free slot, or an error), and answer (addr >> 12, slot).  An
\* error of add_device_memory returns with the allocation already made.
\* (mutant) allocate_device_addresses' None is not checked.
RegisterMemoryUnchecked(size) ==
    LET a == AllocateDeviceAddresses(size)
        Err(e, next) == [ok |-> FALSE, errno |-> e, pfn |-> 0, slot |-> 0,
                         mem |-> mem, dev_next |-> next]
        Mapped == IF size = 0 THEN {FALSE}
                  ELSE IF "mmap" \in Failures THEN BOOLEAN ELSE {TRUE}
        Added == {[ok |-> TRUE, errno |-> 0, pfn |-> Pfn(a.addr),
                   slot |-> s, mem |-> mem @@ (s :> [addr |-> a.addr, size |-> size]),
                   dev_next |-> a.addr + size] : s \in Slots \ DOMAIN mem}
        AddFails == Slots \subseteq DOMAIN mem \/ "add_memory" \in Failures
    IN  (IF FALSE \in Mapped THEN {Err(EINVAL, dev_next)} ELSE {})
        \cup
        (IF TRUE \in Mapped
         THEN Added \cup (IF AddFails THEN {Err(EIO, a.addr + size)} ELSE {})
         ELSE {})

RegisterMemory(size) ==
    LET a == AllocateDeviceAddresses(size)
        Err(e, next) == [ok |-> FALSE, errno |-> e, pfn |-> 0, slot |-> 0,
                         mem |-> mem, dev_next |-> next]
        Mapped == IF size = 0 THEN {FALSE}
                  ELSE IF "mmap" \in Failures THEN BOOLEAN ELSE {TRUE}
        Added == {[ok |-> TRUE, errno |-> 0, pfn |-> Pfn(a.addr),
                   slot |-> s, mem |-> mem @@ (s :> [addr |-> a.addr, size |-> size]),
                   dev_next |-> a.addr + size] : s \in Slots \ DOMAIN mem}
        AddFails == Slots \subseteq DOMAIN mem \/ "add_memory" \in Failures
    IN  (IF FALSE \in Mapped THEN {Err(EINVAL, dev_next)} ELSE {})
        \cup
        (IF TRUE \in Mapped /\ ~a.ok THEN {Err(EINVAL, dev_next)} ELSE {})
        \cup
        (IF TRUE \in Mapped /\ a.ok
         THEN Added \cup (IF AddFails THEN {Err(EIO, a.addr + size)} ELSE {})
         ELSE {})

\* What an execution leaves behind: the response and the new VM state.
Outcome(resp, m, next, run, bal) ==
    [resp |-> resp, mem |-> m, dev_next |-> next, running |-> run, balloon |-> bal]

\* The response of register_memory's result for a RegisterMemory or an
\* AllocateAndRegisterGpuMemory request.
Registered(kind, o) ==
    Outcome(IF o.ok THEN Resp(kind, 0, o.pfn, o.slot) ELSE RespErr(o.errno),
            o.mem, o.dev_next, TRUE, balloon)

\* VmRequest::execute: *running is set to true first and to false by Exit;
\* every arm turns the host call's result into a VmResponse.
Execute(r) ==
    CASE r.kind = "Exit" -> {Outcome(RespOk, mem, dev_next, FALSE, balloon)}
      [] r.kind = "RegisterMemory" ->
            {Registered("RegisterMemory", o) : o \in RegisterMemory(r.arg)}
      [] r.kind = "UnregisterMemory" ->
            IF r.arg \in DOMAIN mem
            THEN {Outcome(RespOk, [s \in DOMAIN mem \ {r.arg} |-> mem[s]],
                          dev_next, TRUE, balloon)}
            ELSE {Outcome(RespErr(ENOENT), mem, dev_next, TRUE, balloon)}
      [] r.kind = "BalloonAdjust" ->
            {Outcome(RespOk, mem, dev_next, TRUE, Append(balloon, r.arg))}
            \cup (IF "balloon" \in Failures
                  THEN {Outcome(RespErr(EIO), mem, dev_next, TRUE, balloon)}
                  ELSE {})
      [] r.kind = "AllocateGpu" ->
            IF ~HasGpu
            THEN {Outcome(RespErr(ENODEV), mem, dev_next, TRUE, balloon)}
            ELSE (IF "gpu" \in Failures
                  THEN {Outcome(RespErr(EIO), mem, dev_next, TRUE, balloon)}
                  ELSE {})
                 \cup UNION {{Registered("AllocateGpu", o) : o \in RegisterMemory(sz)}
                              : sz \in GpuSizes}

-----------------------------------------------------------------------------
(* The clients and the VM's run loop.                                      *)

\* What a client may ask: it only unregisters slots it was given, or one
\* that no registration returned.
Requests(c) ==
    {Req("Exit", 0), Req("AllocateGpu", 1),
     Req("RegisterIoevent", 0), Req("RegisterIrqfd", 0),
     Req("UnregisterMemory", BadSlot)}
    \cup {Req("RegisterMemory", s) : s \in MemSizes}
    \cup {Req("UnregisterMemory", h.slot) : h \in held[c]}
    \cup {Req("BalloonAdjust", n) : n \in BalloonPages}

\* Datagrams a peer writes by hand (as the recv tests do): an unknown type,
\* and a RegisterMemory without its fd.
RawDatagrams ==
    {NoReqStruct,
     [NoReqStruct EXCEPT !.type_ = VM_REQUEST_TYPE_REGISTER_MEMORY]}

\* VmRequest::send, then wait for the response.  RegisterIoevent and
\* RegisterIrqfd fail locally; after the VM has stopped, the send fails.
ClientSend(c) ==
    /\ phase[c] = "idle"
    /\ sent[c] < MaxRequests
    /\ sent' = [sent EXCEPT ![c] = @ + 1]
    /\ \E r \in Requests(c) :
          \/ /\ Sendable(r) /\ running
             /\ req_sock' = [req_sock EXCEPT ![c] = Append(@, EncodeRequest(r))]
             /\ phase' = [phase EXCEPT ![c] = "waiting"]
             /\ pending' = [pending EXCEPT ![c] = r]
          \/ /\ ~Sendable(r)
             /\ UNCHANGED <<req_sock, phase, pending>>
          \/ /\ Sendable(r) /\ ~running
             /\ UNCHANGED <<req_sock, phase, pending>>
    /\ UNCHANGED <<resp_sock, expected, held, mem, dev_next, running, balloon>>

\* A peer writes a malformed datagram and does not wait for an answer.
ClientSendRaw(c) ==
    /\ phase[c] = "idle" /\ running
    /\ sent[c] < MaxRequests
    /\ sent' = [sent EXCEPT ![c] = @ + 1]
    /\ \E d \in RawDatagrams :
          req_sock' = [req_sock EXCEPT ![c] = Append(@, d)]
    /\ UNCHANGED <<resp_sock, phase, pending, expected, held, mem, dev_next,
                   running, balloon>>

\* The run loop serves a readable control socket: VmRequest::recv, then
\* execute and VmResponse::send.  A recv error consumes the datagram and
\* leaves nothing to execute or answer.
ServeRequest(c) ==
    /\ running
    /\ req_sock[c] /= <<>>
    /\ req_sock' = [req_sock EXCEPT ![c] = Tail(@)]
    /\ LET got == DecodeRequest(Head(req_sock[c])) IN
         \/ /\ got.ok
            /\ \E o \in Execute(got.val), p \in ResponsePadding :
                  /\ resp_sock' = [resp_sock EXCEPT ![c] =
                        Append(@, [EncodeResponse(o.resp) EXCEPT !.pad = p])]
                  /\ expected' = [expected EXCEPT ![c] = o.resp]
                  /\ mem' = o.mem
                  /\ dev_next' = o.dev_next
                  /\ running' = o.running
                  /\ balloon' = o.balloon
         \/ /\ ~got.ok
            /\ UNCHANGED <<resp_sock, expected, mem, dev_next, running, balloon>>
    /\ UNCHANGED <<phase, pending, held, sent>>

\* What a client keeps of a decoded response to request r.
Remember(h, got, r) ==
    CASE got.ok /\ got.val.kind \in {"RegisterMemory", "AllocateGpu"} ->
            h \cup {[slot |-> got.val.slot, pfn |-> got.val.pfn]}
      [] got.ok /\ got.val.kind = "Ok" /\ r.kind = "UnregisterMemory" ->
            {x \in h : x.slot /= r.arg}
      [] OTHER -> h

\* VmResponse::recv blocks until a datagram is queued (a connected datagram
\* socket sees no end of file when its peer goes away), then decodes it.
ClientRecv(c) ==
    /\ phase[c] = "waiting"
    /\ resp_sock[c] /= <<>>
    /\ resp_sock' = [resp_sock EXCEPT ![c] = Tail(@)]
    /\ held' = [held EXCEPT ![c] =
                  Remember(@, DecodeResponse(Head(resp_sock[c])), pending[c])]
    /\ phase' = [phase EXCEPT ![c] = "idle"]
    /\ UNCHANGED <<req_sock, pending, expected, sent, mem, dev_next, running, balloon>>

\* Every client has made its requests and holds no outstanding one, or an
\* Exit stopped the run loop (a client still waiting then blocks for good).
Finished ==
    /\ \/ \A c \in Clients : sent[c] = MaxRequests /\ phase[c] = "idle"
       \/ ~running
    /\ UNCHANGED vars

Init ==
    /\ req_sock = [c \in Clients |-> <<>>]
    /\ resp_sock = [c \in Clients |-> <<>>]
    /\ phase = [c \in Clients |-> "idle"]
    /\ pending = [c \in Clients |-> NoRequest]
    /\ expected = [c \in Clients |-> RespOk]
    /\ held = [c \in Clients |-> {}]
    /\ sent = [c \in Clients |-> 0]
    /\ mem = [s \in {} |-> [addr |-> 0, size |-> 0]]
    /\ dev_next = DevBase
    /\ running = TRUE
    /\ balloon = <<>>

Next ==
    \/ \E c \in Clients :
          ClientSend(c) \/ ClientSendRaw(c) \/ ServeRequest(c) \/ ClientRecv(c)
    \/ Finished

\* The run loop polls every control socket, and a waiting client blocks in
\* recv: both keep being scheduled.
Fairness == \A c \in Clients : WF_vars(ServeRequest(c)) /\ WF_vars(ClientRecv(c))

Spec == Init /\ [][Next]_vars /\ Fairness

-----------------------------------------------------------------------------
(* Properties.                                                             *)

TypeOK ==
    /\ phase \in [Clients -> {"idle", "waiting"}]
    /\ sent \in [Clients -> 0..MaxRequests]
    /\ running \in BOOLEAN
    /\ DOMAIN mem \subseteq Slots
    /\ dev_next \in DevBase..(DevBase + DevSize)
    /\ \A c \in Clients : Len(req_sock[c]) <= MaxRequests /\ Len(resp_sock[c]) <= 1

\* Codec: the request the run loop decodes from a waiting client's datagram
\* is the VmRequest the client sent (VmRequest::send then ::recv), and the
\* response a client is about to decode is the VmResponse execute built
\* (VmResponse::send then ::recv).  The casts pages as u32 / as i32, size as
\* u64 and errno checked_abs as u32 / as i32 all lie on this path.
WireRoundTrip ==
    \A c \in Clients :
        /\ phase[c] = "waiting" /\ req_sock[c] /= <<>> =>
              DecodeRequest(Last(req_sock[c])) = Ok(pending[c])
        /\ resp_sock[c] /= <<>> =>
              DecodeResponse(Head(resp_sock[c])) = Ok(expected[c])

\* A registration is where the VM put it and belongs to one client: every
\* [slot, pfn] a client was told by RegisterMemory or
\* AllocateAndRegisterGpuMemory and is not unregistering is a slot the VM
\* maps at pfn pages, no slot is told to two clients, the VM's
\* mappings do not overlap, and every slot the VM maps is held by a client or announced in a response in flight
\* (register_memory and the slot/pfn encoding of VmResponse::send).
HeldMemoryMapped ==
    LET Live(c) == {h \in held[c] :
                      ~(phase[c] = "waiting" /\ pending[c] = Req("UnregisterMemory", h.slot))}
    IN
    /\ \A c \in Clients : \A h \in Live(c) :
          h.slot \in DOMAIN mem /\ mem[h.slot].addr = h.pfn * PageSize
    /\ \A c, d \in Clients : \A h \in Live(c), k \in Live(d) :
          h.slot = k.slot => c = d
    /\ \A s, t \in DOMAIN mem :
          s /= t => \/ mem[s].addr + mem[s].size <= mem[t].addr
                    \/ mem[t].addr + mem[t].size <= mem[s].addr
    /\ \A s \in DOMAIN mem :
          \/ \E c \in Clients : \E h \in held[c] : h.slot = s
          \/ \E c \in Clients :
                /\ resp_sock[c] /= <<>>
                /\ expected[c].kind \in {"RegisterMemory", "AllocateGpu"}
                /\ expected[c].slot = s

\* Every request a client makes with VmRequest::send is eventually answered
\* while the run loop keeps running: the run loop never consumes a datagram
\* VmRequest::send wrote without replying (VmRequest::recv's ExpectFd and
\* InvalidType paths drop a datagram unanswered).  Once an Exit stops the
\* loop, a client still waiting blocks for good.
RequestsAnswered ==
    \A c \in Clients : phase[c] = "waiting" ~> (phase[c] = "idle" \/ ~running)

\* "Safe because it only has data and has no implicit padding": every byte
\* of a response datagram VmResponse::send writes is determined by the
\* response, none is left over from the server's stack.
ResponseBytesDefined ==
    \A c \in Clients : \A i \in DOMAIN resp_sock[c] : resp_sock[c][i].pad = 0

=============================================================================
