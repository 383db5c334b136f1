--------------------------- MODULE UmassRequest ---------------------------
(***************************************************************************)
(* A mass-storage request from the client's enqueue_umass_request          *)
(* (api/xhci_api.c) through the request queue to xhci_stub                 *)
(* (api/src/xhci_stub.c), over the bus, back through software_interrupt's  *)
(* completion to the client that polls in_progress.                        *)
(*                                                                         *)
(* Three protection domains share umass_req / umass_resp and in_progress   *)
(* and wake each other with Microkit notifications, which are bits that    *)
(* coalesce while their receiver is not waiting.  The blk queues and the   *)
(* completion callback live in submodules (sDDF, netbsd) and are modelled  *)
(* from how the code uses them.                                            *)
(*                                                                         *)
(* The stub passes umass device 0 to read_block and write_block whatever   *)
(* device the client named, so the guarantees hold for that device only.   *)
(***************************************************************************)
EXTENDS Integers, Sequences, FiniteSets

CONSTANTS Block,        \* block numbers
          Data,         \* contents of a block
          Device,       \* ids in usb_devices
          UmassId,      \* umass_id of each mass-storage device in Device
          QSize,        \* BLK_REQ_QUEUE_SIZE, BLK_RESP_QUEUE_SIZE
          MaxXfer,      \* bound: requests the client makes
          None          \* no request, no transfer

ASSUME UmassAssumption ==
    /\ QSize \in Nat \ {0} /\ MaxXfer \in Nat
    /\ DOMAIN UmassId \subseteq Device
    /\ \A d \in DOMAIN UmassId : UmassId[d] \in Nat
    /\ \E d \in DOMAIN UmassId : UmassId[d] = 0
    /\ None \notin [req : [umass_id : Nat, read : BOOLEAN, blkno : Block],
                   executed : BOOLEAN]

VARIABLES
    cpc,                \* client: idle, enqueue, notify, poll, resp
    umass_xfer,         \* client: the struct umass_request it made
    current_xfer,       \* client: last transaction id
    ret,                \* client: result of the last enqueue_umass_request
    val,                \* shared heap: the memory xfer->val points to
    req_queue, resp_queue, in_progress,         \* umass_req, umass_resp
    pending,            \* notification bits set on xhci_stub
    batch,              \* bits it is handling now, in ascending order
    spc, xfer,          \* stub: place in create_umass_xfer, what it dequeued
    bus,                \* the transfer on the bus, or the one completing
    ipc,                \* software_interrupt: idle, notify
    disk                \* contents of each umass device

clientVars == <<cpc, umass_xfer, current_xfer, ret>>
queueVars == <<req_queue, resp_queue, in_progress>>
stubVars == <<batch, spc, xfer>>
deviceVars == <<bus, ipc, disk>>
vars == <<clientVars, val, queueVars, pending, stubVars, deviceVars>>

Umass == {UmassId[d] : d \in DOMAIN UmassId}

UMASS_FLUSH == 47
UMASS_COMPLETE == 49

---------------------------------------------------------------------------
(* The blk queue of sDDF: a full queue refuses, and no caller looks.       *)

BlkEnqueue(q, e) == IF Len(q) < QSize THEN Append(q, e) ELSE q
BlkDequeue(q) == IF q = <<>> THEN q ELSE Tail(q)

Init ==
    /\ cpc = "idle" /\ umass_xfer = None /\ current_xfer = -1 /\ ret = 0
    /\ val \in Data
    /\ req_queue = <<>> /\ resp_queue = <<>> /\ in_progress = FALSE
    /\ pending = {} /\ batch = {} /\ spc = "wait" /\ xfer = None
    /\ bus = None /\ ipc = "idle"
    /\ disk \in [Umass -> [Block -> Data]]

---------------------------------------------------------------------------
(* The client: enqueue_umass_request and execute_next.                     *)

\* "Device %d is not a mass storage device".
RejectRequest(dev) ==
    /\ cpc = "idle" /\ dev \notin DOMAIN UmassId
    /\ ret' = -1
    /\ UNCHANGED <<cpc, umass_xfer, current_xfer, val, queueVars, pending,
                   stubVars, deviceVars>>

\* Faulty variant: the stub is notified before the request is in its queue.
BeginRequestNotifiesFirst(dev, read, blkno, d) ==
    /\ cpc = "idle" /\ dev \in DOMAIN UmassId
    /\ current_xfer < MaxXfer - 1
    /\ current_xfer' = current_xfer + 1
    /\ umass_xfer' = [dev_id |-> dev, umass_id |-> UmassId[dev], read |-> read,
                      blkno |-> blkno, xfer_id |-> current_xfer + 1]
    /\ val' = d
    /\ in_progress' = TRUE
    /\ pending' = pending \cup {UMASS_FLUSH}
    /\ cpc' = "enqueue"
    /\ UNCHANGED <<ret, req_queue, resp_queue, stubVars, deviceVars>>

\* The client fills its memory, takes the next id and marks the queue busy
\* before it publishes the request.  locked is never set: the else branch
\* of the test on it is not reachable.
BeginRequest(dev, read, blkno, d) ==
    /\ cpc = "idle" /\ dev \in DOMAIN UmassId
    /\ current_xfer < MaxXfer - 1
    /\ current_xfer' = current_xfer + 1
    /\ umass_xfer' = [dev_id |-> dev, umass_id |-> UmassId[dev], read |-> read,
                      blkno |-> blkno, xfer_id |-> current_xfer + 1]
    /\ val' = d
    /\ in_progress' = TRUE
    /\ cpc' = "enqueue"
    /\ UNCHANGED <<ret, req_queue, resp_queue, pending, stubVars, deviceVars>>

\* Faulty variant: writes are queued with the code of a flush.
EnqueueReqFlush ==
    /\ cpc = "enqueue"
    /\ req_queue' = BlkEnqueue(req_queue,
                               [code |-> IF umass_xfer.read THEN "READ_BLOCKS"
                                         ELSE "FLUSH",
                                blkno |-> umass_xfer.blkno,
                                id |-> umass_xfer.xfer_id])
    /\ cpc' = "notify"
    /\ UNCHANGED <<umass_xfer, current_xfer, ret, val, resp_queue, in_progress,
                   pending, stubVars, deviceVars>>

EnqueueReq ==
    /\ cpc = "enqueue"
    /\ req_queue' = BlkEnqueue(req_queue,
                               [code |-> IF umass_xfer.read THEN "READ_BLOCKS"
                                         ELSE "WRITE_BLOCKS",
                                blkno |-> umass_xfer.blkno,
                                id |-> umass_xfer.xfer_id])
    /\ cpc' = "notify"
    /\ UNCHANGED <<umass_xfer, current_xfer, ret, val, resp_queue, in_progress,
                   pending, stubVars, deviceVars>>

NotifyFlush ==
    /\ cpc = "notify"
    /\ pending' = pending \cup {UMASS_FLUSH}
    /\ cpc' = "poll"
    /\ UNCHANGED <<umass_xfer, current_xfer, ret, val, queueVars, stubVars, deviceVars>>

\* while (in_progress) seL4_Yield(): a turn that finds it TRUE changes nothing.
PollDone ==
    /\ cpc = "poll" /\ ~in_progress
    /\ cpc' = "resp"
    /\ UNCHANGED <<umass_xfer, current_xfer, ret, val, queueVars, pending,
                   stubVars, deviceVars>>

\* Faulty variant: the response stays in the queue.
TakeResponseKept ==
    /\ cpc = "resp"
    /\ ret' = 1
    /\ cpc' = "idle"
    /\ UNCHANGED <<umass_xfer, current_xfer, val, queueVars, pending,
                   stubVars, deviceVars>>

\* The response's status is not looked at, nor whether there was one.
TakeResponse ==
    /\ cpc = "resp"
    /\ resp_queue' = BlkDequeue(resp_queue)
    /\ ret' = 1
    /\ cpc' = "idle"
    /\ UNCHANGED <<umass_xfer, current_xfer, val, req_queue, in_progress, pending,
                   stubVars, deviceVars>>

---------------------------------------------------------------------------
(* xhci_stub: notified and create_umass_xfer.                              *)

\* Microkit takes every bit at once and calls notified in ascending order.
StubWake ==
    /\ spc = "wait" /\ batch = {} /\ pending # {}
    /\ batch' = pending /\ pending' = {}
    /\ UNCHANGED <<clientVars, val, queueVars, spc, xfer, deviceVars>>

\* An empty queue would leave code, buffer and blkno uninitialised:
\* FlushFindsRequest states that this does not happen.
DequeueReq ==
    /\ spc = "wait" /\ UMASS_FLUSH \in batch
    /\ req_queue # <<>>
    /\ xfer' = Head(req_queue)
    /\ req_queue' = BlkDequeue(req_queue)
    /\ spc' = "submit"
    /\ UNCHANGED <<clientVars, val, resp_queue, in_progress, pending, batch, deviceVars>>

\* Faulty variant: the client is released when the transfer is submitted.
SubmitXferReleases ==
    /\ spc = "submit"
    /\ bus' = [umass_id |-> 0, req |-> xfer, executed |-> FALSE]
    /\ in_progress' = FALSE
    /\ batch' = batch \ {UMASS_FLUSH}
    /\ spc' = "wait"
    /\ UNCHANGED <<clientVars, val, req_queue, resp_queue, pending, xfer, ipc, disk>>

\* read_block(0, ...) or write_block(0, ...): nothing under src/ enqueues any
\* other code.
SubmitXfer ==
    /\ spc = "submit"
    /\ bus' = [umass_id |-> 0, req |-> xfer, executed |-> FALSE]
    /\ batch' = batch \ {UMASS_FLUSH}
    /\ spc' = "wait"
    /\ UNCHANGED <<clientVars, val, queueVars, pending, xfer, ipc, disk>>

\* Faulty variant: completion does not release the client.
HandleCompleteKept ==
    /\ spc = "wait" /\ UMASS_COMPLETE \in batch /\ UMASS_FLUSH \notin batch
    /\ batch' = batch \ {UMASS_COMPLETE}
    /\ UNCHANGED <<clientVars, val, queueVars, pending, spc, xfer, deviceVars>>

\* The release of the client: in_progress = false.
HandleComplete ==
    /\ spc = "wait" /\ UMASS_COMPLETE \in batch /\ UMASS_FLUSH \notin batch
    /\ in_progress' = FALSE
    /\ batch' = batch \ {UMASS_COMPLETE}
    /\ UNCHANGED <<clientVars, val, req_queue, resp_queue, pending, spc, xfer, deviceVars>>

---------------------------------------------------------------------------
(* The device and software_interrupt's completion callback (netbsd).       *)

\* The transfer moves the data, or fails and moves none.
DeviceTransfer(ok) ==
    /\ bus # None /\ ~bus.executed
    /\ bus' = [bus EXCEPT !.executed = TRUE]
    /\ IF ~ok THEN UNCHANGED <<val, disk>>
       ELSE IF bus.req.code = "READ_BLOCKS"
            THEN val' = disk[bus.umass_id][bus.req.blkno] /\ UNCHANGED disk
            ELSE disk' = [disk EXCEPT ![bus.umass_id][bus.req.blkno] = val] /\ UNCHANGED val
    /\ resp_queue' = BlkEnqueue(resp_queue, [ok |-> ok, id |-> bus.req.id])
    /\ ipc' = "notify"
    /\ UNCHANGED <<clientVars, req_queue, in_progress, pending, stubVars>>

NotifyComplete ==
    /\ ipc = "notify"
    /\ pending' = pending \cup {UMASS_COMPLETE}
    /\ bus' = None
    /\ ipc' = "idle"
    /\ UNCHANGED <<clientVars, val, queueVars, stubVars, disk>>

---------------------------------------------------------------------------
Client ==
    \/ \E dev \in Device : RejectRequest(dev)
    \/ \E dev \in Device, read \in BOOLEAN, blkno \in Block, d \in Data :
            BeginRequest(dev, read, blkno, d)
    \/ EnqueueReq
    \/ NotifyFlush
    \/ PollDone
    \/ TakeResponse

Stub == StubWake \/ DequeueReq \/ SubmitXfer \/ HandleComplete

Interrupts == (\E ok \in BOOLEAN : DeviceTransfer(ok)) \/ NotifyComplete

Next == Client \/ Stub \/ Interrupts

Spec == Init /\ [][Next]_vars

\* The kernel runs a runnable domain once no domain of higher priority is
\* runnable, and the domains above the client all go back to waiting.  That
\* the device answers is an assumption on the hardware: no callout ever
\* times a transfer out.  The client need not ask for anything.
Fairness ==
    /\ WF_vars(EnqueueReq) /\ WF_vars(NotifyFlush)
    /\ WF_vars(PollDone) /\ WF_vars(TakeResponse)
    /\ WF_vars(Stub) /\ WF_vars(Interrupts)

FairSpec == Spec /\ Fairness

---------------------------------------------------------------------------
(* Properties.                                                             *)

Request == [dev_id : Device, umass_id : Umass, read : BOOLEAN, blkno : Block,
            xfer_id : 0 .. MaxXfer - 1]
Queued == [code : {"READ_BLOCKS", "WRITE_BLOCKS"}, blkno : Block, id : 0 .. MaxXfer - 1]
Response == [ok : BOOLEAN, id : 0 .. MaxXfer - 1]
Transfer == [umass_id : Umass, req : Queued, executed : BOOLEAN]

\* The type invariant; the queues never exceed their size.
TypeOK ==
    /\ cpc \in {"idle", "enqueue", "notify", "poll", "resp"}
    /\ umass_xfer \in Request \cup {None}
    /\ current_xfer \in -1 .. MaxXfer - 1 /\ ret \in {-1, 0, 1} /\ val \in Data
    /\ req_queue \in Seq(Queued) /\ Len(req_queue) <= QSize
    /\ resp_queue \in Seq(Response) /\ Len(resp_queue) <= QSize
    /\ in_progress \in BOOLEAN
    /\ pending \subseteq {UMASS_FLUSH, UMASS_COMPLETE}
    /\ batch \subseteq {UMASS_FLUSH, UMASS_COMPLETE}
    /\ spc \in {"wait", "submit"} /\ xfer \in Queued \cup {None}
    /\ bus \in Transfer \cup {None} /\ ipc \in {"idle", "notify"}
    /\ disk \in [Umass -> [Block -> Data]]

\* create_umass_xfer, which does not check blk_dequeue_req, always finds the
\* request it was notified of: notifications and requests stay in step.
FlushFindsRequest ==
    (spc = "wait" /\ UMASS_FLUSH \in batch) => req_queue # <<>>

\* When polling ends, the response the client takes without looking is the
\* one to its own request, and the only one.
ResponseMatches ==
    cpc = "resp" => /\ Len(resp_queue) = 1
                    /\ resp_queue[1].id = umass_xfer.xfer_id

\* A returned call leaves nothing behind that a later one could meet: no
\* request, response, notification or transfer.
Quiescent ==
    cpc = "idle" => /\ req_queue = <<>> /\ resp_queue = <<>> /\ ~in_progress
                    /\ pending = {} /\ batch = {}
                    /\ spc = "wait" /\ bus = None /\ ipc = "idle"

\* The call in progress as its caller sees it.
Call ==
    IF cpc = "idle" THEN None
    ELSE [req |-> [umass_id |-> umass_xfer.umass_id, read |-> umass_xfer.read,
                   blkno |-> umass_xfer.blkno],
          executed |-> resp_queue # <<>>]

Disk == INSTANCE SyncDisk WITH NoCall <- None, call <- Call

\* enqueue_umass_request is a synchronous operation on the named block of
\* the device: executed once, after the call and before its return.
ImplementsSyncDisk == Disk!Spec

\* Every call returns: the release cannot precede the mark it clears, so the
\* client never polls a flag nobody will reset.
RequestReturns == cpc = "enqueue" ~> cpc = "idle"

\* README.md, "dev_id: ID of device to send request to": the transfer goes
\* to the mass-storage device the client named.
SentToNamedDevice == bus # None => bus.umass_id = umass_xfer.umass_id

\* xhci_api.h, "-1 on failure": a transfer that failed is reported.
FailureReported ==
    [][(TakeResponse /\ ~resp_queue[1].ok) => ret' = -1]_vars
===========================================================================
