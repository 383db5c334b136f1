------------------------ MODULE UmassRequestProofs -------------------------
(***************************************************************************)
(* The request path of UmassRequest for any number of requests, devices,   *)
(* blocks and contents, and any size of the queues.                        *)
(*                                                                         *)
(* A call passes through a fixed sequence of phases.  In each of them the  *)
(* request is in exactly one place: the queue, the stub's hands, the bus,  *)
(* or behind it as a response; and at most one notification is under way.  *)
(* That exactly one phase holds at a time is the inductive invariant; the  *)
(* properties the three domains rely on without checking follow from it.   *)
(***************************************************************************)
EXTENDS UmassRequest, TLAPS

---------------------------------------------------------------------------
(* The phases of a call.                                                   *)

\* The request as it is queued, and its answer.
Entry == [code |-> IF umass_xfer.read THEN "READ_BLOCKS" ELSE "WRITE_BLOCKS",
          blkno |-> umass_xfer.blkno, id |-> umass_xfer.xfer_id]
Answer(ok) == [ok |-> ok, id |-> umass_xfer.xfer_id]
OnTheBus(done) == [umass_id |-> 0, req |-> Entry, executed |-> done]

QueuesEmpty == req_queue = <<>> /\ resp_queue = <<>>
Requested == req_queue = <<Entry>> /\ resp_queue = <<>>
Answered == req_queue = <<>> /\ \E ok \in BOOLEAN : resp_queue = <<Answer(ok)>>

Bits(p, b) == pending = p /\ batch = b
BusIdle == bus = None /\ ipc = "idle"

Idle ==
    cpc = "idle" /\ ~in_progress /\ QueuesEmpty /\ Bits({}, {})
    /\ spc = "wait" /\ BusIdle
Begun ==
    cpc = "enqueue" /\ in_progress /\ QueuesEmpty /\ Bits({}, {})
    /\ spc = "wait" /\ BusIdle
Enqueued ==
    cpc = "notify" /\ in_progress /\ Requested /\ Bits({}, {})
    /\ spc = "wait" /\ BusIdle
Notified ==
    cpc = "poll" /\ in_progress /\ Requested /\ Bits({UMASS_FLUSH}, {})
    /\ spc = "wait" /\ BusIdle
Woken ==
    cpc = "poll" /\ in_progress /\ Requested /\ Bits({}, {UMASS_FLUSH})
    /\ spc = "wait" /\ BusIdle
Submitting ==
    cpc = "poll" /\ in_progress /\ QueuesEmpty /\ Bits({}, {UMASS_FLUSH})
    /\ spc = "submit" /\ xfer = Entry /\ BusIdle
Submitted ==
    cpc = "poll" /\ in_progress /\ QueuesEmpty /\ Bits({}, {})
    /\ spc = "wait" /\ bus = OnTheBus(FALSE) /\ ipc = "idle"
Executed ==
    cpc = "poll" /\ in_progress /\ Answered /\ Bits({}, {})
    /\ spc = "wait" /\ bus = OnTheBus(TRUE) /\ ipc = "notify"
Completed ==
    cpc = "poll" /\ in_progress /\ Answered /\ Bits({UMASS_COMPLETE}, {})
    /\ spc = "wait" /\ BusIdle
Completing ==
    cpc = "poll" /\ in_progress /\ Answered /\ Bits({}, {UMASS_COMPLETE})
    /\ spc = "wait" /\ BusIdle
Released ==
    cpc \in {"poll", "resp"} /\ ~in_progress /\ Answered /\ Bits({}, {})
    /\ spc = "wait" /\ BusIdle

Phase ==
    \/ Idle \/ Begun \/ Enqueued \/ Notified \/ Woken \/ Submitting
    \/ Submitted \/ Executed \/ Completed \/ Completing \/ Released

\* What no phase says.
Types ==
    /\ current_xfer \in -1 .. MaxXfer - 1 /\ ret \in {-1, 0, 1} /\ val \in Data
    /\ umass_xfer \in Request \cup {None}
    /\ cpc # "idle" => umass_xfer \in Request
    /\ xfer \in Queued \cup {None}
    /\ disk \in [Umass -> [Block -> Data]]
    /\ in_progress \in BOOLEAN

IInv == Types /\ Phase

---------------------------------------------------------------------------
(* Queues of at most one element.                                          *)

\* A queue has room for the one request or response of a call.
LEMMA QueueOfOne ==
    /\ \A e : BlkEnqueue(<<>>, e) = <<e>>
    /\ \A e : BlkDequeue(<<e>>) = <<>>
    /\ \A e : <<e>> # <<>> /\ Head(<<e>>) = e /\ Len(<<e>>) = 1 /\ <<e>>[1] = e
<1>1. QSize \in Nat /\ QSize > 0
  BY UmassAssumption DEF UmassAssumption
<1>2. \A e : <<e>> # <<>> /\ Head(<<e>>) = e /\ Len(<<e>>) = 1 /\ <<e>>[1] = e
  OBVIOUS
<1>3. \A e : Append(<<>>, e) = <<e>> /\ Tail(<<e>>) = <<>> /\ Len(<<>>) = 0
  OBVIOUS
<1> QED
  BY <1>1, <1>2, <1>3 DEF BlkEnqueue, BlkDequeue

\* Such a queue is within its size.
LEMMA AtMostOne ==
    ASSUME NEW S, NEW q, q = <<>> \/ \E e \in S : q = <<e>>
    PROVE  q \in Seq(S) /\ Len(q) <= QSize
<1>1. QSize \in Nat /\ QSize > 0
  BY UmassAssumption DEF UmassAssumption
<1>2. CASE q = <<>>
  <2>1. <<>> \in Seq(S) /\ Len(<<>>) = 0
    OBVIOUS
  <2> QED
    BY <1>1, <1>2, <2>1
<1>3. ASSUME NEW e \in S, q = <<e>> PROVE q \in Seq(S) /\ Len(q) <= QSize
  <2>1. <<e>> \in Seq(S) /\ Len(<<e>>) = 1
    OBVIOUS
  <2> QED
    BY <1>1, <1>3, <2>1
<1> QED
  BY <1>2, <1>3

\* The device the code sends every request to exists, and ids are umass ids.
LEMMA Devices ==
    /\ 0 \in Umass /\ \A d \in DOMAIN UmassId : UmassId[d] \in Umass
    /\ DOMAIN UmassId \subseteq Device /\ MaxXfer \in Nat
BY UmassAssumption DEF UmassAssumption, Umass

\* A request the client made is queued as what the stub understands.
LEMMA EntryQueued == umass_xfer \in Request => Entry \in Queued
BY DEF Request, Queued, Entry

---------------------------------------------------------------------------
(* Each operation happens in one phase and leads to the next.              *)

\* Each step of the client leads from a phase to a phase.
LEMMA ClientSteps ==
    ASSUME IInv
    PROVE  /\ \A dev \in Device : RejectRequest(dev) => Idle /\ Idle'
           /\ \A dev \in Device, read \in BOOLEAN, blkno \in Block, d \in Data :
                BeginRequest(dev, read, blkno, d) => Idle /\ Begun'
           /\ EnqueueReq => Begun /\ Enqueued'
           /\ NotifyFlush => Enqueued /\ Notified'
           /\ PollDone => Released /\ Released'
           /\ TakeResponse => Released /\ Idle'
<1> USE DEF IInv, Phase, Idle, Begun, Enqueued, Notified, Woken, Submitting,
            Submitted, Executed, Completed, Completing, Released, Bits, BusIdle,
            clientVars, queueVars, stubVars, deviceVars
<1>1. ASSUME NEW dev \in Device, RejectRequest(dev) PROVE Idle /\ Idle'
  BY <1>1 DEF RejectRequest, QueuesEmpty
<1>2. ASSUME NEW dev \in Device, NEW read \in BOOLEAN, NEW blkno \in Block,
             NEW d \in Data, BeginRequest(dev, read, blkno, d)
      PROVE  Idle /\ Begun'
  BY <1>2 DEF BeginRequest, QueuesEmpty
<1>3. ASSUME EnqueueReq PROVE Begun /\ Enqueued'
  <2>1. Begun
    BY <1>3 DEF EnqueueReq
  <2>2. req_queue' = <<Entry>> /\ Entry' = Entry
    BY <1>3, <2>1, QueueOfOne DEF EnqueueReq, Entry, QueuesEmpty
  <2> QED
    BY <1>3, <2>1, <2>2 DEF EnqueueReq, QueuesEmpty, Requested
<1>4. ASSUME NotifyFlush PROVE Enqueued /\ Notified'
  BY <1>4 DEF NotifyFlush, Requested, Entry
<1>5. ASSUME PollDone PROVE Released /\ Released'
  BY <1>5 DEF PollDone, Answered, Answer
<1>6. ASSUME TakeResponse PROVE Released /\ Idle'
  <2>1. Released
    BY <1>6 DEF TakeResponse
  <2>2. resp_queue' = <<>>
    BY <1>6, <2>1, QueueOfOne DEF TakeResponse, Answered
  <2> QED
    BY <1>6, <2>1, <2>2 DEF TakeResponse, Answered, QueuesEmpty
<1> QED
  BY <1>1, <1>2, <1>3, <1>4, <1>5, <1>6

\* So does each step of the stub.
LEMMA StubSteps ==
    ASSUME IInv
    PROVE  /\ StubWake => (Notified /\ Woken') \/ (Completed /\ Completing')
           /\ DequeueReq => Woken /\ Submitting'
           /\ SubmitXfer => Submitting /\ Submitted'
           /\ HandleComplete => Completing /\ Released'
<1> USE DEF IInv, Phase, Idle, Begun, Enqueued, Notified, Woken, Submitting,
            Submitted, Executed, Completed, Completing, Released, Bits, BusIdle,
            clientVars, queueVars, stubVars, deviceVars, UMASS_FLUSH, UMASS_COMPLETE
<1>1. ASSUME StubWake PROVE (Notified /\ Woken') \/ (Completed /\ Completing')
  <2>0. pending # {} /\ batch = {} /\ spc = "wait"
    BY <1>1 DEF StubWake
  <2>1. Notified \/ Completed
    <3>1. {UMASS_FLUSH} # {} /\ {UMASS_COMPLETE} # {} /\ "submit" # "wait"
      OBVIOUS
    <3> HIDE DEF UMASS_FLUSH, UMASS_COMPLETE
    <3> QED
      BY <2>0, <3>1
  <2>2. CASE Notified
    BY <1>1, <2>2 DEF StubWake, Requested, Entry
  <2>3. CASE Completed
    <3>1. Answered'
      BY <1>1, <2>3 DEF StubWake, Answered, Answer
    <3>2. Completing'
      BY <1>1, <2>3, <3>1 DEF StubWake
    <3> QED
      BY <2>3, <3>2
  <2> QED
    BY <2>1, <2>2, <2>3
<1>2. ASSUME DequeueReq PROVE Woken /\ Submitting'
  <2>1. Woken
    <3>1. spc = "wait" /\ 47 \in batch
      BY <1>2 DEF DequeueReq
    <3>2. 47 \notin {} /\ 47 \notin {49} /\ "submit" # "wait"
      OBVIOUS
    <3> QED
      BY <3>1, <3>2
  <2>2. req_queue' = <<>> /\ xfer' = Entry /\ Entry' = Entry
    BY <1>2, <2>1, QueueOfOne DEF DequeueReq, Requested, Entry
  <2> QED
    BY <1>2, <2>1, <2>2 DEF DequeueReq, QueuesEmpty, Requested
<1>3. ASSUME SubmitXfer PROVE Submitting /\ Submitted'
  <2>1. Submitting
    BY <1>3 DEF SubmitXfer
  <2>2. bus' = OnTheBus(FALSE) /\ OnTheBus(FALSE)' = OnTheBus(FALSE)
    BY <1>3, <2>1 DEF SubmitXfer, OnTheBus, Entry
  <2> QED
    BY <1>3, <2>1, <2>2 DEF SubmitXfer, QueuesEmpty
<1>4. ASSUME HandleComplete PROVE Completing /\ Released'
  <2>1. Completing
    BY <1>4 DEF HandleComplete
  <2> QED
    BY <1>4, <2>1 DEF HandleComplete, Answered, Answer
<1> QED
  BY <1>1, <1>2, <1>3, <1>4

\* So does the completion, in the interrupt domain.
LEMMA InterruptSteps ==
    ASSUME IInv
    PROVE  /\ \A ok \in BOOLEAN : DeviceTransfer(ok) => Submitted /\ Executed'
           /\ NotifyComplete => Executed /\ Completed'
<1> USE DEF IInv, Phase, Idle, Begun, Enqueued, Notified, Woken, Submitting,
            Submitted, Executed, Completed, Completing, Released, Bits, BusIdle,
            clientVars, queueVars, stubVars, deviceVars, UMASS_FLUSH, UMASS_COMPLETE
<1>1. ASSUME NEW ok \in BOOLEAN, DeviceTransfer(ok) PROVE Submitted /\ Executed'
  <2>1. Submitted
    BY <1>1 DEF DeviceTransfer, OnTheBus
  <2>2. resp_queue' = <<Answer(ok)>> /\ Answer(ok)' = Answer(ok)
    BY <1>1, <2>1, QueueOfOne DEF DeviceTransfer, OnTheBus, QueuesEmpty, Entry, Answer
  <2>3. bus' = OnTheBus(TRUE) /\ OnTheBus(TRUE)' = OnTheBus(TRUE)
    BY <1>1, <2>1 DEF DeviceTransfer, OnTheBus, Entry
  <2> QED
    BY <1>1, <2>1, <2>2, <2>3 DEF DeviceTransfer, QueuesEmpty, Answered
<1>2. ASSUME NotifyComplete PROVE Executed /\ Completed'
  <2>1. Executed
    BY <1>2 DEF NotifyComplete
  <2> QED
    BY <1>2, <2>1 DEF NotifyComplete, Answered, Answer
<1> QED
  BY <1>1, <1>2

---------------------------------------------------------------------------
(* The inductive invariant.                                                *)

\* Before the first request.
LEMMA InitInv == Init => IInv
<1> SUFFICES ASSUME Init PROVE IInv
  OBVIOUS
<1>1. Idle
  BY DEF Init, Idle, QueuesEmpty, Bits, BusIdle
<1>2. current_xfer \in -1 .. MaxXfer - 1 /\ ret \in {-1, 0, 1}
  BY Devices DEF Init
<1>3. Types
  BY <1>2, Zenon DEF Init, Types
<1> QED
  BY <1>1, <1>3 DEF IInv, Phase

\* The types of what the phases do not fix.
LEMMA StepTypes == IInv /\ [Next]_vars => Types'
<1> SUFFICES ASSUME IInv, [Next]_vars PROVE Types'
  OBVIOUS
<1>0. Types
  BY DEF IInv
<1> USE <1>0, Devices DEF Types, clientVars, queueVars, stubVars, deviceVars
<1>1. ASSUME NEW dev \in Device, RejectRequest(dev) PROVE Types'
  BY <1>1 DEF RejectRequest
<1>2. ASSUME NEW dev \in Device, NEW read \in BOOLEAN, NEW blkno \in Block,
             NEW d \in Data, BeginRequest(dev, read, blkno, d)
      PROVE  Types'
  <2>1. current_xfer' \in 0 .. MaxXfer - 1
    BY <1>2 DEF BeginRequest
  <2>2. umass_xfer' \in Request
    BY <1>2, <2>1 DEF BeginRequest, Request
  <2> QED
    BY <1>2, <2>1, <2>2 DEF BeginRequest
<1>3. CASE EnqueueReq
  BY <1>3 DEF EnqueueReq
<1>4. CASE NotifyFlush
  BY <1>4 DEF NotifyFlush
<1>5. CASE PollDone
  BY <1>5 DEF PollDone
<1>6. CASE TakeResponse
  BY <1>6 DEF TakeResponse
<1>7. CASE StubWake
  BY <1>7 DEF StubWake
<1>8. CASE DequeueReq
  <2>1. cpc # "idle" /\ xfer' = Entry
    BY <1>8, StubSteps, QueueOfOne DEF Woken, Requested, DequeueReq
  <2>2. xfer' \in Queued
    BY <2>1, EntryQueued
  <2> QED
    BY <1>8, <2>2 DEF DequeueReq
<1>9. CASE SubmitXfer
  BY <1>9 DEF SubmitXfer
<1>10. CASE HandleComplete
  BY <1>10 DEF HandleComplete
<1>11. ASSUME NEW ok \in BOOLEAN, DeviceTransfer(ok) PROVE Types'
  <2>1. Submitted
    BY <1>11, InterruptSteps
  <2>2. /\ bus.umass_id = 0 /\ bus.req = Entry /\ umass_xfer \in Request
        /\ Entry.blkno \in Block
    <3>1. umass_xfer \in Request
      BY <2>1 DEF Submitted
    <3> QED
      BY <2>1, <3>1, EntryQueued DEF Submitted, OnTheBus, Queued
  <2>3. disk[0][Entry.blkno] \in Data
    BY <2>2
  <2>4. val' \in Data
    BY <1>11, <2>2, <2>3 DEF DeviceTransfer
  <2>5. disk' \in [Umass -> [Block -> Data]]
    BY <1>11, <2>2 DEF DeviceTransfer
  <2> QED
    BY <1>11, <2>4, <2>5 DEF DeviceTransfer
<1>12. CASE NotifyComplete
  BY <1>12 DEF NotifyComplete
<1>13. CASE UNCHANGED vars
  BY <1>13 DEF vars
<1> QED
  BY <1>1, <1>2, <1>3, <1>4, <1>5, <1>6, <1>7, <1>8, <1>9, <1>10, <1>11, <1>12,
     <1>13 DEF Next, Client, Stub, Interrupts

\* Every step moves the call to its next phase or leaves it in its own.
LEMMA StepPhase == IInv /\ [Next]_vars => Phase'
<1> SUFFICES ASSUME IInv, [Next]_vars PROVE Phase'
  OBVIOUS
<1>1. CASE Client
  BY <1>1, ClientSteps DEF Client, Phase
<1>2. CASE Stub
  BY <1>2, StubSteps DEF Stub, Phase
<1>3. CASE Interrupts
  BY <1>3, InterruptSteps DEF Interrupts, Phase
<1>4. CASE UNCHANGED vars
  <2>1. UNCHANGED <<Entry, QueuesEmpty, Requested, Answered, BusIdle>>
    BY <1>4 DEF vars, clientVars, queueVars, deviceVars, Entry, QueuesEmpty,
                Requested, Answered, Answer, BusIdle
  <2> QED
    BY <1>4, <2>1 DEF IInv, Phase, Idle, Begun, Enqueued, Notified, Woken, Submitting,
            Submitted, Executed, Completed, Completing, Released, Bits, OnTheBus,
            vars, clientVars, queueVars, stubVars, deviceVars
<1> QED
  BY <1>1, <1>2, <1>3, <1>4 DEF Next

\* The invariant holds throughout.
LEMMA Invariance == Spec => []IInv
<1>1. IInv /\ [Next]_vars => IInv'
  BY StepTypes, StepPhase DEF IInv
<1> QED
  BY InitInv, <1>1, PTL DEF Spec

---------------------------------------------------------------------------
(* What follows.                                                           *)

\* Type correctness: also, no queue ever holds more than one entry.
THEOREM TypeCorrect == Spec => []TypeOK
<1>1. ASSUME IInv PROVE TypeOK
  <2> USE <1>1 DEF IInv, Types
  <2>1. req_queue \in Seq(Queued) /\ Len(req_queue) <= QSize
    <3>1. cpc # "idle" => Entry \in Queued
      BY EntryQueued
    <3> DEFINE E == Entry
    <3>2. req_queue = <<>> \/ (cpc # "idle" /\ req_queue = <<E>>)
      BY DEF Phase, Idle, Begun, Enqueued, Notified, Woken, Submitting, Submitted,
             Executed, Completed, Completing, Released, QueuesEmpty, Requested, Answered
    <3>3. cpc # "idle" => E \in Queued
      BY <3>1
    <3> HIDE DEF IInv, Types, E
    <3> QED
      BY <3>2, <3>3, AtMostOne
  <2>2. resp_queue \in Seq(Response) /\ Len(resp_queue) <= QSize
    <3>1. \A ok \in BOOLEAN : cpc # "idle" => Answer(ok) \in Response
      BY DEF Request, Response, Answer
    <3>2. resp_queue = <<>> \/ (cpc # "idle" /\ \E ok \in BOOLEAN : resp_queue = <<Answer(ok)>>)
      BY DEF Phase, Idle, Begun, Enqueued, Notified, Woken, Submitting, Submitted,
             Executed, Completed, Completing, Released, QueuesEmpty, Requested, Answered
    <3> HIDE DEF IInv, Types
    <3> QED
      BY <3>1, <3>2, AtMostOne
  <2>3. /\ cpc \in {"idle", "enqueue", "notify", "poll", "resp"}
        /\ pending \subseteq {UMASS_FLUSH, UMASS_COMPLETE}
        /\ batch \subseteq {UMASS_FLUSH, UMASS_COMPLETE}
        /\ spc \in {"wait", "submit"} /\ ipc \in {"idle", "notify"}
    BY DEF Phase, Idle, Begun, Enqueued, Notified, Woken, Submitting, Submitted,
           Executed, Completed, Completing, Released, Bits, BusIdle
  <2>4. bus \in Transfer \cup {None}
    <3>1. cpc # "idle" => Entry \in Queued
      BY EntryQueued
    <3>2. bus = None \/ (cpc # "idle" /\ \E done \in BOOLEAN : bus = OnTheBus(done))
      BY DEF Phase, Idle, Begun, Enqueued, Notified, Woken, Submitting, Submitted,
             Executed, Completed, Completing, Released, BusIdle
    <3> HIDE DEF IInv, Types
    <3> QED
      BY Devices, <3>1, <3>2 DEF OnTheBus, Transfer
  <2> QED
    BY <2>1, <2>2, <2>3, <2>4 DEF TypeOK
<1> QED
  BY <1>1, Invariance, PTL

\* create_umass_xfer, which does not look at what blk_dequeue_req returns,
\* finds the request it was notified of.
THEOREM StubFindsRequest == Spec => []FlushFindsRequest
<1>1. ASSUME IInv PROVE FlushFindsRequest
  <2> SUFFICES ASSUME spc = "wait", 47 \in batch PROVE req_queue # <<>>
    BY DEF FlushFindsRequest, UMASS_FLUSH
  <2>1. 47 \notin {} /\ 47 \notin {49} /\ "submit" # "wait"
    OBVIOUS
  <2>2. Woken
    BY <1>1, <2>1 DEF IInv, Phase, Idle, Begun, Enqueued, Notified, Submitting,
           Submitted, Executed, Completed, Completing, Released, Bits, Woken,
           UMASS_FLUSH, UMASS_COMPLETE
  <2> QED
    BY <2>2, QueueOfOne DEF Woken, Requested
<1> QED
  BY <1>1, Invariance, PTL

\* enqueue_umass_request, which does not look at what blk_dequeue_resp
\* returns, takes the response to its own request.
THEOREM OwnResponse == Spec => []ResponseMatches
<1>1. ASSUME IInv PROVE ResponseMatches
  <2> SUFFICES ASSUME cpc = "resp"
               PROVE  Len(resp_queue) = 1 /\ resp_queue[1].id = umass_xfer.xfer_id
    BY DEF ResponseMatches
  <2>1. Released
    BY <1>1 DEF IInv, Phase, Idle, Begun, Enqueued, Notified, Woken, Submitting,
                Submitted, Executed, Completed, Completing
  <2>2. PICK ok \in BOOLEAN : resp_queue = <<Answer(ok)>>
    BY <2>1 DEF Released, Answered
  <2> QED
    BY <2>2, QueueOfOne DEF Answer
<1> QED
  BY <1>1, Invariance, PTL

\* A call that has returned leaves no trace in the queues, the notification
\* bits, the stub or on the bus.
THEOREM NothingLeft == Spec => []Quiescent
<1>1. ASSUME IInv PROVE Quiescent
  <2> SUFFICES ASSUME cpc = "idle" PROVE Idle
    BY DEF Quiescent, Idle, QueuesEmpty, Bits, BusIdle
  <2> QED
    BY <1>1 DEF IInv, Phase, Begun, Enqueued, Notified, Woken, Submitting,
                Submitted, Executed, Completed, Completing, Released
<1> QED
  BY <1>1, Invariance, PTL

---------------------------------------------------------------------------
(* The refinement of SyncDisk, when device 0 is the only one.              *)

\* The call as SyncDisk sees it, by phase.
LEMMA CallIs ==
    ASSUME IInv
    PROVE  /\ cpc = "idle" => Call = None
           /\ cpc # "idle" =>
                /\ Call = [req |-> [umass_id |-> umass_xfer.umass_id,
                                   read |-> umass_xfer.read,
                                   blkno |-> umass_xfer.blkno],
                           executed |-> resp_queue # <<>>]
                /\ Call # None
<1>1. cpc = "idle" => Call = None
  BY DEF Call
<1>2. ASSUME cpc # "idle"
      PROVE  /\ Call = [req |-> [umass_id |-> umass_xfer.umass_id,
                                read |-> umass_xfer.read,
                                blkno |-> umass_xfer.blkno],
                        executed |-> resp_queue # <<>>]
             /\ Call # None
  <2>1. umass_xfer \in Request
    BY <1>2 DEF IInv, Types
  <2>2. umass_xfer.umass_id \in Nat /\ umass_xfer.read \in BOOLEAN /\ umass_xfer.blkno \in Block
    BY <2>1, UmassAssumption DEF Request, UmassAssumption, Umass
  <2> DEFINE e == resp_queue # <<>>
  <2>3. Call = [req |-> [umass_id |-> umass_xfer.umass_id, read |-> umass_xfer.read,
                         blkno |-> umass_xfer.blkno], executed |-> e]
    BY <1>2 DEF Call
  <2>4. e \in BOOLEAN
    OBVIOUS
  <2> HIDE DEF e
  <2>5. Call \in [req : [umass_id : Nat, read : BOOLEAN, blkno : Block],
                 executed : BOOLEAN]
    BY <2>2, <2>3, <2>4
  <2> QED
    BY <2>3, <2>5, UmassAssumption DEF UmassAssumption, e
<1> QED
  BY <1>1, <1>2

\* The client's start of a call is SyncDisk's.
LEMMA BeginRefines ==
    ASSUME IInv, IInv', NEW dev \in Device, NEW read \in BOOLEAN,
           NEW blkno \in Block, NEW d \in Data, BeginRequest(dev, read, blkno, d)
    PROVE  Disk!Next
<1> DEFINE req == [umass_id |-> UmassId[dev], read |-> read, blkno |-> blkno]
<1>1. Idle /\ Begun'
  BY ClientSteps
<1>2. Call = None
  BY <1>1, CallIs DEF Idle
<1>3. req \in [umass_id : Umass, read : BOOLEAN, blkno : Block]
  BY Devices DEF BeginRequest
<1>4. umass_xfer'.umass_id = UmassId[dev] /\ umass_xfer'.read = read /\ umass_xfer'.blkno = blkno
  BY DEF BeginRequest
<1>5. Call' = [req |-> req, executed |-> FALSE]
  BY <1>1, <1>4 DEF Call, Begun, QueuesEmpty
<1>6. val' = d /\ disk' = disk
  BY DEF BeginRequest, deviceVars
<1>7. Disk!Call(req, d)
  BY <1>2, <1>5, <1>6 DEF Disk!Call
<1> QED
  BY <1>3, <1>7 DEF Disk!Next, Disk!Request

\* Marking a call executed changes nothing else of it.
LEMMA MarkExecuted ==
    \A r, b, c : [[req |-> r, executed |-> b] EXCEPT !.executed = c]
                    = [req |-> r, executed |-> c]
BY SMT

\* The transfer is SyncDisk's execution.
LEMMA TransferRefines ==
    ASSUME Umass = {0}, IInv, NEW ok \in BOOLEAN, DeviceTransfer(ok)
    PROVE  Disk!Next
<1>1. Submitted /\ Executed'
  BY InterruptSteps
<1>2. umass_xfer \in Request /\ umass_xfer.umass_id = 0
  BY <1>1 DEF IInv, Types, Submitted, Request
<1> DEFINE req == [umass_id |-> 0, read |-> umass_xfer.read, blkno |-> umass_xfer.blkno]
<1>3. Call = [req |-> req, executed |-> FALSE] /\ Call # None
  BY <1>1, <1>2, CallIs DEF Submitted, QueuesEmpty
<1>4. Call' = [req |-> req, executed |-> TRUE]
  <2>1. umass_xfer' = umass_xfer /\ resp_queue' # <<>> /\ cpc' = "poll"
    BY <1>1, QueueOfOne DEF DeviceTransfer, clientVars, Executed, Answered
  <2> QED
    BY <1>2, <2>1 DEF Call
<1>5. bus.umass_id = 0 /\ bus.req.code = Entry.code /\ bus.req.blkno = umass_xfer.blkno
  BY <1>1 DEF Submitted, OnTheBus, Entry
<1>6. bus.req.code = "READ_BLOCKS" <=> umass_xfer.read
  BY <1>5 DEF Entry
<1>7. Disk!Transfer(req) \/ UNCHANGED <<disk, val>>
  BY <1>5, <1>6 DEF DeviceTransfer, Disk!Transfer
<1>8. Call.executed = FALSE /\ Call.req = req /\ Call' = [Call EXCEPT !.executed = TRUE]
  <2>1. \A r : [req |-> r, executed |-> FALSE].executed = FALSE
    OBVIOUS
  <2>2. \A r : [req |-> r, executed |-> FALSE].req = r
    OBVIOUS
  <2>3. [[req |-> req, executed |-> FALSE] EXCEPT !.executed = TRUE]
            = [req |-> req, executed |-> TRUE]
    BY MarkExecuted, Zenon
  <2> DEFINE c == Call
             before == [req |-> req, executed |-> FALSE]
             after == [req |-> req, executed |-> TRUE]
  <2>4. c = before /\ c' = after
    BY <1>3, <1>4
  <2>5. before.executed = FALSE /\ before.req = req /\ [before EXCEPT !.executed = TRUE] = after
    BY <2>1, <2>2, <2>3
  <2> HIDE DEF req, c, before, after
  <2>6. c.executed = FALSE /\ c.req = req /\ c' = [c EXCEPT !.executed = TRUE]
    BY <2>4, <2>5
  <2> QED
    BY <2>6 DEF c
<1>9. Disk!Transfer(Call.req) \/ UNCHANGED <<disk, val>>
  BY <1>7, <1>8
<1>10. Disk!Execute
  <2>1. ~Call.executed
    BY <1>8, Zenon
  <2> QED
    BY <1>3, <1>8, <1>9, <2>1, Zenon DEF Disk!Execute
<1> QED
  BY <1>10 DEF Disk!Next

\* The return of the call is SyncDisk's.
LEMMA ReturnRefines ==
    ASSUME IInv, TakeResponse
    PROVE  Disk!Next
<1>1. Released /\ Idle'
  BY ClientSteps
<1>2. cpc # "idle" /\ resp_queue # <<>>
  BY <1>1, QueueOfOne DEF Released, Answered
<1>3. Call # None /\ Call.executed
  <2>1. Call # None /\ Call.executed = (resp_queue # <<>>)
    BY <1>2, CallIs
  <2> QED
    BY <1>2, <2>1, Zenon
<1>4. Call' = None
  BY <1>1 DEF Call, Idle
<1>5. Disk!Return
  BY <1>3, <1>4 DEF TakeResponse, deviceVars, Disk!Return
<1> QED
  BY <1>5 DEF Disk!Next

\* Everything in between is not seen by SyncDisk.
LEMMA StepRefines ==
    ASSUME Umass = {0}, IInv, IInv', [Next]_vars
    PROVE  [Disk!Next]_(Disk!vars)
<1>1. \A dev \in Device : RejectRequest(dev) => UNCHANGED Disk!vars
  <2> SUFFICES ASSUME NEW dev \in Device, RejectRequest(dev) PROVE UNCHANGED Disk!vars
    OBVIOUS
  <2>1. cpc = "idle" /\ cpc' = "idle" /\ val' = val /\ disk' = disk
    BY DEF RejectRequest, deviceVars
  <2> QED
    BY <2>1 DEF Call, Disk!vars
<1>2. \A dev \in Device, read \in BOOLEAN, blkno \in Block, d \in Data :
        BeginRequest(dev, read, blkno, d) => Disk!Next
  BY BeginRefines
<1>3. EnqueueReq \/ NotifyFlush \/ PollDone => UNCHANGED Disk!vars
  <2> SUFFICES ASSUME EnqueueReq \/ NotifyFlush \/ PollDone PROVE UNCHANGED Disk!vars
    OBVIOUS
  <2>1. /\ cpc # "idle" /\ cpc' # "idle" /\ val' = val /\ disk' = disk
        /\ umass_xfer' = umass_xfer /\ resp_queue' = resp_queue
    BY DEF EnqueueReq, NotifyFlush, PollDone, queueVars, deviceVars
  <2> QED
    BY <2>1 DEF Call, Disk!vars
<1>4. TakeResponse => Disk!Next
  BY ReturnRefines
<1>5. Stub \/ NotifyComplete \/ UNCHANGED vars => UNCHANGED Disk!vars
  <2> SUFFICES ASSUME Stub \/ NotifyComplete \/ UNCHANGED vars PROVE UNCHANGED Disk!vars
    OBVIOUS
  <2>1. /\ cpc' = cpc /\ val' = val /\ disk' = disk
        /\ umass_xfer' = umass_xfer /\ resp_queue' = resp_queue
    BY DEF Stub, StubWake, DequeueReq, SubmitXfer, HandleComplete, NotifyComplete,
           vars, clientVars, queueVars, deviceVars
  <2> QED
    BY <2>1 DEF Call, Disk!vars
<1>6. \A ok \in BOOLEAN : DeviceTransfer(ok) => Disk!Next
  BY TransferRefines
<1> QED
  BY <1>1, <1>2, <1>3, <1>4, <1>5, <1>6 DEF Next, Client, Interrupts

\* When every mass-storage device is device 0, enqueue_umass_request is a
\* synchronous operation on the disk: the chain of client, stub and interrupt
\* domain executes it once, between its call and its return.
THEOREM SynchronousDisk == ASSUME Umass = {0} PROVE Spec => ImplementsSyncDisk
<1>1. Init => Disk!Init
  BY DEF Init, Disk!Init, Call
<1>2. IInv /\ IInv' /\ [Next]_vars => [Disk!Next]_(Disk!vars)
  BY StepRefines
<1> QED
  BY <1>1, <1>2, Invariance, PTL DEF Spec, ImplementsSyncDisk, Disk!Spec
===========================================================================
