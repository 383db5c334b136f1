-------------------------- MODULE EventPathProofs --------------------------
(***************************************************************************)
(* Safety of the two pipelines that meet in software_interrupt, for any    *)
(* number of events and rings of any size: the interrupts of the           *)
(* controller on their way to its event handler (XhciInterrupt), and the   *)
(* reports of input devices on their way from there to a client            *)
(* (InputEvents).                                                          *)
(***************************************************************************)
EXTENDS XhciInterrupt, InputEvents, SequenceTheorems, TLAPS

\* A delivery is in one place at a time: the bit or the handler.
OneDelivery == hpc # "wait" => ~irq

\* The order of init: a domain has the softc once its call has returned, and
\* nothing comes from the controller before it runs.
BootOrder ==
    /\ bpc # "share_hard" => hard_sc
    /\ bpc \in {"attach", "running"} => soft_sc
    /\ (usbsts # {} \/ intr_pend \/ soft_pending) => bpc = "running"
    /\ hpc \in {"write_1", "write_2", "notify"} => bpc = "running"

IInv ==
    /\ TypeOK
    /\ OneDelivery
    /\ BootOrder
    /\ MaskedIsHandled
    /\ PendingIsRecognised
    /\ NoStrandedEvent

\* The inductive invariant holds before xhci_stub's init.
LEMMA InitInv == Init => IInv
  <1> SUFFICES ASSUME Init PROVE IInv
    OBVIOUS
  <1> USE DEF Init
  <1>0. posted \in 0 .. MaxEvents /\ events \in 0 .. EventRing
    BY XhciInterruptAssumption DEF XhciInterruptAssumption
  <1>1. TypeOK
    BY <1>0, Zenon DEF TypeOK, Status
  <1>2. OneDelivery /\ MaskedIsHandled
    BY DEF OneDelivery, MaskedIsHandled
  <1>3. BootOrder
    BY DEF BootOrder
  <1>4. PendingIsRecognised /\ NoStrandedEvent
    BY DEF PendingIsRecognised, NoStrandedEvent
  <1> QED
    BY <1>1, <1>2, <1>3, <1>4 DEF IInv

\* Each operation preserves the inductive invariant.
LEMMA StepInv == IInv /\ [Next]_vars => IInv'
  <1> SUFFICES ASSUME IInv, [Next]_vars PROVE IInv'
    OBVIOUS
  <1> USE XhciInterruptAssumption
      DEF XhciInterruptAssumption, IInv, TypeOK, OneDelivery, BootOrder, MaskedIsHandled,
          PendingIsRecognised, NoStrandedEvent, Status,
          xhcVars, hardVars, scVars
  <1>1. CASE ShareHard
    BY <1>1 DEF ShareHard
  <1>2. CASE ShareSoft
    BY <1>2 DEF ShareSoft
  <1>3. CASE Attach
    BY <1>3 DEF Attach
  <1>4. ASSUME NEW s \in Status, PostEvent(s) PROVE IInv'
    BY <1>4 DEF PostEvent
  <1>5. CASE DeliverIrq
    BY <1>5 DEF DeliverIrq
  <1>6. CASE DeliverOther
    BY <1>6 DEF DeliverOther
  <1>7. CASE HardWake
    BY <1>7 DEF HardWake
  <1>8. CASE ReadUsbsts
    BY <1>8 DEF ReadUsbsts
  <1>9. CASE WriteUsbsts("write_1", "write_2")
    BY <1>9 DEF WriteUsbsts
  <1>10. CASE WriteIman("write_2", "notify")
    BY <1>10 DEF WriteIman
  <1>11. CASE NotifySoft
    BY <1>11 DEF NotifySoft
  <1>12. CASE IrqAck
    BY <1>12 DEF IrqAck
  <1>13. CASE SoftWake
    BY <1>13 DEF SoftWake
  <1>14. CASE HandleEvent
    BY <1>14 DEF HandleEvent
  <1>15. CASE DrainDone
    BY <1>15 DEF DrainDone
  <1>16. CASE UNCHANGED vars
    BY <1>16 DEF vars
  <1> QED
    BY <1>1, <1>2, <1>3, <1>4, <1>5, <1>6, <1>7, <1>8, <1>9, <1>10, <1>11,
       <1>12, <1>13, <1>14, <1>15, <1>16
       DEF Next, Boot, Controller, Hard, Soft, ClearInterrupt

\* The inductive invariant holds throughout.
LEMMA Invariance == Spec => []IInv
  BY InitInv, StepInv, PTL DEF Spec

\* Type correctness: also, the ring never holds more than the controller has slots.
THEOREM TypeCorrect == Spec => []TypeOK
  <1>1. IInv => TypeOK
    BY DEF IInv
  <1> QED
    BY <1>1, Invariance, PTL

\* xhci_intr and software_interrupt's notified never leave an event in the
\* ring without a drain to come, whatever the controller posts meanwhile.
THEOREM NothingStranded == Spec => []NoStrandedEvent
  <1>1. IInv => NoStrandedEvent
    BY DEF IInv
  <1> QED
    BY <1>1, Invariance, PTL

\* The order of xhci_intr1's two writes: an asserted line is recognised.
THEOREM LineRecognised == Spec => []PendingIsRecognised
  <1>1. IInv => PendingIsRecognised
    BY DEF IInv
  <1> QED
    BY <1>1, Invariance, PTL

\* Every path through notified acknowledges what the kernel delivered.
THEOREM LineAcknowledged == Spec => []MaskedIsHandled
  <1>1. IInv => MaskedIsHandled
    BY DEF IInv
  <1> QED
    BY <1>1, Invariance, PTL

\* xhci_stub's init shares the softc before the controller can interrupt.
THEOREM SoftcFirst == Spec => []SoftcBeforeInterrupt
  <1>1. IInv => SoftcBeforeInterrupt
    BY DEF IInv, TypeOK, BootOrder, SoftcBeforeInterrupt
  <1> QED
    BY <1>1, Invariance, PTL

---------------------------------------------------------------------------
(* The reports of input devices.                                           *)

\* Descriptors of reports, and the one that an empty ring yields.
Reported == {Ring!Desc(r) : r \in Report}

InputInv == used_ring \in Seq(Reported) /\ InputTypeOK /\ NoStrandedReport

\* The steps of the ring keep a queue of reports that fits.
LEMMA EnqueueType ==
    ASSUME used_ring \in Seq(Reported), Len(used_ring) <= Capacity,
           NEW r \in Report, Ring!Enqueue(r)
    PROVE  /\ used_ring' \in Seq(Reported) /\ Len(used_ring') <= Capacity /\ buffer' = buffer
           /\ Len(used_ring') = Len(used_ring) + 1
<1>1. Ring!Desc(r) \in Reported
  BY DEF Reported
<1>2. /\ Len(used_ring) < Capacity /\ used_ring' = Append(used_ring, Ring!Desc(r))
      /\ buffer' = buffer
  BY DEF Ring!Enqueue
<1>3. used_ring' \in Seq(Reported) /\ Len(used_ring') = Len(used_ring) + 1
  BY <1>1, <1>2, AppendProperties
<1>4. Len(used_ring) \in Nat /\ Capacity \in Nat
  BY InputEventsAssumption, LenProperties DEF InputEventsAssumption
<1> QED
  BY <1>2, <1>3, <1>4

\* So do those that take one out.
LEMMA DequeueType ==
    ASSUME used_ring \in Seq(Reported), Len(used_ring) <= Capacity, Ring!Dequeue
    PROVE  /\ used_ring' \in Seq(Reported) /\ Len(used_ring') <= Capacity
           /\ Len(used_ring') = Len(used_ring) - 1
           /\ buffer' \in Reported
<1>1. used_ring # <<>> /\ used_ring' = Tail(used_ring) /\ buffer' = Head(used_ring)
  BY DEF Ring!Dequeue
<1>2. /\ used_ring' \in Seq(Reported) /\ Len(used_ring') = Len(used_ring) - 1
      /\ buffer' \in Reported
  BY <1>1, HeadTailProperties
<1>3. Len(used_ring) \in Nat /\ Capacity \in Nat
  BY InputEventsAssumption, LenProperties DEF InputEventsAssumption
<1> QED
  BY <1>2, <1>3

\* The parts of the type that do not speak of the ring.
Places ==
    /\ client \in {"empty_client", "shell"}
    /\ device \in {"keyboard", "mouse", "touchscreen"} /\ console_state \in States
    /\ made \in 0 .. MaxReports
    /\ callback \in {"idle", "notify"} /\ pending \in BOOLEAN /\ cpc \in {"wait", "drain"}

\* A key leaves the console in one of its states.
LEMMA KeyedType == ASSUME NEW s \in States PROVE Keyed(s) \subseteq States
BY DEF Keyed, States

\* The invariant holds of an empty ring.
LEMMA InputInitInv ==
    ASSUME InputInit
    PROVE  InputInv
<1>1. used_ring = <<>> /\ buffer = Ring!Desc(None) /\ left = 0
  BY DEF InputInit, Ring!Init
<1>2. used_ring \in Seq(Reported) /\ Len(used_ring) = 0
  BY <1>1, EmptySeq
<1>3. InputTypeOK
  <2>1. buffer \in {Ring!Desc(r) : r \in Report \cup {None}}
    BY <1>1, Zenon
  <2>2. Len(used_ring) <= Capacity /\ made \in 0 .. MaxReports /\ left \in 0 .. Len(used_ring)
    BY <1>1, <1>2, InputEventsAssumption DEF InputEventsAssumption, InputInit
  <2>3. console_state \in States
    BY DEF InputInit, States
  <2> QED
    BY <2>1, <2>2, <2>3, Zenon DEF InputTypeOK, InputInit
<1>4. NoStrandedReport
  BY <1>1, <1>2 DEF NoStrandedReport
<1> QED
  BY <1>2, <1>3, <1>4 DEF InputInv

\* What the device and the client do preserves the invariant: a report enters
\* the ring only with a notification to come, and the client turns away from the
\* ring only when it is empty, on a stop, or when it does not listen.
LEMMA InputStepInv ==
    ASSUME InputInv, [InputNext]_inputVars
    PROVE  InputInv'
<1>1. /\ used_ring \in Seq(Reported) /\ Len(used_ring) <= Capacity /\ Len(used_ring) \in Nat
      /\ left \in 0 .. Len(used_ring) /\ Places /\ NoStrandedReport
      /\ buffer \in {Ring!Desc(r) : r \in Report \cup {None}}
  BY LenProperties DEF InputInv, InputTypeOK, Places
<1> DEFINE Goal == /\ used_ring' \in Seq(Reported) /\ Len(used_ring') <= Capacity
                   /\ left' \in 0 .. Len(used_ring') /\ Places' /\ NoStrandedReport'
                   /\ buffer' \in {Ring!Desc(r) : r \in Report \cup {None}}
<1>2. SUFFICES Goal
  BY DEF InputInv, InputTypeOK, Places
<1>3. ASSUME NEW r \in Report, DeviceReport(r) PROVE Goal
  <2>1. /\ used_ring' \in Seq(Reported) /\ Len(used_ring') <= Capacity
        /\ buffer' = buffer /\ Len(used_ring') \in {Len(used_ring), Len(used_ring) + 1}
    BY <1>1, <1>3, EnqueueType DEF DeviceReport, Ring!EnqueueFull
  <2>2. /\ made' \in 0 .. MaxReports /\ callback' = "notify"
        /\ UNCHANGED <<client, device, console_state, pending, cpc, left>>
    BY <1>1, <1>3, InputEventsAssumption
       DEF InputEventsAssumption, DeviceReport, Places, fixed
  <2> QED
    BY <1>1, <2>1, <2>2 DEF Places, NoStrandedReport, Stops, Listens
<1>4. CASE NotifyClient
  BY <1>1, <1>4 DEF NotifyClient, Places, NoStrandedReport, Stops, Listens, fixed
<1>5. CASE ClientWake
  BY <1>1, <1>5 DEF ClientWake, Places, NoStrandedReport, Stops, Listens, fixed
<1>6. CASE ClientPasses
  <2>1. Listens' = Listens /\ ~Listens
    BY <1>6 DEF ClientPasses, Listens, fixed
  <2>2. left' = Len(used_ring) /\ pending' = FALSE
        /\ UNCHANGED <<client, device, console_state, used_ring, buffer, made, callback, cpc>>
    BY <1>6 DEF ClientPasses, fixed
  <2>3. NoStrandedReport'
    BY <1>1, <2>1, <2>2 DEF NoStrandedReport
  <2>4. Places'
    BY <1>1, <2>2, Zenon DEF Places
  <2>5. left' \in 0 .. Len(used_ring')
    BY <1>1, <2>2
  <2>6. used_ring' = used_ring /\ buffer' = buffer
    BY <2>2
  <2> QED
    BY <1>1, <2>3, <2>4, <2>5, <2>6
<1>7. CASE HandleReport
  <2>1. /\ used_ring' \in Seq(Reported) /\ Len(used_ring') <= Capacity
        /\ Len(used_ring') = Len(used_ring) - 1 /\ Len(used_ring') \in Nat
        /\ buffer' \in Reported
    BY <1>1, <1>7, DequeueType, LenProperties DEF HandleReport
  <2>2. /\ UNCHANGED <<client, device, made, callback, pending>> /\ cpc = "drain"
        /\ Stops' = Stops
    BY <1>7 DEF HandleReport, fixed, Stops
  <2>3. buffer' \in {Ring!Desc(r) : r \in Report \cup {None}}
    BY <2>1 DEF Reported
  <2>4. CASE buffer'.encoded_addr \in Stops /\ cpc' = "wait" /\ left' = Len(used_ring')
             /\ UNCHANGED console_state
    BY <1>1, <2>1, <2>2, <2>3, <2>4 DEF Places, NoStrandedReport
  <2>5. CASE cpc' = "drain" /\ left' = OneLess
             /\ (console_state' \in Keyed(console_state) \/ UNCHANGED console_state)
    <3>1. console_state' \in States
      BY <1>1, <2>5, KeyedType DEF Places
    <3>2. left' \in 0 .. Len(used_ring')
      BY <1>1, <2>1, <2>5 DEF OneLess
    <3> QED
      BY <1>1, <2>1, <2>2, <2>3, <2>5, <3>1, <3>2 DEF Places, NoStrandedReport
  <2> QED
    BY <1>7, <2>4, <2>5 DEF HandleReport
<1>8. CASE LeaveLoop
  <2>1. used_ring = <<>> /\ used_ring' = used_ring /\ buffer' = Ring!Desc(None)
    BY <1>8 DEF LeaveLoop, Ring!DequeueEmpty
  <2>2. Len(used_ring) = 0
    BY <2>1, EmptySeq
  <2> QED
    BY <1>1, <1>8, <2>1, <2>2 DEF LeaveLoop, Places, NoStrandedReport, fixed
<1>9. CASE ConsoleTurns
  <2>1. console_state' \in States
    BY <1>1, <1>9, KeyedType DEF ConsoleTurns, Places, States
  <2>2. /\ client = "shell" /\ cpc = "wait"
        /\ device = "keyboard" => console_state' = "CONSOLE" /\ console_state = "SNAKE"
        /\ UNCHANGED <<client, device, used_ring, enqRet, buffer, made, callback, pending,
                       cpc, left>>
    BY <1>9 DEF ConsoleTurns, fixed
  <2>3. device # "touchscreen" => Listens' = Listens
    BY <2>2 DEF Listens
  <2> QED
    BY <1>1, <2>1, <2>2, <2>3 DEF Places, NoStrandedReport, Stops
<1>10. CASE UNCHANGED inputVars
  BY <1>1, <1>10 DEF inputVars, Places, NoStrandedReport, Stops, Listens, fixed
<1> QED
  BY <1>3, <1>4, <1>5, <1>6, <1>7, <1>8, <1>9, <1>10 DEF InputNext, Driver, Client

\* The invariant holds throughout.
LEMMA InputInvariance == InputSpec => []InputInv
<1>1. InputInit => InputInv
  BY InputInitInv
<1>2. InputInv /\ [InputNext]_inputVars => InputInv'
  BY InputStepInv
<1> QED
  BY <1>1, <1>2, PTL DEF InputSpec

\* The queue of reports fits the ring, and the client holds a report or none.
THEOREM InputTypeCorrect == InputSpec => []InputTypeOK
<1>1. InputInv => InputTypeOK
  BY DEF InputInv
<1> QED
  BY <1>1, InputInvariance, PTL

\* Coalesced notifications strand no report, but those in the ring when the
\* client turned away from it; and only a shell that stopped on a report or has
\* its keyboard disabled does that, and the clients of a touchscreen.
THEOREM ReportsNotStranded == InputSpec => []NoStrandedReport
<1>1. InputInv => NoStrandedReport
  BY DEF InputInv
<1> QED
  BY <1>1, InputInvariance, PTL
===========================================================================
