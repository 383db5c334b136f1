-------------------------- MODULE XhciInterrupt ---------------------------
(***************************************************************************)
(* From an event the xHC writes to its event ring to the software          *)
(* interrupt that consumes it: the controller's status and interrupt       *)
(* pending bits, the kernel's interrupt line, hardware_interrupt           *)
(* (api/src/hardware_interrupts.c), the notification to software_interrupt *)
(* (api/src/software_interrupts.c) and its drain of the ring; and the      *)
(* order in which xhci_stub shares the softc with both and starts the      *)
(* controller (api/src/xhci_stub.c).                                       *)
(*                                                                         *)
(* The controller and xhci_softintr (netbsd) are modelled from how this    *)
(* code uses them, and loosely: the controller may raise an interrupt for  *)
(* every event, whether or not an earlier one is still being handled.      *)
(* The interrupt line is level-triggered.  sc_dying is set by nothing in   *)
(* this repository and XHCI_IMAN's enable bit stays set once started.      *)
(***************************************************************************)
EXTENDS Integers

CONSTANTS MaxEvents,    \* bound: events the controller posts
          EventRing     \* slots of the controller's event ring

ASSUME XhciInterruptAssumption ==
    MaxEvents \in Nat /\ EventRing \in Nat \ {0}

VARIABLES
    posted,             \* events posted so far
    events,             \* events in the ring, not yet consumed
    usbsts,             \* XHCI_USBSTS: the bits that are set
    intr_pend,          \* XHCI_IMAN_INTR_PEND
    masked,             \* the kernel delivered the interrupt, no ack yet
    irq,                \* notification bit of channel 6
    hpc, snapshot,      \* hardware_interrupt: place in notified, usbsts as read
    hard_sc, soft_sc,   \* glob_xhci_sc in either domain: is it set?
    soft_pending,       \* notification bit of channel 7
    ipc,                \* software_interrupt: wait, drain
    bpc                 \* xhci_stub: place in init

xhcVars == <<posted, events, usbsts, intr_pend>>
hardVars == <<hpc, snapshot>>
scVars == <<hard_sc, soft_sc, bpc>>
vars == <<xhcVars, masked, irq, hardVars, scVars, soft_pending, ipc>>

Status == {"EINT", "PCD", "HSE", "HCE"}

Init ==
    /\ posted = 0 /\ events = 0 /\ usbsts = {} /\ intr_pend = FALSE
    /\ masked = FALSE /\ irq = FALSE
    /\ hpc = "wait" /\ snapshot = {}
    /\ hard_sc = FALSE /\ soft_sc = FALSE /\ bpc = "share_hard"
    /\ soft_pending = FALSE /\ ipc = "wait"

---------------------------------------------------------------------------
(* xhci_stub's init: protected procedure calls, then dwc3_fdt_attach.      *)

\* Faulty variant: the controller starts before software_interrupt has its softc.
ShareHardThenAttach ==
    /\ bpc = "share_hard"
    /\ hpc = "wait"
    /\ hard_sc' = TRUE
    /\ bpc' = "attach"
    /\ UNCHANGED <<xhcVars, masked, irq, hardVars, soft_sc, soft_pending, ipc>>

ShareHard ==
    /\ bpc = "share_hard"
    /\ hpc = "wait"                     \* a call waits for its callee
    /\ hard_sc' = TRUE
    /\ bpc' = "share_soft"
    /\ UNCHANGED <<xhcVars, masked, irq, hardVars, soft_sc, soft_pending, ipc>>

ShareSoft ==
    /\ bpc = "share_soft"
    /\ ipc = "wait"
    /\ soft_sc' = TRUE
    /\ bpc' = "attach"
    /\ UNCHANGED <<xhcVars, masked, irq, hardVars, hard_sc, soft_pending, ipc>>

Attach ==
    /\ bpc = "attach"
    /\ bpc' = "running"
    /\ UNCHANGED <<xhcVars, masked, irq, hardVars, hard_sc, soft_sc, soft_pending, ipc>>

---------------------------------------------------------------------------
(* The controller and the kernel.                                          *)

\* An event TRB is written: EINT and possibly another status bit rise with
\* the interrupt pending bit.  A full ring holds the controller back.
PostEvent(s) ==
    /\ bpc = "running"
    /\ posted < MaxEvents /\ events < EventRing
    /\ posted' = posted + 1
    /\ events' = events + 1
    /\ usbsts' = usbsts \cup {"EINT", s}
    /\ intr_pend' = TRUE
    /\ UNCHANGED <<masked, irq, hardVars, scVars, soft_pending, ipc>>

\* The kernel turns the asserted line into a notification and masks it.
DeliverIrq ==
    /\ intr_pend /\ ~masked
    /\ masked' = TRUE
    /\ irq' = TRUE
    /\ UNCHANGED <<xhcVars, hardVars, scVars, soft_pending, ipc>>

\* The line may be shared: another device's interrupt is delivered as well.
DeliverOther ==
    /\ ~masked
    /\ masked' = TRUE
    /\ irq' = TRUE
    /\ UNCHANGED <<xhcVars, hardVars, scVars, soft_pending, ipc>>

---------------------------------------------------------------------------
(* hardware_interrupt: notified, xhci_intr and xhci_intr1.                 *)

\* case 6: with no softc the interrupt is only acknowledged.
HardWake ==
    /\ hpc = "wait" /\ irq
    /\ irq' = FALSE
    /\ hpc' = IF hard_sc THEN "read" ELSE "ack"
    /\ UNCHANGED <<xhcVars, masked, snapshot, scVars, soft_pending, ipc>>

\* Faulty variant: no early return on a foreign interrupt.
ReadUsbstsAlways ==
    /\ hpc = "read"
    /\ snapshot' = usbsts
    /\ hpc' = "write_1"
    /\ UNCHANGED <<xhcVars, masked, irq, scVars, soft_pending, ipc>>

\* Faulty variant: an ignored interrupt is not acknowledged.
ReadUsbstsNoAck ==
    /\ hpc = "read"
    /\ snapshot' = usbsts
    /\ hpc' = IF usbsts = {} THEN "wait" ELSE "write_1"
    /\ UNCHANGED <<xhcVars, masked, irq, scVars, soft_pending, ipc>>

\* Faulty variant: EINT is not among the bits tested.
ReadUsbstsNoEint ==
    /\ hpc = "read"
    /\ snapshot' = usbsts
    /\ hpc' = IF usbsts \ {"EINT"} = {} THEN "ack" ELSE "write_1"
    /\ UNCHANGED <<xhcVars, masked, irq, scVars, soft_pending, ipc>>

\* "ignored intr not for this device" when no status bit is set.
ReadUsbsts ==
    /\ hpc = "read"
    /\ snapshot' = usbsts
    /\ hpc' = IF usbsts = {} THEN "ack" ELSE "write_1"
    /\ UNCHANGED <<xhcVars, masked, irq, scVars, soft_pending, ipc>>

\* Writing back the bits read clears those, not one that rose since.
WriteUsbsts(at, next) ==
    /\ hpc = at
    /\ usbsts' = usbsts \ snapshot
    /\ hpc' = next
    /\ UNCHANGED <<posted, events, intr_pend, masked, irq, snapshot, scVars,
                   soft_pending, ipc>>

WriteIman(at, next) ==
    /\ hpc = at
    /\ intr_pend' = FALSE
    /\ hpc' = next
    /\ UNCHANGED <<posted, events, usbsts, masked, irq, snapshot, scVars,
                   soft_pending, ipc>>

\* Faulty variants: the writes swapped; the result of xhci_intr1 not notified.
ClearInterruptSwapped ==
    \/ WriteIman("write_1", "write_2")
    \/ WriteUsbsts("write_2", "notify")

ClearInterruptNoNotify ==
    \/ WriteUsbsts("write_1", "write_2")
    \/ WriteIman("write_2", "ack")

\* EINT is cleared before XHCI_IMAN_INTR_PEND.
ClearInterrupt ==
    \/ WriteUsbsts("write_1", "write_2")
    \/ WriteIman("write_2", "notify")

NotifySoft ==
    /\ hpc = "notify"
    /\ soft_pending' = TRUE
    /\ hpc' = "ack"
    /\ UNCHANGED <<xhcVars, masked, irq, snapshot, scVars, ipc>>

IrqAck ==
    /\ hpc = "ack"
    /\ masked' = FALSE
    /\ hpc' = "wait"
    /\ UNCHANGED <<xhcVars, irq, snapshot, scVars, soft_pending, ipc>>

---------------------------------------------------------------------------
(* software_interrupt: notified and xhci_softintr.                         *)

\* case 7: with no softc the notification is lost.
SoftWake ==
    /\ ipc = "wait" /\ soft_pending
    /\ soft_pending' = FALSE
    /\ ipc' = IF soft_sc THEN "drain" ELSE "wait"
    /\ UNCHANGED <<xhcVars, masked, irq, hardVars, scVars>>

HandleEvent ==
    /\ ipc = "drain" /\ events > 0
    /\ events' = events - 1
    /\ UNCHANGED <<posted, usbsts, intr_pend, masked, irq, hardVars, scVars,
                   soft_pending, ipc>>

\* The cycle bit of the next TRB says that the ring is drained.
DrainDone ==
    /\ ipc = "drain" /\ events = 0
    /\ ipc' = "wait"
    /\ UNCHANGED <<xhcVars, masked, irq, hardVars, scVars, soft_pending>>

---------------------------------------------------------------------------
Boot == ShareHard \/ ShareSoft \/ Attach

Controller == \E s \in Status : PostEvent(s)

Hard ==
    \/ HardWake \/ ReadUsbsts \/ ClearInterrupt \/ NotifySoft \/ IrqAck

Soft == SoftWake \/ HandleEvent \/ DrainDone

Next == Boot \/ Controller \/ DeliverIrq \/ DeliverOther \/ Hard \/ Soft

Spec == Init /\ [][Next]_vars

\* Interrupt delivery is the kernel's; the two interrupt domains have the
\* highest priorities after memory's, and both handlers return.
Fairness == WF_vars(DeliverIrq) /\ WF_vars(Hard) /\ WF_vars(Soft)

FairSpec == Spec /\ Fairness

---------------------------------------------------------------------------
(* Properties.                                                             *)

\* The type invariant; the two registers are written back only by a handler
\* that found a status bit of its own, never on a foreign interrupt.
TypeOK ==
    /\ posted \in 0 .. MaxEvents /\ events \in 0 .. EventRing
    /\ usbsts \subseteq Status /\ snapshot \subseteq Status
    /\ intr_pend \in BOOLEAN /\ masked \in BOOLEAN /\ irq \in BOOLEAN
    /\ hpc \in {"wait", "read", "write_1", "write_2", "notify", "ack"}
    /\ hpc \in {"write_1", "write_2", "notify"} => snapshot # {}
    /\ hard_sc \in BOOLEAN /\ soft_sc \in BOOLEAN
    /\ soft_pending \in BOOLEAN /\ ipc \in {"wait", "drain"}
    /\ bpc \in {"share_hard", "share_soft", "attach", "running"}

\* No event is stranded: while the ring holds one, something is under way
\* that ends in a drain.
NoStrandedEvent ==
    events > 0 => \/ soft_pending \/ ipc = "drain"
                  \/ hpc \in {"write_1", "write_2", "notify"}
                  \/ intr_pend /\ "EINT" \in usbsts

\* "To avoid race, EINT must be cleared before XHCI_IMAN_INTR_PEND": an
\* asserted line always comes with a status bit that xhci_intr1 recognises,
\* but for the moment between its two writes.  Otherwise the interrupt would
\* be ignored, never cleared, and delivered again for ever.
PendingIsRecognised ==
    intr_pend => usbsts # {} \/ hpc = "write_2"

\* The kernel masks the line exactly while a delivery is being handled, so
\* an interrupt is never left masked with nobody to acknowledge it.
MaskedIsHandled == masked <=> (irq \/ hpc # "wait")

\* Both domains hold the softc whenever the controller interrupts: neither
\* handler finds it NULL and drops the controller's event.
SoftcBeforeInterrupt ==
    (soft_pending \/ intr_pend) => hard_sc /\ soft_sc

\* Every event posted is consumed.
EventsConsumed == []<>(events = 0)
===========================================================================
