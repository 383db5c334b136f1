------------------------------ MODULE Hotplug ------------------------------
(***************************************************************************)
(* From the socket to the client's table: xhci_stub's discovery of the two *)
(* buses, at boot and on HOTPLUG (api/src/xhci_stub.c), composed with the  *)
(* announcements and the client of DeviceTable.                            *)
(*                                                                         *)
(* A bus is explored when its flag ub_needsexplore is up.  The software    *)
(* interrupt raises the flag for a change on a port and then notifies      *)
(* xhci_stub, which it preempts wherever it is; usb_discover takes the     *)
(* flag down, attaches what it finds and tests the flag again.  These two  *)
(* are NetBSD's and external; which bus is explored when is xhci_stub's.   *)
(***************************************************************************)
EXTENDS DeviceTable

VARIABLES
    explore,        \* ub_needsexplore of each bus
    plugged, found, \* how many devices are plugged in, and attached
    due,            \* those plugged in when usb_discover took the flag down
    changed,        \* a port of the bus changed, the event is in the ring
    ipc,            \* software_interrupt: idle, notify
    hotplug,        \* notification bit of HOTPLUG
    upc, boot,      \* xhci_stub: where it is; is it still in init?
    exploring       \* is usb_discover at work on the bus?

deviceVars == <<client, ringVars, announced, spc, pending, tableVars, cpc, printVars>>
portVars == <<plugged, changed>>
discoverVars == <<found, due, exploring>>
hotplugVars == <<explore, portVars, discoverVars, ipc, hotplug, upc, boot>>
allVars == <<deviceVars, hotplugVars>>

USB2 == 2
USB3 == 3
Bus == {USB2, USB3}

HotplugInit ==
    /\ Init
    /\ explore = [b \in Bus |-> FALSE]
    /\ plugged \in [Bus -> 0 .. 1]
    /\ found = [b \in Bus |-> 0] /\ due = 0
    /\ changed = [b \in Bus |-> FALSE] /\ ipc = "idle" /\ hotplug = FALSE
    /\ upc = "init" /\ boot = TRUE /\ exploring = FALSE

---------------------------------------------------------------------------
(* The ports and the software interrupt.                                   *)

\* The controller reports changes once it is attached.
PlugIn(b) ==
    /\ plugged[USB2] + plugged[USB3] < MAX_DEVICES
    /\ plugged' = [plugged EXCEPT ![b] = @ + 1]
    /\ changed' = [changed EXCEPT ![b] = (upc # "init")]
    /\ UNCHANGED <<deviceVars, explore, discoverVars, ipc, hotplug, upc, boot>>

RaiseExplore(b) ==
    /\ ipc = "idle" /\ changed[b]
    /\ changed' = [changed EXCEPT ![b] = FALSE]
    /\ explore' = [explore EXCEPT ![b] = TRUE]
    /\ ipc' = "notify"
    /\ UNCHANGED <<deviceVars, plugged, discoverVars, hotplug, upc, boot>>

NotifyHotplug ==
    /\ ipc = "notify"
    /\ hotplug' = TRUE
    /\ ipc' = "idle"
    /\ UNCHANGED <<deviceVars, explore, portVars, discoverVars, upc, boot>>

---------------------------------------------------------------------------
(* xhci_stub.                                                              *)

\* Faulty variant: the buses are left as attaching them has left them.
AssertExploreNot == UNCHANGED explore

\* "assert initial explore"
AssertExplore == explore' = [b \in Bus |-> TRUE]

\* The end of init, from the attached controller on.
Attached ==
    /\ upc = "init"
    /\ AssertExplore
    /\ upc' = "usb2"
    /\ UNCHANGED <<deviceVars, portVars, discoverVars, ipc, hotplug, boot>>

HotplugWake ==
    /\ upc = "wait" /\ hotplug
    /\ hotplug' = FALSE
    /\ upc' = IF explore[USB3] \/ explore[USB2] THEN "usb3" ELSE "test2"
    /\ UNCHANGED <<deviceVars, explore, portVars, discoverVars, ipc, boot>>

TestUsb2 ==
    /\ upc = "test2"
    /\ upc' = IF explore[USB2] THEN "usb2" ELSE "wait"
    /\ UNCHANGED <<deviceVars, explore, portVars, discoverVars, ipc, hotplug, boot>>

\* Faulty variant: the handler breaks after the first bus.
AfterUsb3Break == "wait"

\* Where usb_discover returns to: init goes from USB2 to USB3, HOTPLUG from
\* USB3 to the test of USB2.
AfterUsb3 == IF boot THEN "wait" ELSE "test2"
AfterUsb2 == IF boot THEN "usb3" ELSE "wait"

Discovering(b) == upc = IF b = USB2 THEN "usb2" ELSE "usb3"

\* usb_discover: while the flag is up, take it down and explore the bus.
StartExplore(b) ==
    /\ Discovering(b) /\ ~exploring /\ explore[b]
    /\ explore' = [explore EXCEPT ![b] = FALSE]
    /\ exploring' = TRUE /\ due' = plugged[b]
    /\ UNCHANGED <<deviceVars, portVars, found, ipc, hotplug, upc, boot>>

\* A device plugged in since may be found too.
Attach(b) ==
    /\ Discovering(b) /\ exploring /\ found[b] < plugged[b]
    /\ AnnounceDevice
    /\ found' = [found EXCEPT ![b] = @ + 1]
    /\ UNCHANGED <<explore, portVars, due, exploring, ipc, hotplug, upc, boot>>

Announced == NotifyNewDevice /\ UNCHANGED hotplugVars

EndExplore(b) ==
    /\ Discovering(b) /\ exploring /\ spc = "idle" /\ found[b] >= due
    /\ exploring' = FALSE /\ due' = 0
    /\ UNCHANGED <<deviceVars, explore, portVars, found, ipc, hotplug, upc, boot>>

Discovered(b) ==
    /\ Discovering(b) /\ ~exploring /\ ~explore[b]
    /\ upc' = IF b = USB2 THEN AfterUsb2 ELSE AfterUsb3
    /\ boot' = (boot /\ b = USB2)
    /\ UNCHANGED <<deviceVars, explore, portVars, discoverVars, ipc, hotplug>>

---------------------------------------------------------------------------
SoftInterrupt == NotifyHotplug \/ \E b \in Bus : RaiseExplore(b)

Stub ==
    \/ Attached \/ HotplugWake \/ TestUsb2 \/ Announced
    \/ \E b \in Bus : StartExplore(b) \/ Attach(b) \/ EndExplore(b) \/ Discovered(b)

ClientStep == (Handler \/ Command) /\ UNCHANGED hotplugVars

HotplugNext == (\E b \in Bus : PlugIn(b)) \/ SoftInterrupt \/ Stub \/ ClientStep

HotplugSpec == HotplugInit /\ [][HotplugNext]_allVars

\* An event in the ring is taken (XhciInterrupt), and no domain is starved:
\* those of higher priority come to rest, as only so many devices are plugged.
HotplugFairness ==
    /\ WF_allVars(SoftInterrupt) /\ WF_allVars(Stub)
    /\ WF_allVars(Handler /\ UNCHANGED hotplugVars)

HotplugFairSpec == HotplugSpec /\ HotplugFairness

---------------------------------------------------------------------------
(* Properties.                                                             *)

\* The type invariant.
HotplugTypeOK ==
    /\ TypeOK
    /\ explore \in [Bus -> BOOLEAN] /\ changed \in [Bus -> BOOLEAN]
    /\ plugged \in [Bus -> 0 .. MAX_DEVICES]
    /\ \A b \in Bus : found[b] \in 0 .. plugged[b]
    /\ due \in 0 .. MAX_DEVICES /\ exploring \in BOOLEAN
    /\ ipc \in {"idle", "notify"} /\ hotplug \in BOOLEAN
    /\ upc \in {"init", "wait", "usb3", "test2", "usb2"} /\ boot \in BOOLEAN

\* Is the bus still to be looked at in the handler under way?
StillToDiscover(b) ==
    \/ Discovering(b)
    \/ b = USB3 /\ boot /\ upc = "usb2"
    \/ b = USB2 /\ ~boot /\ upc \in {"usb3", "test2"}

\* A flag that was raised between the tests and the discoveries of HOTPLUG
\* (xhci_stub.c:262), or of init, is never forgotten: xhci_stub will come to
\* that bus in the same handler, or has a notification, or is about to get one.
NoStrandedExplore ==
    \A b \in Bus : explore[b] => StillToDiscover(b) \/ hotplug \/ ipc = "notify"

\* Every device plugged into either bus, before the boot, during it or at any
\* moment of a discovery, is printed in the end by empty-client.
EveryPluggedListed ==
    client = "empty_client" =>
        \A d \in Id : plugged[USB2] + plugged[USB3] > d ~> d \in listed
=============================================================================
