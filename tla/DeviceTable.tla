--------------------------- MODULE DeviceTable ----------------------------
(***************************************************************************)
(* The client's table of devices (api/xhci_api.c).  xhci_stub announces    *)
(* each device it attaches in the new-device ring and notifies channel 45; *)
(* handle_new_device moves announcements into usb_devices[], and clients   *)
(* read the table: empty-client prints it after every announcement         *)
(* and the shell when a command asks.                                      *)
(*                                                                         *)
(* The driver numbers the devices it announces from 0 on (the counter      *)
(* num_devices of xhci_stub.c).  The announcement itself is external.      *)
(***************************************************************************)
EXTENDS Integers, Sequences

CONSTANTS MAX_DEVICES,      \* entries of usb_devices (127); bound on devices
          Capacity,         \* announcements the ring holds (511)
          None,             \* a null pointer
          Fault             \* what following one comes to

\* A ring at least as large as the table: no announcement finds it full.
ASSUME DeviceTableAssumption ==
    MAX_DEVICES \in Nat \ {0} /\ Capacity \in Nat /\ MAX_DEVICES <= Capacity

VARIABLES client,           \* whose handler runs: empty_client, shell
          new_ring, enqRet, buffer, \* the new-device ring, as RingFifo
          announced,        \* devices the driver has announced, in order
          spc,              \* xhci_stub: idle, notify
          pending,          \* notification bit of channel 45
          usb_devices,      \* the table
          num_devices,      \* its highest id
          cpc,              \* client: wait, drain, print, Fault
          i,                \* print_devs's loop variable
          listed            \* ids printed by the print_devs under way or last

ringVars == <<new_ring, enqRet, buffer>>
tableVars == <<usb_devices, num_devices>>
printVars == <<i, listed>>
vars == <<client, ringVars, announced, spc, pending, tableVars, cpc, printVars>>

Id == 0 .. MAX_DEVICES - 1

\* struct sel4_usb_device; what else it holds only gets printed.
Device == [id : Id]

Ring == INSTANCE RingFifo WITH
            Value <- Device, queue <- new_ring, deqRet <- buffer

Init ==
    /\ client \in {"empty_client", "shell"} /\ Ring!Init
    /\ announced = <<>> /\ spc = "idle" /\ pending = FALSE
    /\ usb_devices = [d \in Id |-> None] /\ num_devices = 0
    /\ cpc = "wait" /\ i = 0 /\ listed = {}

---------------------------------------------------------------------------
(* The driver.                                                             *)

AnnounceDevice ==
    LET dev == [id |-> Len(announced)]
    IN  /\ spc = "idle" /\ Len(announced) < MAX_DEVICES
        /\ Ring!Enqueue(dev)
        /\ announced' = Append(announced, dev)
        /\ spc' = "notify"
        /\ UNCHANGED <<client, pending, tableVars, cpc, printVars>>

NotifyNewDevice ==
    /\ spc = "notify"
    /\ pending' = TRUE
    /\ spc' = "idle"
    /\ UNCHANGED <<client, ringVars, announced, tableVars, cpc, printVars>>

---------------------------------------------------------------------------
(* The client.                                                             *)

\* notified: NEW_DEVICE_EVENT.
ClientWake ==
    /\ cpc = "wait" /\ pending
    /\ pending' = FALSE
    /\ cpc' = "drain"
    /\ UNCHANGED <<client, ringVars, announced, spc, tableVars, printVars>>

\* The table after the device at the head of the ring has been put at index d
\* with highest index n.
Enter(d, n) ==
    /\ cpc = "drain"
    /\ Ring!Dequeue
    /\ usb_devices' = [usb_devices EXCEPT ![d] = Head(new_ring).encoded_addr]
    /\ num_devices' = n
    /\ UNCHANGED <<client, announced, spc, pending, cpc, printVars>>

Larger(m, n) == IF m > n THEN m ELSE n

\* Faulty variants: num_devices is a number of devices; a device goes after
\* the last one.
HandleDeviceCounts ==
    new_ring # <<>> /\ Enter(Head(new_ring).encoded_addr.id, num_devices + 1)

HandleDeviceAppends ==
    /\ new_ring # <<>>
    /\ Enter(num_devices, Larger(num_devices, Head(new_ring).encoded_addr.id))

\* One turn of handle_new_device's loop.
HandleDevice ==
    LET dev == Head(new_ring).encoded_addr
    IN  new_ring # <<>> /\ Enter(dev.id, Larger(num_devices, dev.id))

StartPrinting == cpc' = "print" /\ i' = 0 /\ listed' = {}

DrainDone ==
    /\ cpc = "drain"
    /\ Ring!DequeueEmpty
    /\ IF client = "empty_client" THEN StartPrinting ELSE cpc' = "wait" /\ UNCHANGED printVars
    /\ UNCHANGED <<client, announced, spc, pending, tableVars>>

\* The shell's lsdev, typed on a keyboard, of which the client has been told.
LsDev ==
    /\ client = "shell"
    /\ cpc = "wait" /\ \E d \in Id : usb_devices[d] # None
    /\ StartPrinting
    /\ UNCHANGED <<client, ringVars, announced, spc, pending, tableVars>>

\* i <= num_devices, the condition of print_devs's loop.
MoreDevices == i <= num_devices

\* One turn of it; print_device follows the pointer it finds.
PrintDevice ==
    /\ cpc = "print" /\ MoreDevices
    /\ i' = i + 1 /\ listed' = listed \cup {i}
    /\ cpc' = IF usb_devices[i] = None THEN Fault ELSE "print"
    /\ UNCHANGED <<client, ringVars, announced, spc, pending, tableVars>>

PrintDone ==
    /\ cpc = "print" /\ ~MoreDevices
    /\ cpc' = "wait"
    /\ UNCHANGED <<client, ringVars, announced, spc, pending, tableVars, printVars>>

\* The shell's read and write ask get_blksize for the block size of the id
\* typed; it follows the pointer it finds there.
GetBlksize(d) ==
    /\ client = "shell"
    /\ cpc = "wait" /\ \E e \in Id : usb_devices[e] # None
    /\ cpc' = IF usb_devices[d] = None THEN Fault ELSE "wait"
    /\ UNCHANGED <<client, ringVars, announced, spc, pending, tableVars, printVars>>

---------------------------------------------------------------------------
Driver == AnnounceDevice \/ NotifyNewDevice

Handler == ClientWake \/ HandleDevice \/ DrainDone \/ PrintDevice \/ PrintDone

Command == LsDev \/ \E d \in Id : GetBlksize(d)

Next == Driver \/ Handler \/ Command

Spec == Init /\ [][Next]_vars

---------------------------------------------------------------------------
(* Properties.                                                             *)

\* The type invariant.
TypeOK ==
    /\ client \in {"empty_client", "shell"}
    /\ new_ring \in Seq({Ring!Desc(d) : d \in Device}) /\ Len(new_ring) <= Capacity
    /\ Len(announced) <= MAX_DEVICES
    /\ spc \in {"idle", "notify"} /\ pending \in BOOLEAN
    /\ usb_devices \in [Id -> Device \cup {None}] /\ num_devices \in Id
    /\ cpc \in {"wait", "drain", "print", Fault} /\ i \in 0 .. MAX_DEVICES
    /\ listed \subseteq Id

\* Announcements the client has taken out of the ring.
Handled == Len(announced) - Len(new_ring)

\* The table holds exactly the devices announced and taken from the ring, each
\* at its id, and num_devices is the highest of those ids: no device is lost,
\* duplicated or entered under another's number between the two domains.
TableMatchesAnnounced ==
    /\ \A d \in Id :
          usb_devices[d] = IF d < Handled THEN announced[d + 1] ELSE None
    /\ num_devices = Larger(0, Handled - 1)
===========================================================================
