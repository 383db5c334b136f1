--------------------------- MODULE HotplugProofs ---------------------------
(***************************************************************************)
(* That the client's table is what the driver announced, and that no bus   *)
(* is left unexplored, for any number of devices and every size of ring.   *)
(***************************************************************************)
EXTENDS Hotplug, SequenceTheorems, TLAPS

Announcement == {Ring!Desc(d) : d \in Device}

\* The driver numbers devices from 0 on, and the ring holds what is left of
\* its announcements, in their order.
Announcements ==
    /\ announced \in Seq(Device) /\ Len(announced) <= MAX_DEVICES
    /\ \A k \in 1 .. Len(announced) : announced[k] = [id |-> k - 1]
    /\ new_ring \in Seq(Announcement)
    /\ Len(new_ring) <= Len(announced) /\ Len(new_ring) <= Capacity
    /\ \A k \in 1 .. Len(new_ring) : new_ring[k] = Ring!Desc(announced[Handled + k])

\* TypeOK without the ring.
TableTypes ==
    /\ client \in {"empty_client", "shell"}
    /\ spc \in {"idle", "notify"} /\ pending \in BOOLEAN
    /\ usb_devices \in [Id -> Device \cup {None}] /\ num_devices \in Id
    /\ cpc \in {"wait", "drain", "print", Fault} /\ i \in 0 .. MAX_DEVICES
    /\ listed \subseteq Id

TableInv == TableTypes /\ Announcements /\ TableMatchesAnnounced

LEMMA Bounds == MAX_DEVICES \in Nat /\ MAX_DEVICES > 0 /\ Capacity \in Nat /\ 0 \in Id
BY DeviceTableAssumption DEF DeviceTableAssumption, Id

\* The table is empty as long as nothing was announced.
LEMMA TableInit == Init => TableInv
<1> SUFFICES ASSUME Init PROVE TableInv
  OBVIOUS
<1>1. announced = <<>> /\ new_ring = <<>> /\ Len(announced) = 0 /\ Len(new_ring) = 0
  BY EmptySeq DEF Init, Ring!Init
<1>2. Announcements
  BY <1>1, Bounds, EmptySeq DEF Announcements
<1>3. TableTypes
  BY Bounds DEF Init, TableTypes
<1>4. Handled = 0
  BY <1>1 DEF Handled
<1>5. TableMatchesAnnounced
  BY <1>4 DEF Init, TableMatchesAnnounced, Larger, Id
<1> QED
  BY <1>2, <1>3, <1>5 DEF TableInv

\* A device is announced at the end of the ring under the next number.
LEMMA AnnounceStep == TableInv /\ AnnounceDevice => TableInv'
<1> SUFFICES ASSUME TableInv, AnnounceDevice PROVE TableInv'
  OBVIOUS
<1> DEFINE dev == [id |-> Len(announced)]
           n == Len(announced)
           r == Len(new_ring)
<1>1. /\ announced' = Append(announced, dev) /\ new_ring' = Append(new_ring, Ring!Desc(dev))
      /\ n < MAX_DEVICES /\ r < Capacity
      /\ spc' = "notify" /\ UNCHANGED <<client, pending, usb_devices, num_devices, cpc, i, listed>>
  BY DEF AnnounceDevice, Ring!Enqueue, tableVars, printVars
<1>2. /\ announced \in Seq(Device) /\ new_ring \in Seq(Announcement)
      /\ n \in Nat /\ r \in Nat /\ r <= n
  BY LenProperties DEF TableInv, Announcements
<1>3. dev \in Device /\ Ring!Desc(dev) \in Announcement
  <2>1. n \in Id
    BY <1>1, <1>2, Bounds DEF Id
  <2>2. dev \in Device
    BY <2>1 DEF Device
  <2> QED
    BY <2>2 DEF Announcement
<1>4. /\ announced' \in Seq(Device) /\ Len(announced') = n + 1
      /\ \A k \in 1 .. n : announced'[k] = announced[k]
      /\ announced'[n + 1] = dev
  BY <1>1, <1>2, <1>3, AppendProperties
<1>5. /\ new_ring' \in Seq(Announcement) /\ Len(new_ring') = r + 1
      /\ \A k \in 1 .. r : new_ring'[k] = new_ring[k]
      /\ new_ring'[r + 1] = Ring!Desc(dev)
  BY <1>1, <1>2, <1>3, AppendProperties
<1>6. Handled = n - r /\ Handled' = n - r
  BY <1>2, <1>4, <1>5 DEF Handled
<1>7. Announcements'
  <2>1. \A k \in 1 .. n + 1 : announced'[k] = [id |-> k - 1]
    <3>1. \A k \in 1 .. n : announced[k] = [id |-> k - 1]
      BY DEF TableInv, Announcements
    <3>2. (n + 1) - 1 = n /\ \A k \in 1 .. n + 1 : k \in 1 .. n \/ k = n + 1
      BY <1>2
    <3> QED
      BY <1>4, <3>1, <3>2, Zenon
  <2>2. \A k \in 1 .. r + 1 : new_ring'[k] = Ring!Desc(announced'[Handled' + k])
    <3> SUFFICES ASSUME NEW k \in 1 .. r + 1
                 PROVE  new_ring'[k] = Ring!Desc(announced'[Handled' + k])
      OBVIOUS
    <3>1. CASE k = r + 1
      <4>1. Handled' + k = n + 1
        BY <1>2, <1>6, <3>1
      <4> QED
        BY <1>4, <1>5, <3>1, <4>1
    <3>2. CASE k \in 1 .. r
      <4>1. Handled + k \in 1 .. n /\ Handled' = Handled
        BY <1>2, <1>6, <3>2
      <4>2. new_ring[k] = Ring!Desc(announced[Handled + k])
        BY <3>2 DEF TableInv, Announcements
      <4> QED
        BY <1>4, <1>5, <3>2, <4>1, <4>2
    <3> QED
      BY <1>2, <3>1, <3>2
  <2>3. Len(announced') <= MAX_DEVICES /\ Len(new_ring') <= Len(announced')
        /\ Len(new_ring') <= Capacity
    BY <1>1, <1>2, <1>4, <1>5, Bounds
  <2>4. \A k \in 1 .. Len(announced') : announced'[k] = [id |-> k - 1]
    BY <1>4, <2>1
  <2>5. \A k \in 1 .. Len(new_ring') : new_ring'[k] = Ring!Desc(announced'[Handled' + k])
    BY <1>5, <2>2
  <2> QED
    BY <1>4, <1>5, <2>3, <2>4, <2>5, Zenon DEF Announcements
<1>8. TableMatchesAnnounced'
  <2>1. \A d \in Id : d < Handled => announced'[d + 1] = announced[d + 1]
    BY <1>2, <1>4, <1>6 DEF Id
  <2> HIDE DEF dev
  <2> QED
    BY <1>1, <1>6, <2>1 DEF TableInv, TableMatchesAnnounced
<1>9. TableTypes'
  BY <1>1 DEF TableInv, TableTypes
<1> QED
  BY <1>7, <1>8, <1>9 DEF TableInv

\* The client enters the first device of the ring, whose number is how many
\* it has entered before.
LEMMA HandleStep == TableInv /\ HandleDevice => TableInv'
<1> SUFFICES ASSUME TableInv, HandleDevice PROVE TableInv'
  OBVIOUS
<1> DEFINE dev == Head(new_ring).encoded_addr
           n == Len(announced)
           r == Len(new_ring)
<1>1. /\ new_ring # <<>> /\ new_ring' = Tail(new_ring)
      /\ usb_devices' = [usb_devices EXCEPT ![dev.id] = dev]
      /\ num_devices' = Larger(num_devices, dev.id)
      /\ UNCHANGED <<client, announced, spc, pending, cpc, i, listed>>
  BY DEF HandleDevice, Enter, Ring!Dequeue, printVars
<1>2. /\ announced \in Seq(Device) /\ new_ring \in Seq(Announcement)
      /\ n \in Nat /\ r \in Nat /\ r <= n /\ n <= MAX_DEVICES
  BY LenProperties DEF TableInv, Announcements
<1>3. /\ new_ring' \in Seq(Announcement) /\ Len(new_ring') = r - 1 /\ r > 0
      /\ \A k \in 1 .. r - 1 : new_ring'[k] = new_ring[k + 1]
      /\ Head(new_ring) = new_ring[1]
  BY <1>1, <1>2, HeadTailProperties, EmptySeq
<1>4. Handled = n - r /\ Handled' = n - r + 1 /\ Handled \in 0 .. n - 1
  BY <1>1, <1>2, <1>3 DEF Handled
<1>5. dev = announced[Handled + 1] /\ dev = [id |-> Handled]
  <2>1. new_ring[1] = Ring!Desc(announced[Handled + 1])
    BY <1>2, <1>3 DEF TableInv, Announcements
  <2>2. dev = announced[Handled + 1]
    BY <1>3, <2>1 DEF Ring!Desc
  <2>3. announced[Handled + 1] = [id |-> Handled + 1 - 1]
    BY <1>2, <1>4 DEF TableInv, Announcements
  <2> QED
    BY <1>4, <2>2, <2>3
<1>6. dev.id = Handled /\ Handled \in Id /\ dev \in Device
  BY <1>2, <1>4, <1>5, Bounds DEF Id, Device
<1> HIDE DEF dev
<1>7. Announcements'
  <2>1. \A k \in 1 .. r - 1 : new_ring'[k] = Ring!Desc(announced[Handled + (k + 1)])
    BY <1>2, <1>3 DEF TableInv, Announcements
  <2>2. \A k \in 1 .. r - 1 : Handled' + k = Handled + (k + 1)
    BY <1>2, <1>4
  <2>3. \A k \in 1 .. Len(new_ring') : new_ring'[k] = Ring!Desc(announced'[Handled' + k])
    BY <1>1, <1>3, <2>1, <2>2
  <2>4. Len(new_ring') <= Len(announced') /\ Len(new_ring') <= Capacity
    BY <1>1, <1>2, <1>3, Bounds DEF TableInv, Announcements
  <2>5. /\ announced' \in Seq(Device) /\ Len(announced') <= MAX_DEVICES
        /\ \A k \in 1 .. Len(announced') : announced'[k] = [id |-> k - 1]
    BY <1>1 DEF TableInv, Announcements
  <2> QED
    BY <1>3, <2>3, <2>4, <2>5, Zenon DEF Announcements
<1>8. num_devices = Larger(0, Handled - 1) /\ num_devices' = Handled
      /\ num_devices' = Larger(0, Handled' - 1)
  BY <1>1, <1>4, <1>6 DEF TableInv, TableMatchesAnnounced, Larger
<1>9. TableMatchesAnnounced'
  <2>1. ASSUME NEW d \in Id
        PROVE  usb_devices'[d] = IF d < Handled' THEN announced'[d + 1] ELSE None
    <3>1. usb_devices[d] = IF d < Handled THEN announced[d + 1] ELSE None
      BY DEF TableInv, TableMatchesAnnounced
    <3>2. d \in Int /\ usb_devices'[d] = IF d = Handled THEN dev ELSE usb_devices[d]
      BY <1>1, <1>6 DEF TableInv, TableTypes, Id
    <3>3. Handled \in Int /\ Handled' = Handled + 1 /\ announced' = announced
      BY <1>1, <1>2, <1>4
    <3>4. CASE d = Handled
      <4>1. d < Handled'
        BY <3>3, <3>4
      <4>2. usb_devices'[d] = dev /\ announced'[d + 1] = dev
        BY <1>5, <3>2, <3>3, <3>4, Zenon
      <4> QED
        BY <4>1, <4>2
    <3>5. CASE d # Handled
      <4>1. d < Handled' <=> d < Handled
        BY <3>2, <3>3, <3>5
      <4> QED
        BY <3>1, <3>2, <3>3, <3>5, <4>1
    <3> QED
      BY <3>4, <3>5
  <2> QED
    BY <1>8, <2>1 DEF TableMatchesAnnounced
<1>10. TableTypes'
  BY <1>1, <1>6, <1>8 DEF TableInv, TableTypes
<1> QED
  BY <1>7, <1>9, <1>10 DEF TableInv

\* The other steps leave the announcements and the table alone.
LEMMA OtherStep ==
    ASSUME TableInv,
           \/ NotifyNewDevice \/ ClientWake \/ DrainDone \/ LsDev \/ PrintDevice \/ PrintDone
           \/ (\E d \in Id : GetBlksize(d)) \/ UNCHANGED vars
    PROVE  TableInv'
<1>1. UNCHANGED <<new_ring, announced, usb_devices, num_devices, client>>
  BY DEF NotifyNewDevice, ClientWake, DrainDone, LsDev, PrintDevice, PrintDone, GetBlksize, vars,
         ringVars, tableVars, Ring!DequeueEmpty
<1>2. Announcements' /\ TableMatchesAnnounced'
  BY <1>1 DEF TableInv, Announcements, TableMatchesAnnounced, Handled
<1>3. TableTypes'
  <2>1. spc' \in {"idle", "notify"} /\ pending' \in BOOLEAN
    BY DEF TableInv, TableTypes, NotifyNewDevice, ClientWake, DrainDone, LsDev, PrintDevice,
           PrintDone, GetBlksize, vars
  <2>2. cpc' \in {"wait", "drain", "print", Fault}
    BY DEF TableInv, TableTypes, NotifyNewDevice, ClientWake, DrainDone, LsDev, PrintDevice,
           PrintDone, GetBlksize, StartPrinting, vars
  <2>3. i' \in 0 .. MAX_DEVICES /\ listed' \subseteq Id
    <3>1. CASE PrintDevice
      <4>1. i <= num_devices /\ i' = i + 1 /\ listed' = listed \cup {i}
        BY <3>1 DEF PrintDevice, MoreDevices
      <4>2. i \in Id /\ i + 1 \in 0 .. MAX_DEVICES
        BY <4>1, Bounds DEF TableInv, TableTypes, Id
      <4> QED
        BY <4>1, <4>2 DEF TableInv, TableTypes
    <3>2. CASE StartPrinting
      BY <3>2, Bounds DEF StartPrinting
    <3>3. CASE UNCHANGED printVars
      BY <3>3 DEF TableInv, TableTypes, printVars
    <3> QED
      BY <3>1, <3>2, <3>3 DEF NotifyNewDevice, ClientWake, DrainDone, LsDev, PrintDone, GetBlksize,
         vars
  <2> QED
    BY <1>1, <2>1, <2>2, <2>3 DEF TableInv, TableTypes
<1> QED
  BY <1>2, <1>3 DEF TableInv

LEMMA TableStep == TableInv /\ [Next]_vars => TableInv'
BY AnnounceStep, HandleStep, OtherStep DEF Next, Driver, Handler, Command

LEMMA TableTyped == TableInv => TypeOK
<1> SUFFICES ASSUME TableInv PROVE TypeOK
  OBVIOUS
<1>1. new_ring \in Seq({Ring!Desc(d) : d \in Device}) /\ Len(new_ring) <= Capacity
      /\ Len(announced) <= MAX_DEVICES
  BY DEF TableInv, Announcements, Announcement
<1> QED
  BY <1>1 DEF TableInv, TableTypes, TypeOK

\* To the table every step of the composition is one of its own or none.
LEMMA ComposedStep == [HotplugNext]_allVars => [Next]_vars
<1> SUFFICES ASSUME [HotplugNext]_allVars PROVE [Next]_vars
  OBVIOUS
<1>1. UNCHANGED deviceVars => UNCHANGED vars
  BY DEF deviceVars, vars
<1>2. CASE \E b \in Bus : PlugIn(b)
  BY <1>1, <1>2 DEF PlugIn
<1>3. CASE SoftInterrupt
  BY <1>1, <1>3 DEF SoftInterrupt, NotifyHotplug, RaiseExplore
<1>4. CASE Stub
  <2>1. CASE Announced \/ \E b \in Bus : Attach(b)
    BY <2>1 DEF Announced, Attach, Next, Driver
  <2>2. CASE \E b \in Bus : StartExplore(b) \/ EndExplore(b) \/ Discovered(b)
    BY <1>1, <2>2 DEF StartExplore, EndExplore, Discovered
  <2>3. CASE Attached \/ HotplugWake \/ TestUsb2
    BY <1>1, <2>3 DEF Attached, HotplugWake, TestUsb2
  <2> QED
    BY <1>4, <2>1, <2>2, <2>3 DEF Stub
<1>5. CASE ClientStep
  BY <1>5 DEF ClientStep, Next
<1>6. CASE UNCHANGED allVars
  BY <1>1, <1>6 DEF allVars
<1> QED
  BY <1>2, <1>3, <1>4, <1>5, <1>6 DEF HotplugNext

LEMMA TableInvariance == HotplugSpec => []TableInv
<1>1. HotplugInit => TableInv
  BY TableInit DEF HotplugInit
<1>2. TableInv /\ [HotplugNext]_allVars => TableInv'
  BY TableStep, ComposedStep
<1> QED
  BY <1>1, <1>2, PTL DEF HotplugSpec

\* The client's table is exactly what the driver has announced and the client
\* has taken from the ring, each device under its own number.
THEOREM TableCorrect == HotplugSpec => []TableMatchesAnnounced
<1>1. TableInv => TableMatchesAnnounced
  BY DEF TableInv
<1> QED
  BY <1>1, TableInvariance, PTL

---------------------------------------------------------------------------
(* The buses.                                                              *)

BusTypes ==
    /\ explore \in [Bus -> BOOLEAN] /\ changed \in [Bus -> BOOLEAN]
    /\ plugged \in [Bus -> 0 .. MAX_DEVICES]
    /\ \A b \in Bus : found[b] \in 0 .. plugged[b]
    /\ due \in 0 .. MAX_DEVICES /\ exploring \in BOOLEAN
    /\ ipc \in {"idle", "notify"} /\ hotplug \in BOOLEAN
    /\ upc \in {"init", "wait", "usb3", "test2", "usb2"} /\ boot \in BOOLEAN

\* found is a function, which its bound by plugged does not say.
FoundType == found \in [Bus -> Nat]

\* init explores both buses before anything waits or tests.
BootOrder ==
    /\ upc = "init" => boot
    /\ boot => upc \in {"init", "usb2", "usb3"}

BusInv == BusTypes /\ FoundType /\ BootOrder /\ NoStrandedExplore

LEMMA BusInit == HotplugInit => BusInv
<1> SUFFICES ASSUME HotplugInit PROVE BusInv
  OBVIOUS
<1>1. plugged \in [Bus -> 0 .. 1] /\ found = [b \in Bus |-> 0] /\ due = 0
  BY DEF HotplugInit
<1>2. /\ plugged \in [Bus -> 0 .. MAX_DEVICES] /\ due \in 0 .. MAX_DEVICES
      /\ FoundType /\ \A b \in Bus : found[b] \in 0 .. plugged[b]
  BY <1>1, Bounds DEF FoundType
<1>3. BusTypes
  BY <1>2 DEF HotplugInit, BusTypes
<1> QED
  BY <1>2, <1>3 DEF HotplugInit, BusInv, BootOrder, NoStrandedExplore

\* The types hold whatever the flags mean.
LEMMA BusTypesStep ==
    BusTypes /\ FoundType /\ [HotplugNext]_allVars => BusTypes' /\ FoundType'
<1> SUFFICES ASSUME BusTypes, FoundType, [HotplugNext]_allVars PROVE BusTypes' /\ FoundType'
  OBVIOUS
<1> USE DEF discoverVars, portVars
<1>1. ASSUME NEW b \in Bus, PlugIn(b) PROVE BusTypes' /\ FoundType'
  <2>1. plugged[USB2] \in Nat /\ plugged[USB3] \in Nat /\ \A c \in Bus : found[c] \in Nat
    BY DEF BusTypes, FoundType, Bus
  <2>2. /\ plugged' = [plugged EXCEPT ![b] = @ + 1] /\ plugged[USB2] + plugged[USB3] < MAX_DEVICES
        /\ changed' = [changed EXCEPT ![b] = (upc # "init")]
        /\ UNCHANGED <<explore, found, due, exploring, ipc, hotplug, upc, boot>>
    BY <1>1 DEF PlugIn
  <2>3. plugged[b] + 1 \in 0 .. MAX_DEVICES
    BY <2>1, <2>2, Bounds DEF Bus
  <2>4. plugged' \in [Bus -> 0 .. MAX_DEVICES]
    BY <2>2, <2>3 DEF BusTypes
  <2>5. \A c \in Bus : found'[c] \in 0 .. plugged'[c]
    BY <2>1, <2>2, Bounds DEF BusTypes
  <2>6. changed' \in [Bus -> BOOLEAN]
    <3>1. (upc # "init") \in BOOLEAN
      OBVIOUS
    <3> QED
      BY <2>2, <3>1, Zenon DEF BusTypes
  <2> QED
    BY <2>2, <2>4, <2>5, <2>6 DEF BusTypes, FoundType
<1>2. ASSUME NEW b \in Bus, RaiseExplore(b) PROVE BusTypes' /\ FoundType'
  BY <1>2 DEF RaiseExplore, BusTypes, FoundType
<1>3. CASE NotifyHotplug
  BY <1>3 DEF NotifyHotplug, BusTypes, FoundType
<1>4. CASE Attached \/ HotplugWake \/ TestUsb2 \/ Announced
  BY <1>4 DEF Attached, AssertExplore, HotplugWake, TestUsb2, Announced, hotplugVars, BusTypes,
     FoundType
<1>5. ASSUME NEW b \in Bus, StartExplore(b) PROVE BusTypes' /\ FoundType'
  BY <1>5 DEF StartExplore, BusTypes, FoundType
<1>6. ASSUME NEW b \in Bus, Attach(b) PROVE BusTypes' /\ FoundType'
  <2>1. /\ found' = [found EXCEPT ![b] = @ + 1] /\ found[b] < plugged[b]
        /\ UNCHANGED <<explore, plugged, changed, due, exploring, ipc, hotplug, upc, boot>>
    BY <1>6 DEF Attach
  <2>2. \A c \in Bus : found[c] \in Nat /\ plugged[c] \in Nat
    BY Bounds DEF BusTypes, FoundType
  <2>3. FoundType' /\ \A c \in Bus : found'[c] \in 0 .. plugged'[c]
    BY <2>1, <2>2 DEF BusTypes, FoundType
  <2> QED
    BY <2>1, <2>3 DEF BusTypes
<1>7. ASSUME NEW b \in Bus, EndExplore(b) PROVE BusTypes' /\ FoundType'
  <2>1. /\ exploring' = FALSE /\ due' = 0 /\ 0 \in 0 .. MAX_DEVICES
        /\ UNCHANGED <<explore, plugged, changed, found, ipc, hotplug, upc, boot>>
    BY <1>7, Bounds DEF EndExplore
  <2> QED
    BY <2>1 DEF BusTypes, FoundType
<1>8. ASSUME NEW b \in Bus, Discovered(b) PROVE BusTypes' /\ FoundType'
  <2>1. /\ upc' \in {"wait", "usb3", "test2"} /\ boot' \in BOOLEAN
        /\ UNCHANGED <<explore, plugged, changed, found, due, exploring, ipc, hotplug>>
    BY <1>8 DEF Discovered, AfterUsb2, AfterUsb3
  <2> QED
    BY <2>1 DEF BusTypes, FoundType
<1>9. CASE ClientStep \/ UNCHANGED allVars
  BY <1>9 DEF ClientStep, allVars, hotplugVars, BusTypes, FoundType
<1> QED
  BY <1>1, <1>2, <1>3, <1>4, <1>5, <1>6, <1>7, <1>8, <1>9 DEF HotplugNext, SoftInterrupt, Stub

\* No step strands a flag that is up, and none but the interrupt's raises one.
LEMMA FlagStep ==
    BusInv /\ [HotplugNext]_allVars => BootOrder' /\ NoStrandedExplore'
<1> SUFFICES ASSUME BusInv, [HotplugNext]_allVars PROVE BootOrder' /\ NoStrandedExplore'
  OBVIOUS
<1> USE DEF discoverVars, portVars, BusInv, BootOrder, NoStrandedExplore, StillToDiscover,
            Discovering, Bus, USB2, USB3
<1>1. ASSUME UNCHANGED <<explore, ipc, hotplug, upc, boot>> PROVE BootOrder' /\ NoStrandedExplore'
  BY <1>1
<1>2. ASSUME NEW b \in Bus, RaiseExplore(b) PROVE BootOrder' /\ NoStrandedExplore'
  BY <1>2 DEF RaiseExplore
<1>3. CASE NotifyHotplug
  BY <1>3 DEF NotifyHotplug
<1>4. CASE Attached
  BY <1>4 DEF Attached, AssertExplore
<1>5. CASE HotplugWake
  BY <1>5 DEF HotplugWake
<1>6. CASE TestUsb2
  BY <1>6 DEF TestUsb2
<1>7. ASSUME NEW b \in Bus, StartExplore(b) PROVE BootOrder' /\ NoStrandedExplore'
  BY <1>7 DEF StartExplore, BusTypes
<1>8. ASSUME NEW b \in Bus, Discovered(b) PROVE BootOrder' /\ NoStrandedExplore'
  BY <1>8 DEF Discovered, AfterUsb2, AfterUsb3, BusTypes
<1>9. CASE \E b \in Bus : PlugIn(b) \/ Attach(b) \/ EndExplore(b)
  BY <1>1, <1>9 DEF PlugIn, Attach, EndExplore
<1>10. CASE Announced \/ ClientStep \/ UNCHANGED allVars
  BY <1>1, <1>10 DEF Announced, ClientStep, hotplugVars, allVars
<1> QED
  BY <1>2, <1>3, <1>4, <1>5, <1>6, <1>7, <1>8, <1>9, <1>10 DEF HotplugNext, SoftInterrupt, Stub

LEMMA BusInvariance == HotplugSpec => []BusInv
<1>1. BusInv /\ [HotplugNext]_allVars => BusInv'
  BY BusTypesStep, FlagStep DEF BusInv
<1> QED
  BY BusInit, <1>1, PTL DEF HotplugSpec

\* Everything keeps its type, from the ports to the table.
THEOREM TypeCorrect == HotplugSpec => []HotplugTypeOK
<1>1. TableInv /\ BusInv => HotplugTypeOK
  BY TableTyped DEF BusInv, BusTypes, HotplugTypeOK
<1> QED
  BY <1>1, TableInvariance, BusInvariance, PTL

\* A bus whose flag is up is still to be explored by the handler under way, or
\* xhci_stub has or gets a notification.
THEOREM NothingStranded == HotplugSpec => []NoStrandedExplore
<1>1. BusInv => NoStrandedExplore
  BY DEF BusInv
<1> QED
  BY <1>1, BusInvariance, PTL
=============================================================================
