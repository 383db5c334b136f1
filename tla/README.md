# The seL4 xHCI driver in TLA+

TLA+ models of the USB host driver in this repository: protection domains on
seL4/Microkit that wrap NetBSD's xHCI stack and offer keyboards, mice,
touchscreens and mass storage to client domains. The models follow the C code
under `api/` and `examples/`; TLC checks them on small instances and TLAPS
proves the central invariants for all values of the constants.

Run everything from this directory:

    tlc -config SharedRing.cfg SharedRing            # one run
    tlapm SharedRingProofs.tla                       # one proof module

`PROJECT.json` lists the components, the runs, the definition-to-source map,
one mutant per checked property, the hazards and the theorems.

## 1. The system

Six kinds of protection domain share memory regions and notify each other over
Microkit channels. A notification is one bit per channel: it coalesces with one
the receiver has not taken, and a receiver that wakes takes all its bits and
handles them in ascending channel order. Protected procedure calls run in the
callee at its priority while the caller waits.

| domain (priority) | source | state | operations |
|---|---|---|---|
| `hardware_interrupt` (253) | `api/src/hardware_interrupts.c` | `glob_xhci_sc` | `notified` 6: read and clear USBSTS/IMAN, notify 7, acknowledge; `protected` 0, 1: take the softc |
| `mem_handler` (252) | `api/src/mem_handler.c` | the heap of malloc | `protected`: malloc, calloc, free for the other domains |
| `software_interrupt` (250) | `api/src/software_interrupts.c` | `glob_xhci_sc`, three input ring handles, the blk queue | `notified` 7: `xhci_softintr`; `protected`: softc, callback addresses |
| `xhci_stub` (249) | `api/src/xhci_stub.c` | two USB buses, the blk queue | `init`: power up, share the softc, attach, explore; `notified`: HOTPLUG, UMASS_FLUSH, UMASS_COMPLETE |
| clients (101, 100, ...) | `api/xhci_api.c`, `examples/` | device table, transfer ids, rings, application state | `enqueue_umass_request`, `handle_new_device`, input handlers, the shell, the snake game, FatFs |

Shared by all: `shared_ringbuffer` (descriptors passed over shared memory),
`timer.c` (system counter, `ms_delay`), `dma.c` (a pool handed out from the
bottom up).

### Components, hard behaviours and what makes them correct

* **Shared ring buffer** (`api/include/shared_ringbuffer/`). State: two
  free-running 32-bit indices and `SIZE` descriptors per ring. One domain
  enqueues, another dequeues, with no lock: `enqueue` tests for room, stores three words into a
  slot and then moves `write_idx`; `dequeue` tests for emptiness, loads three
  words and moves `read_idx`. Hard: every interleaving of those accesses,
  full and empty at the wrap of the indices, a cookie that is the address of a
  slot already given back. Correct: a FIFO of whole descriptors with capacity
  `SIZE - 1`.
* **Mass-storage request path** (`xhci_api.c`, `xhci_stub.c`). State: the blk
  queues, `in_progress`, transaction ids, the transfer on the bus. Calls:
  client enqueues and notifies stub; stub dequeues and starts the transfer;
  software_interrupt queues a response and notifies stub; stub clears
  `in_progress`; the polling client takes the response. Hard: three domains,
  coalescing notifications, nobody looks at a queue's return value, failure.
  Correct: a synchronous operation on the named block of the named device,
  executed once, which returns.
* **Interrupt pipeline** (`hardware_interrupts.c`, `software_interrupts.c`).
  State: the controller's USBSTS and IMAN bits, the kernel's mask,
  notification bits, the softc pointers. Hard: events posted between any two
  accesses of the handler, coalescing with a drain under way, a line shared
  with other devices, an interrupt before the softc is there. Correct: no
  event is stranded, the line is never left masked or asserted for ever.
* **Input events** (`empty-client.c`, `shell.c`). State: a used ring per kind
  of device. Hard: coalesced notifications, a full ring, a handler that leaves
  its loop early, or does not go to the ring at all (the touchscreen in
  empty-client, a disabled keyboard). Correct: a client that goes to the ring
  sees every report that fitted; what is left behind is left for a known reason.
* **Timer** (`timer.c`). A 64-bit counter read word by word while it runs.
  Correct: a count that does not go back, delays that are not short and end.
* **xhci_stub initialisation and hotplug**. `init` must share the softc with
  both interrupt domains before the controller runs, and explores both buses
  at its end; `needsexplore` is raised by the interrupt domain, which preempts
  the stub anywhere between its tests of the two buses and its discoveries.
  Correct: no raised flag is forgotten, every device plugged in is found.
* **Device table** (`xhci_api.c`). `usb_devices[]`, `num_devices`; filled from
  a ring. Hard: ids beyond the table, entries read before they are announced,
  announcements that coalesce. Correct: the table is what was announced.
* **DMA pool** (`dma.c`). Two domains run an allocator each over one pool;
  exhaustion returns 0, which is also success.
* **Memory handler** (`mem_handler.c`). malloc, calloc, free by protected call.
* **Shell console** (`shell.c`) and **snake** (`games/snake.c`). Console states
  (CONSOLE, DISABLED, three tests, SNAKE), line editing, history; a game in a
  domain of its own that is started by a notification and ends with one. Hard:
  a line buffer, two indices and a history that keys, the mouse wheel and
  commands all set, with C strings copied without their NUL, NULs written into
  the line by `split()`, and arrays whose limits are hardly checked. Correct, as
  long as no array is left and no null pointer followed: what is on the screen is
  what runs, the history is scrolled inside its bounds, the keyboard belongs to
  the prompt or to the game.
* **FatFs and its disk glue** (`api/fatfs/source/ff.c`, `diskio.c`), behind the
  shell's `fatwrite` and `fatread`. State: a window on one sector of the FAT or
  the directory, the count of free clusters and the last one allocated, the open
  file; on the disk the FAT, the directory, FSInfo and the clusters. Calls:
  `f_mount`, `f_open`, `f_write` or `f_gets`, `f_close`, each a series of sector
  transfers over `enqueue_umass_request`. Hard: the device pulled or the power
  lost between any two transfers, a volume that fills up, a chain freed while
  the window moves between the FAT and the directory. Correct: no cluster is
  ever in two files, a file is replaced as a whole, a closed file is durable.
* **FatFs test client** (`examples/FatFs`). A fiber per request to a file
  system server that is not in the repository.
* **Block driver VMM** (`examples/FatFs/blk`). A table of UIO interrupts
  around libvmm.

Not in the repository, and modelled only from how this code uses them: NetBSD's
USB stack (`read_block`, `xhci_softintr`, the pipe callbacks), sDDF's blk
queues, the xHC itself, Microkit and seL4. What is left out, and why, is in
section 5.

## 2. Modules

| module | what it is |
|---|---|
| `RingFifo` | abstract: a bounded FIFO of descriptors |
| `SharedRing` | the ring at the granularity of shared loads and stores; implements `RingFifo` |
| `SharedRingProofs` | type correctness, checks that still hold, race freedom; `SharedRing` implements `RingFifo`, for all sizes |
| `SyncDisk` | abstract: a synchronous disk |
| `UmassRequest`, `MCUmassRequest` | client, stub and interrupt domain on one request after another; implements `SyncDisk` |
| `UmassRequestProofs` | the phases of a call; `UmassRequest` implements `SyncDisk` with one device |
| `XhciInterrupt` | controller, kernel line, both interrupt domains, softc handover |
| `InputEvents` | composes an instance of `RingFifo` with the notification and the client's handler, its drain loop or the lack of one |
| `EventPathProofs` | the way of an event: the safety properties of `XhciInterrupt` for any number of events, and of `InputEvents` for rings of any size |
| `DeviceTable` | composes an instance of `RingFifo` with the client's table of devices and what reads it |
| `Hotplug` | composes `DeviceTable` with the stub's discovery of two buses, at boot and on HOTPLUG |
| `HotplugProofs` | the table is what was announced, no bus is left unexplored, for any number of devices |
| `FileStore` | abstract: files that are replaced as a whole |
| `FatVolume`, `MCFatVolume` | `fatwrite` and `fatread` on a FAT32 volume, sector by sector, with power loss; implements `FileStore` |
| `FatVolumeProofs` | the FAT and the directory on the disk are sound at every moment, a write cut short means a full volume, a closed file is durable; `FatVolume` implements `FileStore`, for any volume |
| `Timer` | the counter, `get_ticks` and `ms_delay` |
| `TimerProofs` | a delay is never short, for words of any width |
| `LineEditor` | abstract: a line of text with a cursor |
| `ShellConsole` | console states, line buffer, `split()`, history, the limits of the arrays and the game's hand-over; implements `LineEditor` |
| `ShellConsoleProofs` | the history, the hand-over of the keyboard and the refinement of `LineEditor`, until a fault, for arrays of any size |
| `Snake` | the game behind that hand-over, step by step |
| `SnakeProofs` | the snake is whole and the bonus timer consistent, the neck is safe, for any screen but the narrowest |

### How they correspond to the code

**SharedRing.** `write_idx`, `read_idx` and `buffers` are the fields of
`ring_buffer_t`; indices live in `0 .. IdxMod - 1`, where `IdxMod` stands for
2^32 and is a multiple of `SIZE` as 512 divides 2^32. `ppc`/`cpc` are the
places of producer and consumer inside `enqueue` and `dequeue`; each action
does one access to shared memory. The test of the other side's index and the
first step after it are one action: the index read may be stale by the time it
is used, which the interleaving of all later accesses covers. `driver` records
that the consumer is `driver_dequeue`, whose cookie is the address of the slot
(here its number). `Slot(i) = i % SIZE`. The refinement maps `queue` to the
descriptors between the indices and follows the address `driver_dequeue`
returned.

Accesses are modelled in program order. The fences in `fence.h` do not order
`write_idx` after the descriptor (the release fence follows the store), so
this rests on two facts: all domains run on one core, and the producers built
by `api/Makefile` are compiled without `-O`. The example clients are built
with `-O3`; the one client that produces for another domain is the shell, of
higher priority than its consumer.

**UmassRequest.** `req_queue`, `resp_queue` and `in_progress` are the shared
blk queue; `pending` and `batch` the stub's notification bits set and taken;
`cpc`, `spc`, `ipc` the places in `enqueue_umass_request`,
`create_umass_xfer` and the completion callback. Completion is external:
data moves (or not), a response is queued, UMASS_COMPLETE is notified.
`create_umass_xfer` passes device 0, so the refinement of `SyncDisk` is checked
for that device and a second run shows what happens otherwise. The branch for
FLUSH is left out: nothing in the repository enqueues one. `locked` is never
set, so the "device busy" branch is unreachable.

**XhciInterrupt.** `usbsts` and `intr_pend` are what the controller shows;
`snapshot` the value `xhci_intr1` read and writes back; `masked` the kernel's
state between delivery and acknowledgement; `hpc` the place in `notified` of
hardware_interrupt, `ipc` that of software_interrupt, `bpc` that of `init` in
xhci_stub. The controller is deliberately loose: any event may raise the
pending bit at any moment, with any other status bit. `sc_dying` is set by
nothing here.

**InputEvents.** The pipe callbacks enqueue and notify in two steps, the client
wakes and takes one report per turn of its loop. `client` and `device` never
change: they say whose handler runs and which of the three rings is followed.
`Listens` is whether the handler goes to the ring: empty-client to those of keyboard
and mouse, the shell to the mouse's always, to the keyboard's unless `console_state`
is DISABLED and to the touchscreen's in UTS_TEST only. Otherwise the
notification is taken and the ring left as it is (`ClientPasses`). The shell's
`handle_keypress` leaves its loop on "too many keys" and "all keys released",
which are the reports of `StopsOn`. A key may change `console_state` (`Keyed`: what
key it is, is left to `ShellConsole`): inside the loop when the ring is the
keyboard's, and by another notification otherwise, as does the end of the game
(`ConsoleTurns`). `left` is auxiliary: how many of the reports in the ring were there when
the client last turned away from it, on a stop or without draining. Only these
may lie there with nothing under way.

**DeviceTable.** `usb_devices` and `num_devices` are the client's variables;
`new_ring` the ring of announcements, which the driver numbers from 0 on.
`HandleDevice` is one turn of `handle_new_device`'s loop and `PrintDevice` one of
`print_devs`'s, so that the driver announces more in between. `num_devices` is
the highest id, not a number, and `print_devs` goes up to and including it. A
pointer that is followed is `None` or a device; following `None` ends in
`Fault`. `GetBlksize` is `get_blksize` as far as it follows that pointer: the size
it returns is a field that nothing changes. Commands of the shell come only once
a device is in the table: they are typed on one. `Capacity` is the room of the
ring, which holds at least as many announcements as the table has entries.

**Hotplug.** `explore` is `ub_needsexplore` of the two buses; `upc` is where
xhci_stub is, in `init` from the attached controller on or in its handler of
HOTPLUG, and `boot` tells the two apart. `init` raises both flags
(`AssertExplore`) and discovers USB2, then USB3; HOTPLUG tests both flags once,
discovers USB3, then tests USB2 again and discovers it (`AfterUsb2`,
`AfterUsb3`). `usb_discover` and the routine that raises a flag are NetBSD's: as long
as the flag is up it is taken down and the bus explored, and the flag is raised
before HOTPLUG is notified. `due` is what was plugged in when the flag was taken
down; a device that comes later may be found in the same pass (`Attach`) or in
the next. The stub keeps a copy of the softc's USB2 bus and the model takes the
flag tested to be the one raised. The client's part and the announcements are
those of `DeviceTable`.

**FatVolume.** One action is one sector transfer with the computation around it,
so that `Pull` can come between any two. `fat_d`, `dir_d`, `fsinfo` and `data` are
on the disk. FatFs keeps one sector of the FAT or of the directory in a window
(`winsect`, dirty if `wflag`); `fat` and `dir` are what it reads through it, and
`move_window` writes a dirty window back before another sector comes in.
`free_clst`, `last_clst` and `fsi_flag` are fields of `FATFS`, `sclust`, `clust`,
`objsize` and `dirty` of `FIL`; `cl` and `clst` are locals of the function that runs.
The loops of `remove_chain` and `f_write` are an action per turn; the search of
`create_chain` is one, because nothing it reads can change under it: it takes the
first free cluster in its order (`NextFree`), and whether it left the window's
sector on the way decides whether the window is written. `put_fat` and `get_fat`
go through the window. `f_sync` writes the buffered sector, the entry, the window
and FSInfo, in that order. A FAT entry is free, a cluster or the end of a chain;
0xFFFFFFFF, as a count or a hint, is `Unknown`.

The abstractions: a cluster is one sector, the root directory fits in one sector
outside the clusters modelled, there is one FAT (`FSInfo` is in use), names are
model values. Each command calls `f_mount` with 0, which only forgets the
volume, and `f_open` reads it again: one step. A `fatwrite` whose arguments are
missing, or whose `f_open` finds no volume or no room for an entry, goes on with a
pointer or a file object nobody set; the commands modelled are well formed.
`FF_VOLUMES` is 1 although the path names volume 2, which puts FatFs's pointer
to the volume behind its table: it is taken to be kept there. `disk_ioctl` returns a
variable it has not set, so `f_close` may report an error after all has been
written; the shell looks at neither. When the device is gone `diskio.c` reports success and
nothing changes any more: that is `Pull`, after which the next command begins with
`f_mount`. A device that is plugged in again is the same volume.

**ShellConsole.** `cmd`, `cursor_index`, `cmd_len`, `history`, `cmd_hist` and
`cmd_hist_cursor` are the shell's variables, `console_state` its state. `cmd` keeps
what is behind the line, because `scroll_hist` and `decode_command` copy
strings without their NUL (`Copy`), and memory from `malloc` or the stack holds
anything (the `garbage` of `EnterStored`). On Return `split()` goes over the line
character by character (`Scan`), and those that end a word become NUL (`Cuts`,
`Decoded`); all commands but one then clear the line or set its length to 0, and
`kbdtest` leaves it as it was cut, in a state in which no key reaches it. Which command
a line is, is abstracted: any line with a word in it may be any command, so
every order of commands and lines is explored. `mousetests` records the entries that
`mousetest` counts without storing. The refinement of `LineEditor` cuts the line
at the cursor; `executed` is the line `decode_command` took up. The mouse wheel
scrolls the history in every state but MOUSE_TEST, so the line may change under
the game; only keys are kept away.

The code hardly checks its arrays, and the model has none the code lacks (`MaxEntries` bounds what `mousetest` counts). A
step that leaves an array or follows a null pointer is in the model and sets
`fault`; what the shell does from there on is undefined and it takes no more steps.
Such steps are: moving up the rest of a line that is full, because the limit is
compared with the cursor (`TypeBeyond`); the NUL behind a line of 1024 characters
and the copy of more than 100 into `hist` (`EnterTooLong`); a line without a word,
whose first word is a null pointer to `strcmp`, and `getdev` and `fatwrite` without
their arguments (`EnterTooFew`); a history that is full, and a stored copy that, with what
the stack held behind it, is longer than the memory for it (`EnterBeyond`); and
recalling an entry that `mousetest` took up, one behind the array, one that is
longer than the line, or one that leaves the buffer without a NUL (`RecallFails`). Left out:
reading beyond an array only to print (`clear_prompt`'s `strlen` of a full buffer,
`history` after `mousetest`), null pointers given to `printf` or to FatFs, which checks
them, and key codes other than these.

**Snake.** The variables are the game's globals, `pc` the place in `main_snake`.
One turn of its loop is one action, `TurnOfLoop`: `snake_input`, then
`snake_update`. The only thing shared with the shell is the character in
`kbd_buffer`, and as the shell may store one at any moment each `getch` may
return any; `rand` is any number in its range. `Ahead` is the head before the wrap,
which is what the test for a collision sees, and `Wrap` the head after it.
`SearchFood` and `SearchBonus` are the draws of a cell that never succeed because
none is free, `Halt` the key for which `getch` does not return: three ways to
hang that the code has. `Start` leaves `quit` as the last game left it.

**Timer.** `Readl` is the 32-bit register read, and offset 0 is CNTCR: that is
where `get_ticks` takes its high word. The counter ticks between any two reads.

## 3. Runs

| run | question | bounds |
|---|---|---|
| `ring` | is the ring a FIFO of whole descriptors, race free, across the wrap? | 4 slots, indices wrap at 8: the ring fills, empties and wraps twice per index cycle; two values suffice as the code never inspects them |
| `umass` | is a request a synchronous disk operation that returns? | two blocks, two contents, 3 requests, one umass device: enough for a leftover of one call to meet the next two |
| `umass_wrong_device` | does a request reach the device it names? (no) | two umass devices |
| `umass_failure` | is a failed transfer reported? (no) | 2 requests |
| `interrupt` | is any event stranded, any line left masked or asserted? | 4 events, ring of 3: an event may arrive in each of the handler's windows and the ring fills |
| `input` | does a draining client see every report, and what does leaving the loop early cost? | ring of 3, 6 reports: it overflows; both clients, each of the three devices, every state of the console |
| `devices` | does every device plugged into either bus reach the client's table, at its id, and its list? | 3 devices on 2 buses: plugged in before the boot, between the tests of HOTPLUG and during a discovery; several per notification; both clients |
| `fat` | are files replaced as a whole and durable, clusters never shared, wherever the power fails? | 3 clusters over 2 sectors of the FAT, 2 files, texts of 1 or 2 sectors (a command line holds at most 1024 bytes): the volume fills up, a chain crosses the FAT's sectors, the search wraps |
| `shell` | is the prompt a line of text that runs whole, the history in bounds, the keyboard owned by one, until an array is left? | a buffer of 4, copies of 3 and a character that follows, a letter and the blank, a history of 2: a line is full, holds two words, shrinks below the one before it; the history has a first, a last and a place behind; every fault happens but two recalls: behind the array of the history, which the proofs cover, and of an entry longer than the line, which no stored copy is. The quote is in the definitions and the proofs, and is not typed in the run |
| `snake` | does the snake stay in one piece and on the screen, food in its reach, and does a lost game end? | a screen of 3 by 3, up to 8 parts: it crosses every border and fills the screen; any number of games |
| `timer` | is `ms_delay` ever short? | 4-value words, 14 ticks: the low word wraps three times |
| `timer_monotone` | does the count go back? (yes) | as above |

The three violation runs each check one sentence of a doc, a comment or a header
against the code (`findings` in `PROJECT.json`): a request for the second
mass-storage device goes to the first; a failed transfer reports success; the
tick count goes back every 2^32 ticks because the high word is read from the
control register. More divergences showed up while modelling and have no run of
their own: a snake that crosses the border onto its body is not noticed
because the test comes before the wrap; `enqueue_umass_request` returns 1 where
`xhci_api.h:104` says the transaction id; `get_blksize` follows a null pointer
for an id without a device where `xhci_api.h:123` says -1; and nothing enables a
disabled keyboard again where `shell.h:17` says the mouse wheel does.

One bound of `fat` is in the property: `ShortWriteMeansFull` excepts a volume on
which a command was cut off before, because FSInfo on the disk may then count
fewer free clusters than the FAT has, and FatFs believes it.

**Deadlock** is not checked where the system may rest: a client that asks for
nothing, a device that reports nothing, a counter that hits its bound, a
client that followed a null pointer or left an array, or a game that hangs.

**Fairness.** The kernel always runs the highest-priority runnable domain, and
the handlers of the interrupt domains and the stub return; so a runnable domain
eventually runs, which is weak fairness of each domain's steps. In
`UmassRequest` the device is assumed to answer: no callout times a transfer out
(the README says they are not set), and without that assumption the client
polls for ever. No client is obliged to ask, no device to report and no
controller to post; nobody has to type, so `ShellConsole` has no fairness and no
liveness property. `Hotplug` is fair to the software interrupt, the stub and the
client's handler, each of which comes to run when those above it rest, as only
so many devices are plugged in. `FatVolume` is fair to a command under way: it is a loop
in the shell that waits for nothing but the transfers, which return. In `Snake` a game that has begun is assumed to run, as the
domains above it come to wait. In `XhciInterrupt` fairness of interrupt delivery
is the kernel's.

## 4. Proofs

Every theorem holds for all values of the constants that satisfy the named
assumption of its module.

**The ring** (`SharedRingAssumption`: `IdxMod` is a multiple of `SIZE`).
`SharedRingProofs` proves `TypeCorrect`, `CheckCorrect` (`CheckStillHolds`) and
`RaceFree` (`NoSlotRace`). `CheckStillHolds` with `TypeOK` is inductive: a
producer moves only if it saw room, and the consumer's moves only make more.
The arithmetic is about `RingSize == (write_idx - read_idx) % IdxMod`: advancing
an index changes it by exactly one as long as it stays inside its range, also
at the wrap (`AdvanceWrite`, `AdvanceRead`). Race freedom follows: two indices
less than `SIZE` apart modulo a multiple of `SIZE` have different slots
(`SlotApart`). The facts on `%` that this needs come first in the module.

Its second part goes on to `CookieKept` (`CookieStable`) and `RingIsFifo`
(`ImplementsFifo`). Its invariant says what is in the producer's slot so far,
what of the consumer's slot is loaded, and that the slot behind the address
`driver_dequeue` returned is still what it was. With these, storing a word is a
stutter of the FIFO, advancing `write_idx` appends the descriptor, and advancing
`read_idx` takes the head off (`StoreHidden`, `AdvanceEnqueues`,
`AdvanceDequeues`).

**The request path.** `UmassRequestProofs` proves the type invariant,
`FlushFindsRequest`, `ResponseMatches`, `Quiescent` (between two calls nothing is left
in the queues, which no run needs to check) and, under the assumption
`Umass = {0}` that the code's device number 0 is the one there is, the refinement
of `SyncDisk`. None of these is inductive, and no list of implications between
queues, bits and program counters is short: the invariant is that a call is
always in exactly one of eleven phases (`Phase`), in each of which the request
or its answer is in one place and at most one notification is under way. Each
step leads from one phase to the next.

**The interrupt pipeline.** `EventPathProofs` proves the five safety
properties of the run. They are inductive together with the order in which
`init` shares the softc (`BootOrder`) and the fact that an interrupt is either
waiting or being handled (`OneDelivery`).

**Input events.** In the same module, `InputTypeCorrect` and `ReportsNotStranded`:
a report enters the ring only with a notification to come, and the client turns away from
reports in two places only, where `left` takes their number: after a report it stops
on, and in `ClientPasses`. The second conjunct of `NoStrandedReport`, on who has done so,
is inductive because a console that is disabled stays so, and because the last report
taken stays in `buffer` until the next. `ReportsNotStranded` is for all three rings and both
clients, for any set of reports the shell stops on.

**The timer.** `TimerProofs` proves `NeverEarly` for every width of the words,
every content of the control register and every delay, although the count wraps:
the invariant remembers for each value held the moment its low word was
sampled, and between two samples the low word grows by no more than time
(`ModGrowth`).

**The device table and hotplug.** `HotplugProofs` proves `HotplugTypeOK`,
`TableMatchesAnnounced` and `NoStrandedExplore` for any number of devices and any
ring that holds them. The first two are inductive once it is known that the ring
holds the tail of the announcements and that these are numbered from 0 on
(`Announcements`): the device at the head of the ring then has the number of those
entered before. `DeviceTable`'s steps are proved first, by themselves, and each
step of the composition is one of them or leaves the table alone (`TableStep`,
`OtherStep`). `NoStrandedExplore` needs that nothing waits or tests before `init` is
through (`BootOrder`).

**The FAT volume.** `FatVolumeProofs` proves `TypeOK`, `DiskSound` and
`ShortWriteMeansFull` for every number of clusters, size of FAT sector, set of
files and texts. `DiskSound` is about the disk, and FatFs never looks at the disk alone; the invariant says that
both the disk and the view through the window are sound, and that they differ in
the sector of a dirty window at most (`WindowOnly`). Then a write of the window
makes the disk what FatFs saw (`Flushed`), and what is left is that each change of
one entry leads from a sound view to a sound view: freeing the head of a
chain nothing leads to, taking a free cluster, linking the end of the chain that
grows to the cluster just taken, emptying or setting a directory entry
(`FreeSound`, `TakeSound`, `LinkSound`, `EmptySound`, `EntrySound`). `Removing`,
`Building` and `Linking` say that the chains under way are ones nothing leads to.

`ShortWriteMeansFull` rests on a second invariant (`CountRight`): as long as no
command was cut off, `free_clst` is unknown or the number of free clusters (one
more between taking a cluster and linking it), FSInfo has that number between two
commands, and within one it has the count of the mount until `fsi_flag` goes up.
That the search misses no free cluster is the existence of a first one in its
order (`SomeFirst`).

The third part proves that `FatVolume` implements `FileStore` (`FilesKept`) and that a
closed file is durable (`ClosedAlwaysDurable`). `Chain` is a recursive function, and a fact
about it is proved by taking the first place of the chain where it would fail (`Least`): that
there is such a function at all (`ChainExists`), and that two FATs with the same entries on a
chain have the same chain (`ChainKept`). The rest follows no chain. Every file has as
many clusters as its entry says (`Laid`), in the view and on the disk; a
cluster of which FatFs changes the FAT entry or the contents is in no file (`InFile`), be it
one being freed, a free one or the last of the chain being built; so what the disk
lacks of the FAT changes no file (`SameChains`). The files on the disk can change only when a
directory entry gets there, and that is the entry of the file written, first emptied and
then with the whole chain behind it (`EntryAhead`, `Emptied`, `Built`, `Stored`). `ReadSoFar` says the
same of `fatread`: what it has printed is the beginning of the file. From this the error
branch of `f_read` for a chain that ends early is never taken. The assumption has `None`
apart from entries and commands.

**The shell.** `ShellConsoleProofs` proves `TypeOK`, `HistoryMatches`,
`GameOwnsKeyboard`, `RecallShowsEntry` and the refinement of `LineEditor`, for any
set of characters, sizes of the arrays and bounds. The assumption has `None` outside the
strings and NUL outside the characters: a null pointer is not the address of a
string. They hold until a fault, which the properties say where it matters; after
one the line is as the last step left it. The types alone are not inductive. That no NUL
is in a line that can be edited or run rests on three things: `kbdtest`, which
leaves one with NULs in it, leaves CONSOLE with it; nothing brings CONSOLE back from
there, for the game's notification comes only in SNAKE (`GameOwnsKeyboard`); and a recalled
line ends at the first NUL of the buffer, which is not before the end of the
entry (`CopyFacts`). `EntriesOK` says that what is stored has no NUL in it and that the
entries behind the newest are null pointers. `OneGame` says that the game is asked
for, played or over but not two of these, which makes `GameOwnsKeyboard` inductive.
A step on the buffer is described slot by slot; in the refinement the
line before the cursor and the line behind it are compared with the abstract ones
character by character (`SeqEqual`).

**The snake.** `SnakeProofs` proves `TypeOK`, `BoardSound` and `NeckSafe` for screens and
snakes of any size. `BoardSound` holds in the middle of a game only because the head is the
first part and next to the place of the step before, over the border too (`StepBack`),
and the items are put out against more cells than the new body has (`BodyAfter`);
`BodyThere` and `FirstGame` say when there is a body at all. `NeckSafe` needs that the direction
is the one of the last step (`NeckInv`). It is proved for screens that are not two
cells wide or high, and only there it is true: on a screen of two, one step on is one step
back, over the border. The game has 30 by 20 (`snake.c:85`).

### What is only model-checked

* Liveness under fairness (`RequestReturns`, `EventsConsumed`, `ReportsConsumed`,
  `EveryPluggedListed`, `QuitEnds`, `CommandReturns`): out of TLAPS's reach here.

## 5. Not modelled

* **DMA pool** (`dma.c`): a counter that only grows and a constant offset. No step
  depends on another actor; whether the two domains' pools are both used is
  decided by NetBSD code outside the repository.
* **Memory handler** (`mem_handler.c`): each call is one call of the C library
  and runs alone in its domain.
* **FatFs test client** and **block driver VMM** (`examples/FatFs`): their other
  halves, the file system server and libvmm, are not in the repository.
* **The rest of `ff.c`**: `fatls` and directories beyond the root's sector, long names,
  FAT12, FAT16 and exFAT, formatting, seeking, the string functions, which no
  command calls or which only format what is printed.
* **`ffunicode.c`, `ioconf*.c`, `wsksymdef.h`**: generated or third-party tables
  without behaviour, more than half of the lines of the repository's code.
* **Powering up, device tree, channel maps of interrupts**: sequences of register
  writes and of table entries that run once, before anything else does.
* **Weak memory.** `SharedRing` is in program order, for the reasons given there.
  A variant with delayed stores would show what the missing release order costs
  with optimisation or a second core.
