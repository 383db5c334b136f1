---------------------------- MODULE SharedRing ----------------------------
(***************************************************************************)
(* The single-producer single-consumer ring of buffer descriptors that the *)
(* protection domains share (api/include/shared_ringbuffer).  The two      *)
(* sides run in different protection domains and preempt one another, so   *)
(* enqueue and dequeue are split at every access to shared memory: the     *)
(* load of the other side's index in ring_full / ring_empty, the three     *)
(* field accesses, and the increment of the side's own index.              *)
(*                                                                         *)
(* Accesses take effect in program order: the driver domains are built     *)
(* without optimisation and all domains share one core, so a preempted     *)
(* side's stores are seen in the order it issued them.                     *)
(*                                                                         *)
(* The indices are free-running uint32_t: they are reduced modulo SIZE     *)
(* only to select a slot, and themselves wrap at IdxMod (2^32).            *)
(***************************************************************************)
EXTENDS Integers, Sequences

CONSTANTS SIZE,         \* slots in a ring (512 in the code)
          IdxMod,       \* values of an index (2^32 in the code)
          Value,        \* what a producer may put in a descriptor
          None          \* a zeroed word, and "nothing returned"

\* The ring needs SIZE to divide the index range, or slots jump at the wrap.
ASSUME SharedRingAssumption ==
    /\ SIZE \in Nat /\ SIZE > 1
    /\ IdxMod \in Nat /\ IdxMod > 0 /\ IdxMod % SIZE = 0
    /\ None \notin Value
    /\ Value \cap (0 .. SIZE - 1) = {} /\ None \notin 0 .. SIZE - 1

VARIABLES write_idx, read_idx,  \* the shared indices
          buffers,              \* the shared slots
          ppc, item,            \* producer: place in enqueue, its argument
          enqRet,               \* result of its last enqueue
          cpc, driver,          \* consumer: place in dequeue / driver_dequeue
          reg,                  \* *addr, *len, *cookie as loaded so far
          deqRet                \* *addr, *len, *cookie of its last dequeue

prodVars == <<ppc, item, enqRet>>
consVars == <<cpc, driver, reg, deqRet>>
vars == <<write_idx, read_idx, buffers, prodVars, consVars>>

Slots == 0 .. SIZE - 1
Index == 0 .. IdxMod - 1

Desc(v) == [encoded_addr |-> v, len |-> v, cookie |-> v]

Slot(idx) == idx % SIZE

\* ring_size, ring_empty, ring_full: the subtraction is on uint32_t.
RingSize  == (write_idx - read_idx) % IdxMod
RingEmpty == RingSize % SIZE = 0
\* Faulty variant: every slot may be used.
RingFullAllSlots == RingSize = SIZE

RingFull  == ((write_idx - read_idx + 1) % IdxMod) % SIZE = 0

\* ring_init with buffer_init = 1, or zeroed memory and buffer_init = 0.
Init ==
    /\ write_idx = 0 /\ read_idx = 0
    /\ buffers = [s \in Slots |-> Desc(None)]
    /\ ppc = "idle" /\ item = None /\ enqRet = 0
    /\ cpc = "idle" /\ driver = FALSE /\ reg = Desc(None) /\ deqRet = Desc(None)

---------------------------------------------------------------------------
(* The producer: enqueue, enqueue_used, enqueue_free.                      *)

EnqueueFull ==
    /\ ppc = "idle" /\ RingFull
    /\ enqRet' = -1
    /\ UNCHANGED <<write_idx, read_idx, buffers, ppc, item, consVars>>

\* Faulty variant: enqueue does not test for a full ring.
EnqueueStartUnchecked(v) ==
    /\ ppc = "idle"
    /\ ppc' = "encoded_addr" /\ item' = v
    /\ UNCHANGED <<write_idx, read_idx, buffers, enqRet, consVars>>

EnqueueStart(v) ==
    /\ ppc = "idle" /\ ~RingFull
    /\ ppc' = "encoded_addr" /\ item' = v
    /\ UNCHANGED <<write_idx, read_idx, buffers, enqRet, consVars>>

\* ring->buffers[write_idx % SIZE].field = ..., one field at a time.
Store(field, next) ==
    /\ ppc = field
    /\ buffers' = [buffers EXCEPT ![Slot(write_idx)][field] = item]
    /\ ppc' = next
    /\ UNCHANGED <<write_idx, read_idx, item, enqRet, consVars>>

\* Faulty variant: the cookie of a reused slot is not overwritten.
EnqueueStoreNoCookie ==
    \/ Store("encoded_addr", "len")
    \/ Store("len", "advance")

EnqueueStore ==
    \/ Store("encoded_addr", "len")
    \/ Store("len", "cookie")
    \/ Store("cookie", "advance")

\* Faulty variant: an index wider than its range.
EnqueueAdvanceNoWrap ==
    /\ ppc = "advance"
    /\ write_idx' = write_idx + 1
    /\ enqRet' = 0
    /\ ppc' = "idle"
    /\ UNCHANGED <<read_idx, buffers, item, consVars>>

EnqueueAdvance ==
    /\ ppc = "advance"
    /\ write_idx' = (write_idx + 1) % IdxMod
    /\ enqRet' = 0
    /\ ppc' = "idle"
    /\ UNCHANGED <<read_idx, buffers, item, consVars>>

---------------------------------------------------------------------------
(* The consumer: dequeue, dequeue_used, dequeue_free, driver_dequeue.      *)

DequeueEmpty ==
    /\ cpc = "idle" /\ RingEmpty
    /\ deqRet' = Desc(None)
    /\ UNCHANGED <<write_idx, read_idx, buffers, cpc, driver, reg, prodVars>>

DequeueStart(isDriver) ==
    /\ cpc = "idle" /\ ~RingEmpty
    /\ cpc' = "encoded_addr" /\ driver' = isDriver
    /\ UNCHANGED <<write_idx, read_idx, buffers, reg, deqRet, prodVars>>

Load(field, next) ==
    /\ cpc = field
    /\ reg' = [reg EXCEPT ![field] = buffers[Slot(read_idx)][field]]
    /\ cpc' = next
    /\ UNCHANGED <<write_idx, read_idx, buffers, driver, deqRet, prodVars>>

\* driver_dequeue returns the address of the slot instead of its cookie.
LoadCookie ==
    /\ cpc = "cookie"
    /\ reg' = [reg EXCEPT !.cookie = IF driver THEN Slot(read_idx)
                                     ELSE buffers[Slot(read_idx)].cookie]
    /\ cpc' = "advance"
    /\ UNCHANGED <<write_idx, read_idx, buffers, driver, deqRet, prodVars>>

DequeueLoad ==
    \/ Load("encoded_addr", "len")
    \/ Load("len", "cookie")
    \/ LoadCookie

DequeueAdvance ==
    /\ cpc = "advance"
    /\ read_idx' = (read_idx + 1) % IdxMod
    /\ deqRet' = reg
    /\ cpc' = "idle"
    /\ UNCHANGED <<write_idx, buffers, driver, reg, prodVars>>

---------------------------------------------------------------------------
Producer ==
    \/ EnqueueFull
    \/ \E v \in Value : EnqueueStart(v)
    \/ EnqueueStore
    \/ EnqueueAdvance

Consumer ==
    \/ DequeueEmpty
    \/ \E d \in BOOLEAN : DequeueStart(d)
    \/ DequeueLoad
    \/ DequeueAdvance

Next == Producer \/ Consumer

Spec == Init /\ [][Next]_vars

---------------------------------------------------------------------------
(* Properties.                                                             *)

Word == Value \cup {None}
Busy == {"encoded_addr", "len", "cookie", "advance"}
Descriptor == [encoded_addr : Word, len : Word, cookie : Word]
Returned == [encoded_addr : Word, len : Word, cookie : Word \cup Slots]

\* The type invariant: shared words hold words, indices stay in their range.
TypeOK ==
    /\ write_idx \in Index /\ read_idx \in Index
    /\ buffers \in [Slots -> Descriptor]
    /\ ppc \in Busy \cup {"idle"} /\ item \in Word /\ enqRet \in {0, -1}
    /\ cpc \in Busy \cup {"idle"} /\ driver \in BOOLEAN
    /\ reg \in Returned /\ deqRet \in Returned

\* While enqueue stores into a slot and dequeue is at work, they are at work
\* on different slots: no descriptor is read while it is being written.
NoSlotRace ==
    (ppc # "idle" /\ cpc # "idle") => Slot(write_idx) # Slot(read_idx)

\* The ring never holds more than SIZE - 1 descriptors, an enqueue under way
\* still has room when it commits, and a dequeue under way still has a
\* descriptor to take, whatever the other side did since the check.
CheckStillHolds ==
    /\ RingSize <= SIZE - 1
    /\ ppc # "idle" => RingSize < SIZE - 1
    /\ cpc # "idle" => RingSize > 0

\* The address driver_dequeue returns as a cookie stays usable until the
\* consumer's next dequeue returns: the producer does not reuse the slot.
CookieStable ==
    deqRet.cookie \in Slots =>
        /\ buffers[deqRet.cookie].encoded_addr = deqRet.encoded_addr
        /\ buffers[deqRet.cookie].len = deqRet.len

\* The descriptors between the indices, oldest first.
Contents ==
    [i \in 1 .. RingSize |-> buffers[Slot((read_idx + i - 1) % IdxMod)]]

\* The returned descriptor, following the address driver_dequeue returned.
Deref(d) ==
    IF d.cookie \in Slots THEN [d EXCEPT !.cookie = buffers[d.cookie].cookie] ELSE d

Fifo == INSTANCE RingFifo WITH
            Capacity <- SIZE - 1, queue <- Contents, deqRet <- Deref(deqRet)

\* The two sides together are a FIFO of whole descriptors of capacity
\* SIZE - 1: nothing is lost, duplicated, reordered or torn, enqueue fails
\* only when the ring is full and dequeue only when it is empty.
ImplementsFifo == Fifo!Spec
===========================================================================
