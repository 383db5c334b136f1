------------------------- MODULE SharedRingProofs -------------------------
(***************************************************************************)
(* That SharedRing is a safe single-producer single-consumer ring for      *)
(* every number of slots that divides the range of the indices.            *)
(*                                                                         *)
(* Each side checks the ring once and then works for several steps while   *)
(* the other side moves, so the invariant says that what a side checked    *)
(* stays true until it advances its index (CheckStillHolds).  Everything   *)
(* else follows from how far apart the two indices are: RingSize.          *)
(*                                                                         *)
(* The second half shows that SharedRing implements RingFifo.  There the   *)
(* invariant also says what each side has written or loaded so far in the  *)
(* slot it is at (Written, Loaded), and that the slot whose address        *)
(* driver_dequeue returned last is the one just before read_idx, with its  *)
(* contents unchanged (Kept).                                              *)
(***************************************************************************)
EXTENDS SharedRing, SequenceTheorems, TLAPS

---------------------------------------------------------------------------
(* Facts about % that the provers do not find by themselves: what wrapping *)
(* a number does to it, and how the wrap of a free-running index and the   *)
(* selection of a slot interact when the number of slots divides the range *)
(* of the index.                                                           *)

\* Quotient and remainder of a division are unique.
LEMMA QuotientUnique ==
    ASSUME NEW m \in Nat, m > 0, NEW q \in Int, NEW r \in Int, NEW d \in Int,
           NEW s \in Int, 0 <= r, r < m, 0 <= s, s < m,
           m * q + r = m * d + s
    PROVE  r = s
<1>1. CASE q = d
  BY <1>1
<1>2. CASE q >= d + 1
  <2>1. m * (q - d) >= m
    BY <1>2
  <2>2. m * (q - d) = s - r
    OBVIOUS
  <2> QED
    BY <2>1, <2>2
<1>3. CASE d >= q + 1
  <2>1. m * (d - q) >= m
    BY <1>3
  <2>2. m * (d - q) = r - s
    OBVIOUS
  <2> QED
    BY <2>1, <2>2
<1> QED
  BY <1>1, <1>2, <1>3

\* The remainder of a number given as quotient and remainder.
LEMMA ModOf ==
    ASSUME NEW m \in Nat, m > 0, NEW q \in Int, NEW r \in 0 .. m - 1
    PROVE  (m * q + r) % m = r
<1> DEFINE a == m * q + r
<1>1. a \in Int
  OBVIOUS
<1> HIDE DEF a
<1>2. a % m \in 0 .. m - 1
  BY <1>1
<1>3. a \div m \in Int
  BY <1>1
<1>4. a = m * (a \div m) + (a % m)
  BY <1>1
<1>5. m * q + r = m * (a \div m) + (a % m)
  BY <1>4 DEF a
<1>6. r = a % m
  <2> DEFINE d == a \div m
             t == a % m
  <2>1. d \in Int /\ t \in Int /\ 0 <= t /\ t < m /\ m * q + r = m * d + t
    BY <1>2, <1>3, <1>5
  <2>2. 0 <= r /\ r < m /\ r \in Int
    OBVIOUS
  <2> HIDE DEF d, t
  <2>3. r = t
    BY <2>1, <2>2, QuotientUnique
  <2> QED
    BY <2>3 DEF t
<1> QED
  BY <1>6 DEF a

\* Reduction of a number at most one modulus away from the range.
LEMMA ModNear ==
    ASSUME NEW m \in Nat, m > 0, NEW a \in Int
    PROVE  /\ 0 <= a /\ a < m => a % m = a
           /\ m <= a /\ a < 2 * m => a % m = a - m
           /\ -m <= a /\ a < 0 => a % m = a + m
<1>1. ASSUME 0 <= a, a < m PROVE a % m = a
  <2>1. (m * 0 + a) % m = a
    BY <1>1, ModOf
  <2> QED
    BY <2>1
<1>2. ASSUME m <= a, a < 2 * m PROVE a % m = a - m
  <2>1. (m * 1 + (a - m)) % m = a - m
    BY <1>2, ModOf
  <2>2. m * 1 + (a - m) = a
    OBVIOUS
  <2> QED
    BY <2>1, <2>2
<1>3. ASSUME -m <= a, a < 0 PROVE a % m = a + m
  <2>1. (m * (-1) + (a + m)) % m = a + m
    BY <1>3, ModOf
  <2>2. m * (-1) + (a + m) = a
    OBVIOUS
  <2> QED
    BY <2>1, <2>2
<1> QED
  BY <1>1, <1>2, <1>3

\* When m divides n, wrapping at n first does not change the remainder by m.
LEMMA ModShift ==
    ASSUME NEW m \in Nat, m > 0, NEW n \in Nat, n > 0, n % m = 0, NEW a \in Int
    PROVE  (a % n) % m = a % m
<1> DEFINE k == n \div m
           d == a \div n
           w == a % n
           q == w \div m
           r == w % m
<1>1. k \in Int /\ n = m * k
  BY n \in Int
<1>2. d \in Int /\ w \in Int /\ a = n * d + w
  OBVIOUS
<1>3. q \in Int /\ r \in 0 .. m - 1 /\ w = m * q + r
  BY <1>2
<1> HIDE DEF k, d, w, q, r
<1>4. a = m * (k * d + q) + r
  <2>1. n * d = m * (k * d)
    BY <1>1, <1>2
  <2>2. m * (k * d + q) = m * (k * d) + m * q
    BY <1>1, <1>2, <1>3
  <2> QED
    BY <2>1, <2>2, <1>1, <1>2, <1>3
<1>5. k * d + q \in Int
  BY <1>1, <1>2, <1>3
<1>6. a % m = r
  <2> DEFINE p == k * d + q
  <2>1. p \in Int /\ a = m * p + r
    BY <1>4, <1>5
  <2> HIDE DEF p
  <2>2. (m * p + r) % m = r
    BY <2>1, <1>3, ModOf
  <2> QED
    BY <2>1, <2>2
<1> QED
  BY <1>6 DEF r, w

\* Adding multiples does not change a remainder.
LEMMA ModMultiple ==
    ASSUME NEW m \in Nat, m > 0, NEW e \in Int, NEW x \in Int
    PROVE  (m * e + x) % m = x % m
<1> DEFINE q == x \div m
           r == x % m
<1>1. q \in Int /\ r \in 0 .. m - 1 /\ x = m * q + r
  OBVIOUS
<1> HIDE DEF q, r
<1>2. e + q \in Int /\ m * (e + q) + r = m * e + x
  BY <1>1
<1>3. (m * (e + q) + r) % m = r
  BY <1>1, <1>2, ModOf
<1> QED
  BY <1>2, <1>3 DEF r

\* When m divides n, a term of a sum may be wrapped at n first.
LEMMA ModWrapTerm ==
    ASSUME NEW m \in Nat, m > 0, NEW n \in Nat, n > 0, n % m = 0,
           NEW a \in Int, NEW c \in Int
    PROVE  ((a % n) + c) % m = (a + c) % m
<1> DEFINE k == n \div m
           d == a \div n
           w == a % n
<1>1. k \in Int /\ n = m * k
  BY n \in Int
<1>2. d \in Int /\ w \in Int /\ a = n * d + w
  OBVIOUS
<1> HIDE DEF k, d, w
<1>3. k * d \in Int /\ w + c \in Int
  BY <1>1, <1>2
<1>4. n * d = m * (k * d)
  BY <1>1, <1>2
<1>5. a + c = m * (k * d) + (w + c)
  BY <1>2, <1>3, <1>4
<1>6. (m * (k * d) + (w + c)) % m = (w + c) % m
  BY <1>3, ModMultiple
<1> QED
  BY <1>5, <1>6 DEF w

\* Numbers less than m apart have different remainders.
LEMMA ModApart ==
    ASSUME NEW m \in Nat, m > 0, NEW a \in Int, NEW c \in 1 .. m - 1
    PROVE  (a + c) % m # a % m
<1> DEFINE q == a \div m
           r == a % m
<1>1. q \in Int /\ r \in 0 .. m - 1 /\ a = m * q + r
  OBVIOUS
<1> HIDE DEF q, r
<1>2. CASE r + c < m
  <2>1. (m * q + (r + c)) % m = r + c
    BY <1>1, <1>2, ModOf
  <2>2. m * q + (r + c) = a + c
    BY <1>1
  <2> QED
    BY <1>1, <2>1, <2>2 DEF r
<1>3. CASE r + c >= m
  <2>1. (m * (q + 1) + (r + c - m)) % m = r + c - m
    <3>1. q + 1 \in Int /\ r + c - m \in 0 .. m - 1
      BY <1>1, <1>3
    <3> QED
      BY <3>1, ModOf
  <2>2. m * (q + 1) + (r + c - m) = a + c
    BY <1>1
  <2> QED
    BY <1>1, <2>1, <2>2 DEF r
<1> QED
  BY <1>1, <1>2, <1>3

\* A multiple of m that is not zero is at least m.
LEMMA MultipleAtLeast ==
    ASSUME NEW m \in Nat, m > 0, NEW n \in Nat, n > 0, n % m = 0
    PROVE  n >= m
<1>1. n < m => n % m = n
  BY ModNear
<1> QED
  BY <1>1

---------------------------------------------------------------------------
(* The indices and the slots.                                              *)

\* What the assumption on the constants says, with what follows at once.
LEMMA RangeFacts ==
    /\ SIZE \in Nat /\ SIZE > 1
    /\ IdxMod \in Nat /\ IdxMod > 0 /\ IdxMod % SIZE = 0 /\ IdxMod >= SIZE
    /\ None \notin Slots /\ Value \cap Slots = {}
BY SharedRingAssumption, MultipleAtLeast DEF Slots

\* An index names a slot, whatever it is.
LEMMA SlotInSlots == \A i \in Int : Slot(i) \in Slots
BY RangeFacts DEF Slot, Slots

\* Wrapping an index does not change the slot it names.
LEMMA WrapSlot == \A i \in Int : (i % IdxMod) % SIZE = i % SIZE
<1>1. SIZE \in Nat /\ SIZE > 0 /\ IdxMod \in Nat /\ IdxMod > 0 /\ IdxMod % SIZE = 0
  BY RangeFacts
<1> QED
  BY <1>1, ModShift, Zenon

\* Indices less than SIZE apart name different slots.
LEMMA SlotApart == \A i \in Int, c \in 1 .. SIZE - 1 : (i + c) % SIZE # i % SIZE
<1> TAKE i \in Int, c \in 1 .. SIZE - 1
<1> QED
  BY RangeFacts, ModApart

\* RingSize is how far write_idx is ahead of read_idx, across a wrap or not.
LEMMA SizeIs ==
    ASSUME write_idx \in Index, read_idx \in Index
    PROVE  /\ RingSize \in Index
           /\ write_idx >= read_idx => RingSize = write_idx - read_idx
           /\ write_idx < read_idx => RingSize = write_idx - read_idx + IdxMod
<1>1. write_idx - read_idx \in Int /\ IdxMod \in Nat /\ IdxMod > 0
  BY RangeFacts DEF Index
<1>2. write_idx - read_idx >= 0 => RingSize = write_idx - read_idx
  BY <1>1, RangeFacts, ModNear DEF Index, RingSize
<1>3. write_idx - read_idx < 0 => RingSize = write_idx - read_idx + IdxMod
  BY <1>1, RangeFacts, ModNear DEF Index, RingSize
<1> QED
  BY <1>1, <1>2, <1>3, RangeFacts DEF Index

\* The ring tests full at SIZE - 1 descriptors and empty at none.
LEMMA FullAndEmpty ==
    ASSUME write_idx \in Index, read_idx \in Index, RingSize <= SIZE - 1
    PROVE  /\ RingFull <=> RingSize = SIZE - 1
           /\ RingEmpty <=> RingSize = 0
<1> DEFINE n == RingSize
<1>1. n \in 0 .. SIZE - 1
  BY SizeIs, RangeFacts DEF Index
<1>2. RingEmpty <=> n = 0
  <2>1. n % SIZE = n
    BY <1>1, RangeFacts, ModNear
  <2> QED
    BY <2>1 DEF RingEmpty
<1>3. ((write_idx - read_idx + 1) % IdxMod) % SIZE = (n + 1) % SIZE
  <2>1. write_idx - read_idx + 1 \in Int /\ n + 1 \in Int
    BY <1>1, RangeFacts DEF Index
  <2>2. ((write_idx - read_idx + 1) % IdxMod) % SIZE = (write_idx - read_idx + 1) % SIZE
    BY <2>1, WrapSlot
  <2>3. ((n + 1) % IdxMod) % SIZE = (n + 1) % SIZE
    BY <2>1, WrapSlot
  <2>4. (write_idx - read_idx + 1) % IdxMod = (n + 1) % IdxMod
    <3>1. CASE write_idx >= read_idx
      BY <3>1, SizeIs
    <3>2. CASE write_idx < read_idx
      <4>1. n + 1 = write_idx - read_idx + 1 + IdxMod
        BY <3>2, SizeIs, RangeFacts DEF Index
      <4>2. n + 1 <= SIZE /\ n + 1 >= 1
        BY <1>1, RangeFacts
      <4>3. write_idx - read_idx + 1 <= 0 /\ write_idx - read_idx + 1 >= -IdxMod
        BY <3>2, RangeFacts DEF Index
      <4>4. CASE write_idx - read_idx + 1 < 0
        <5>1. (write_idx - read_idx + 1) % IdxMod = n + 1
          BY <2>1, <4>1, <4>3, <4>4, RangeFacts, ModNear
        <5>2. (n + 1) % IdxMod = n + 1
          BY <2>1, <4>1, <4>2, <4>4, RangeFacts, ModNear DEF Index
        <5> QED
          BY <5>1, <5>2
      <4>5. CASE write_idx - read_idx + 1 = 0
        <5>1. n + 1 = IdxMod
          BY <4>1, <4>5, RangeFacts DEF Index
        <5>2. (n + 1) % IdxMod = 0
          BY <5>1, <2>1, RangeFacts, ModNear
        <5>3. 0 % IdxMod = 0
          BY RangeFacts, ModNear
        <5> QED
          BY <4>5, <5>2, <5>3
      <4> QED
        BY <4>3, <4>4, <4>5, <2>1
    <3> QED
      BY <3>1, <3>2 DEF Index
  <2> QED
    BY <2>2, <2>3, <2>4
<1>4. (n + 1) % SIZE = 0 <=> n = SIZE - 1
  <2>1. n + 1 < SIZE => (n + 1) % SIZE = n + 1
    BY <1>1, RangeFacts, ModNear
  <2>2. n + 1 = SIZE => (n + 1) % SIZE = 0
    BY <1>1, RangeFacts, ModNear
  <2> QED
    BY <1>1, <2>1, <2>2, RangeFacts
<1> QED
  BY <1>2, <1>3, <1>4 DEF RingFull

\* Where the producer's slot lies, counted from the consumer's.
LEMMA WriteSlot ==
    ASSUME write_idx \in Index, read_idx \in Index
    PROVE  Slot(write_idx) = (read_idx + RingSize) % SIZE
<1>1. read_idx + RingSize \in Int
  BY SizeIs DEF Index
<1>2. write_idx \in Int /\ write_idx >= 0 /\ write_idx < IdxMod
  BY RangeFacts DEF Index
<1>3. (read_idx + RingSize) % IdxMod = write_idx
  <2>1. CASE write_idx >= read_idx
    <3>1. read_idx + RingSize = write_idx
      BY <2>1, SizeIs DEF Index
    <3> QED
      BY <3>1, <1>2, RangeFacts, ModNear
  <2>2. CASE write_idx < read_idx
    <3>1. read_idx + RingSize = write_idx + IdxMod
      BY <2>2, SizeIs, RangeFacts DEF Index
    <3>2. (write_idx + IdxMod) % IdxMod = write_idx
      BY <1>2, RangeFacts, ModNear
    <3> QED
      BY <3>1, <3>2
  <2> QED
    BY <2>1, <2>2 DEF Index
<1>4. ((read_idx + RingSize) % IdxMod) % SIZE = (read_idx + RingSize) % SIZE
  BY <1>1, WrapSlot
<1> QED
  BY <1>3, <1>4 DEF Slot

\* Advancing write_idx adds one descriptor, wrap or not.
LEMMA AdvanceWrite ==
    ASSUME write_idx \in Index, read_idx \in Index, RingSize < SIZE - 1,
           write_idx' = (write_idx + 1) % IdxMod, read_idx' = read_idx
    PROVE  write_idx' \in Index /\ RingSize' = RingSize + 1
<1>1. write_idx' \in Index
  BY RangeFacts DEF Index
<1>2. \/ write_idx + 1 < IdxMod /\ write_idx' = write_idx + 1
      \/ write_idx + 1 = IdxMod /\ write_idx' = 0
  BY RangeFacts, ModNear DEF Index
<1>3. write_idx' - read_idx \in Int
  BY <1>1, RangeFacts DEF Index
<1>4. RingSize' = (write_idx' - read_idx) % IdxMod
  BY DEF RingSize
<1>5. /\ write_idx' >= read_idx => RingSize' = write_idx' - read_idx
      /\ write_idx' < read_idx => RingSize' = write_idx' - read_idx + IdxMod
  BY <1>1, <1>3, <1>4, RangeFacts, ModNear DEF Index
<1> QED
  BY <1>1, <1>2, <1>5, SizeIs, RangeFacts DEF Index

\* Advancing read_idx removes one.
LEMMA AdvanceRead ==
    ASSUME write_idx \in Index, read_idx \in Index, RingSize > 0,
           read_idx' = (read_idx + 1) % IdxMod, write_idx' = write_idx
    PROVE  read_idx' \in Index /\ RingSize' = RingSize - 1
<1>1. read_idx' \in Index
  BY RangeFacts DEF Index
<1>2. \/ read_idx + 1 < IdxMod /\ read_idx' = read_idx + 1
      \/ read_idx + 1 = IdxMod /\ read_idx' = 0
  BY RangeFacts, ModNear DEF Index
<1>3. write_idx - read_idx' \in Int
  BY <1>1, RangeFacts DEF Index
<1>4. RingSize' = (write_idx - read_idx') % IdxMod
  BY DEF RingSize
<1>5. /\ write_idx >= read_idx' => RingSize' = write_idx - read_idx'
      /\ write_idx < read_idx' => RingSize' = write_idx - read_idx' + IdxMod
  BY <1>1, <1>3, <1>4, RangeFacts, ModNear DEF Index
<1> QED
  BY <1>1, <1>2, <1>5, SizeIs, RangeFacts DEF Index

---------------------------------------------------------------------------
(* The type invariant.                                                     *)

\* Indices, slots and registers are typed at first.
LEMMA TypeInit == Init => TypeOK
<1> SUFFICES ASSUME Init PROVE TypeOK
  OBVIOUS
<1>1. Desc(None) \in Descriptor /\ Desc(None) \in Returned
  BY DEF Desc, Descriptor, Returned, Word
<1>2. buffers \in [Slots -> Descriptor] /\ reg \in Returned /\ deqRet \in Returned
  BY <1>1 DEF Init
<1>3. write_idx \in Index /\ read_idx \in Index
  BY RangeFacts DEF Init, Index
<1> QED
  BY <1>2, <1>3 DEF Init, TypeOK, Word, Busy

\* enqueue keeps them typed.
LEMMA TypeProducer == TypeOK /\ Producer => TypeOK'
<1> SUFFICES ASSUME TypeOK, Producer PROVE TypeOK'
  OBVIOUS
<1> USE DEF TypeOK, prodVars, consVars
<1>1. CASE EnqueueFull
  BY <1>1 DEF EnqueueFull
<1>2. ASSUME NEW v \in Value, EnqueueStart(v) PROVE TypeOK'
  BY <1>2 DEF EnqueueStart, Word, Busy
<1>3. CASE EnqueueStore
  <2>1. Slot(write_idx) \in Slots
    BY SlotInSlots, RangeFacts DEF Index
  <2> HIDE DEF Slot
  <2>2. CASE Store("encoded_addr", "len")
    BY <2>1, <2>2 DEF Store, Descriptor, Busy
  <2>3. CASE Store("len", "cookie")
    BY <2>1, <2>3 DEF Store, Descriptor, Busy
  <2>4. CASE Store("cookie", "advance")
    BY <2>1, <2>4 DEF Store, Descriptor, Busy
  <2> QED
    BY <1>3, <2>2, <2>3, <2>4 DEF EnqueueStore
<1>4. CASE EnqueueAdvance
  <2>1. (write_idx + 1) % IdxMod \in Index
    BY RangeFacts DEF Index
  <2> QED
    BY <1>4, <2>1 DEF EnqueueAdvance
<1> QED
  BY <1>1, <1>2, <1>3, <1>4 DEF Producer

\* dequeue and driver_dequeue keep them typed.
LEMMA TypeConsumer == TypeOK /\ Consumer => TypeOK'
<1> SUFFICES ASSUME TypeOK, Consumer PROVE TypeOK'
  OBVIOUS
<1> USE DEF TypeOK, prodVars, consVars
<1>1. CASE DequeueEmpty
  BY <1>1 DEF DequeueEmpty, Desc, Returned, Word
<1>2. ASSUME NEW d \in BOOLEAN, DequeueStart(d) PROVE TypeOK'
  BY <1>2 DEF DequeueStart, Busy
<1>3. CASE DequeueLoad
  <2>1. Slot(read_idx) \in Slots
    BY SlotInSlots, RangeFacts DEF Index
  <2>2. buffers[Slot(read_idx)] \in Descriptor
    BY <2>1
  <2>3. CASE Load("encoded_addr", "len")
    BY <2>2, <2>3 DEF Load, Descriptor, Returned, Busy
  <2>4. CASE Load("len", "cookie")
    BY <2>2, <2>4 DEF Load, Descriptor, Returned, Busy
  <2>5. CASE LoadCookie
    BY <2>1, <2>2, <2>5 DEF LoadCookie, Descriptor, Returned, Busy
  <2> QED
    BY <1>3, <2>3, <2>4, <2>5 DEF DequeueLoad
<1>4. CASE DequeueAdvance
  <2>1. (read_idx + 1) % IdxMod \in Index
    BY RangeFacts DEF Index
  <2> QED
    BY <1>4, <2>1 DEF DequeueAdvance
<1> QED
  BY <1>1, <1>2, <1>3, <1>4 DEF Consumer

\* The shared words and both sides' registers keep their types: an index
\* never leaves its range, a slot never holds anything but words.
THEOREM TypeCorrect == Spec => []TypeOK
<1>1. TypeOK /\ [Next]_vars => TypeOK'
  <2> SUFFICES ASSUME TypeOK, [Next]_vars PROVE TypeOK'
    OBVIOUS
  <2>1. CASE UNCHANGED vars
    BY <2>1 DEF TypeOK, vars, prodVars, consVars
  <2> QED
    BY <2>1, TypeProducer, TypeConsumer DEF Next
<1> QED
  BY <1>1, TypeInit, PTL DEF Spec

---------------------------------------------------------------------------
(* What a side checked holds until it advances its index.                  *)

\* An empty ring, with nobody at work.
LEMMA CheckInit == Init => CheckStillHolds
<1> SUFFICES ASSUME Init PROVE CheckStillHolds
  OBVIOUS
<1>1. RingSize = 0
  BY RangeFacts, ModNear DEF Init, RingSize
<1> QED
  BY <1>1, RangeFacts DEF Init, CheckStillHolds

\* enqueue uses up the room it checked for, and adds to what dequeue checked.
LEMMA CheckProducer == TypeOK /\ CheckStillHolds /\ Producer => CheckStillHolds'
<1> SUFFICES ASSUME TypeOK, CheckStillHolds, Producer PROVE CheckStillHolds'
  OBVIOUS
<1>1. write_idx \in Index /\ read_idx \in Index /\ RingSize \in Index
  BY SizeIs DEF TypeOK
<1>2. UNCHANGED <<write_idx, read_idx>> => RingSize' = RingSize
  BY DEF RingSize
<1> USE DEF CheckStillHolds, prodVars, consVars
<1>3. CASE EnqueueFull
  BY <1>2, <1>3 DEF EnqueueFull
<1>4. ASSUME NEW v \in Value, EnqueueStart(v) PROVE CheckStillHolds'
  <2>1. RingSize # SIZE - 1
    BY <1>1, <1>4, FullAndEmpty DEF EnqueueStart
  <2> QED
    BY <1>1, <1>2, <1>4, <2>1, RangeFacts DEF EnqueueStart, Index
<1>5. CASE EnqueueStore
  BY <1>2, <1>5 DEF EnqueueStore, Store
<1>6. CASE EnqueueAdvance
  <2>1. RingSize' = RingSize + 1
    BY <1>1, <1>6, AdvanceWrite DEF EnqueueAdvance
  <2> QED
    BY <1>1, <1>6, <2>1, RangeFacts DEF EnqueueAdvance, Index
<1> QED
  BY <1>3, <1>4, <1>5, <1>6 DEF Producer

\* dequeue uses up the descriptor it checked for, and adds to the room.
LEMMA CheckConsumer == TypeOK /\ CheckStillHolds /\ Consumer => CheckStillHolds'
<1> SUFFICES ASSUME TypeOK, CheckStillHolds, Consumer PROVE CheckStillHolds'
  OBVIOUS
<1>1. write_idx \in Index /\ read_idx \in Index /\ RingSize \in Index
  BY SizeIs DEF TypeOK
<1>2. UNCHANGED <<write_idx, read_idx>> => RingSize' = RingSize
  BY DEF RingSize
<1> USE DEF CheckStillHolds, prodVars, consVars
<1>3. CASE DequeueEmpty
  BY <1>2, <1>3 DEF DequeueEmpty
<1>4. ASSUME NEW d \in BOOLEAN, DequeueStart(d) PROVE CheckStillHolds'
  <2>1. RingSize # 0
    BY <1>1, <1>4, FullAndEmpty DEF DequeueStart
  <2> QED
    BY <1>1, <1>2, <1>4, <2>1, RangeFacts DEF DequeueStart, Index
<1>5. CASE DequeueLoad
  BY <1>2, <1>5 DEF DequeueLoad, Load, LoadCookie
<1>6. CASE DequeueAdvance
  <2>1. RingSize' = RingSize - 1
    BY <1>1, <1>6, AdvanceRead DEF DequeueAdvance
  <2> QED
    BY <1>1, <1>6, <2>1, RangeFacts DEF DequeueAdvance, Index
<1> QED
  BY <1>3, <1>4, <1>5, <1>6 DEF Consumer

\* At most SIZE - 1 descriptors are in the ring, and neither side's full or
\* empty test is undone by the other before it commits, at any interleaving.
THEOREM CheckCorrect == Spec => []CheckStillHolds
<1>1. TypeOK /\ CheckStillHolds /\ [Next]_vars => CheckStillHolds'
  <2> SUFFICES ASSUME TypeOK, CheckStillHolds, [Next]_vars PROVE CheckStillHolds'
    OBVIOUS
  <2>1. CASE UNCHANGED vars
    BY <2>1 DEF CheckStillHolds, RingSize, vars, prodVars, consVars
  <2> QED
    BY <2>1, CheckProducer, CheckConsumer DEF Next
<1> QED
  BY <1>1, CheckInit, TypeCorrect, PTL DEF Spec

\* With both sides at work the indices are between 1 and SIZE - 1 apart.
LEMMA CheckSeparates == TypeOK /\ CheckStillHolds => NoSlotRace
<1> SUFFICES ASSUME TypeOK, CheckStillHolds, ppc # "idle", cpc # "idle"
             PROVE  Slot(write_idx) # Slot(read_idx)
  BY DEF NoSlotRace
<1>1. read_idx \in Int /\ RingSize \in 1 .. SIZE - 1
  BY SizeIs, RangeFacts DEF TypeOK, CheckStillHolds, Index
<1>2. (read_idx + RingSize) % SIZE # read_idx % SIZE
  BY <1>1, SlotApart
<1> QED
  BY <1>2, WriteSlot DEF TypeOK, Slot

\* A descriptor is never read while it is being written.
THEOREM RaceFree == Spec => []NoSlotRace
BY TypeCorrect, CheckCorrect, CheckSeparates, PTL

---------------------------------------------------------------------------
(* The refinement of RingFifo.                                             *)

\* enqueue's stores so far are in the slot at write_idx.
Written ==
    /\ ppc # "idle" => item \in Value
    /\ ppc \in {"len", "cookie", "advance"} =>
            buffers[Slot(write_idx)].encoded_addr = item
    /\ ppc \in {"cookie", "advance"} => buffers[Slot(write_idx)].len = item
    /\ ppc = "advance" => buffers[Slot(write_idx)].cookie = item

\* dequeue's loads so far are what the slot at read_idx holds.
Loaded ==
    /\ cpc \in {"len", "cookie", "advance"} =>
            reg.encoded_addr = buffers[Slot(read_idx)].encoded_addr
    /\ cpc \in {"cookie", "advance"} => reg.len = buffers[Slot(read_idx)].len
    /\ cpc = "advance" =>
            reg.cookie = IF driver THEN Slot(read_idx)
                         ELSE buffers[Slot(read_idx)].cookie

\* The slot driver_dequeue's last result points to is untouched.
Kept ==
    deqRet.cookie \in Slots =>
        /\ deqRet.cookie = (read_idx - 1) % SIZE
        /\ buffers[deqRet.cookie].encoded_addr = deqRet.encoded_addr
        /\ buffers[deqRet.cookie].len = deqRet.len

RInv == TypeOK /\ CheckStillHolds /\ Written /\ Loaded /\ Kept

---------------------------------------------------------------------------
(* Where the slots of a ring of RingSize descriptors lie.                  *)

\* A term of a sum may be wrapped first.
LEMMA WrapTerm ==
    \A a \in Int, c \in Int : ((a % IdxMod) + c) % SIZE = (a + c) % SIZE
<1>1. SIZE \in Nat /\ SIZE > 0 /\ IdxMod \in Nat /\ IdxMod > 0 /\ IdxMod % SIZE = 0
  BY RangeFacts
<1> QED
  BY <1>1, ModWrapTerm, Zenon

\* The slot of the i-th descriptor, counted from read_idx.
LEMMA NthSlot ==
    ASSUME read_idx \in Index, NEW i \in Int
    PROVE  Slot((read_idx + i - 1) % IdxMod) = (read_idx + i - 1) % SIZE
<1>1. read_idx + i - 1 \in Int
  BY RangeFacts DEF Index
<1> QED
  BY <1>1, WrapSlot DEF Slot

\* The slot the producer is at is none of the descriptors', and, while it is
\* at work, not the one given back last.
LEMMA WriteApart ==
    ASSUME write_idx \in Index, read_idx \in Index, RingSize <= SIZE - 1
    PROVE  /\ \A i \in 1 .. RingSize :
                Slot(write_idx) # Slot((read_idx + i - 1) % IdxMod)
           /\ RingSize < SIZE - 1 => Slot(write_idx) # (read_idx - 1) % SIZE
<1>1. read_idx \in Int /\ RingSize \in Int /\ RingSize >= 0
  BY SizeIs, RangeFacts DEF Index
<1>2. Slot(write_idx) = (read_idx + RingSize) % SIZE
  BY WriteSlot
<1> HIDE DEF Slot
<1>3. ASSUME NEW i \in 1 .. RingSize
      PROVE  Slot(write_idx) # Slot((read_idx + i - 1) % IdxMod)
  <2>1. read_idx + i - 1 \in Int /\ RingSize - i + 1 \in 1 .. SIZE - 1
    BY <1>1, RangeFacts
  <2>2. ((read_idx + i - 1) + (RingSize - i + 1)) % SIZE # (read_idx + i - 1) % SIZE
    BY <2>1, SlotApart
  <2>3. (read_idx + i - 1) + (RingSize - i + 1) = read_idx + RingSize
    BY <1>1
  <2> QED
    BY <1>2, <2>2, <2>3, NthSlot
<1>4. ASSUME RingSize < SIZE - 1 PROVE Slot(write_idx) # (read_idx - 1) % SIZE
  <2>1. read_idx - 1 \in Int /\ RingSize + 1 \in 1 .. SIZE - 1
    BY <1>1, <1>4, RangeFacts
  <2>2. ((read_idx - 1) + (RingSize + 1)) % SIZE # (read_idx - 1) % SIZE
    BY <2>1, SlotApart
  <2>3. (read_idx - 1) + (RingSize + 1) = read_idx + RingSize
    BY <1>1
  <2> QED
    BY <1>2, <2>2, <2>3
<1> QED
  BY <1>3, <1>4

\* After the consumer's advance, the slot before read_idx is the one it was at.
LEMMA SlotBefore ==
    ASSUME read_idx \in Index, read_idx' = (read_idx + 1) % IdxMod
    PROVE  (read_idx' - 1) % SIZE = Slot(read_idx)
<1>1. read_idx \in Int /\ read_idx + 1 \in Int
  BY RangeFacts DEF Index
<1>2. (((read_idx + 1) % IdxMod) + (-1)) % SIZE = ((read_idx + 1) + (-1)) % SIZE
  BY <1>1, WrapTerm
<1>3. (read_idx + 1) + (-1) = read_idx
  BY <1>1
<1>4. ((read_idx + 1) % IdxMod) + (-1) = read_idx' - 1
  BY <1>1, RangeFacts
<1> QED
  BY <1>2, <1>3, <1>4 DEF Slot

---------------------------------------------------------------------------
(* The invariant.                                                          *)

\* A word is never a slot, so a cookie tells whether it is an address.
LEMMA WordsAndSlots == Word \cap Slots = {}
BY RangeFacts DEF Word

\* An empty ring satisfies the invariant.
LEMMA RInit == Init => RInv
<1> SUFFICES ASSUME Init PROVE RInv
  OBVIOUS
<1>1. TypeOK /\ CheckStillHolds
  BY TypeInit, CheckInit
<1>2. Written /\ Loaded
  BY DEF Init, Written, Loaded
<1>3. Kept
  BY WordsAndSlots DEF Init, Kept, Desc, Word
<1> QED
  BY <1>1, <1>2, <1>3 DEF RInv

\* The effect of one store of enqueue on the slots.
LEMMA StoreEffect ==
    ASSUME RInv, NEW f \in {"encoded_addr", "len", "cookie"}, NEW next, Store(f, next)
    PROVE  /\ ppc = f /\ ppc' = next /\ RingSize < SIZE - 1
           /\ Slot(write_idx) \in Slots
           /\ buffers'[Slot(write_idx)] = [buffers[Slot(write_idx)] EXCEPT ![f] = item]
           /\ \A s \in Slots : s # Slot(write_idx) => buffers'[s] = buffers[s]
           /\ UNCHANGED <<write_idx, read_idx, item, enqRet, consVars>>
<1>1. Slot(write_idx) \in Slots
  BY SlotInSlots, RangeFacts DEF RInv, TypeOK, Index
<1>2. RingSize < SIZE - 1
  BY DEF RInv, CheckStillHolds, Store
<1> HIDE DEF Slot
<1> QED
  BY <1>1, <1>2 DEF RInv, TypeOK, Store

\* enqueue preserves it: its stores miss the slots the consumer relies on.
LEMMA RProducer == RInv /\ TypeOK' /\ CheckStillHolds' /\ Producer => RInv'
<1> SUFFICES ASSUME RInv, TypeOK', CheckStillHolds', Producer
             PROVE  Written' /\ Loaded' /\ Kept'
  BY DEF RInv
<1> USE DEF RInv, consVars, prodVars
<1> HIDE DEF Slot, Slots
<1>1. CASE EnqueueFull
  BY <1>1 DEF EnqueueFull, Written, Loaded, Kept, Slot
<1>2. ASSUME NEW v \in Value, EnqueueStart(v) PROVE Written' /\ Loaded' /\ Kept'
  BY <1>2 DEF EnqueueStart, Written, Loaded, Kept, Slot
<1>3. ASSUME NEW f \in {"encoded_addr", "len", "cookie"}, NEW next, Store(f, next),
             \/ f = "encoded_addr" /\ next = "len"
             \/ f = "len" /\ next = "cookie"
             \/ f = "cookie" /\ next = "advance"
      PROVE  Written' /\ Loaded' /\ Kept'
  <2> DEFINE w == Slot(write_idx)
             r == Slot(read_idx)
  <2>1. /\ ppc = f /\ ppc' = next /\ RingSize < SIZE - 1
        /\ w \in Slots
        /\ buffers'[w] = [buffers[w] EXCEPT ![f] = item]
        /\ \A s \in Slots : s # w => buffers'[s] = buffers[s]
        /\ UNCHANGED <<write_idx, read_idx, item, enqRet, cpc, driver, reg, deqRet>>
    BY <1>3, StoreEffect
  <2>2. buffers[w] \in Descriptor
    BY <2>1 DEF TypeOK
  <2>3. w' = w /\ r' = r
    BY <2>1 DEF Slot
  <2>4. Written'
    BY <1>3, <2>1, <2>2, <2>3 DEF Written, Descriptor
  <2>5. Loaded'
    <3>1. cpc # "idle" => r # w
      BY <1>3, <2>1, CheckSeparates DEF NoSlotRace
    <3>2. r \in Slots
      BY SlotInSlots, RangeFacts DEF TypeOK, Index
    <3>3. cpc # "idle" => buffers'[r] = buffers[r]
      BY <2>1, <3>1, <3>2
    <3> QED
      BY <2>1, <2>3, <3>3 DEF Loaded
  <2>6. Kept'
    <3>1. w # (read_idx - 1) % SIZE
      BY <2>1, WriteApart DEF TypeOK, CheckStillHolds
    <3>2. deqRet.cookie \in Slots => buffers'[deqRet.cookie] = buffers[deqRet.cookie]
      BY <2>1, <3>1 DEF Kept
    <3> QED
      BY <2>1, <3>2 DEF Kept
  <2> QED
    BY <2>4, <2>5, <2>6
<1>4. CASE EnqueueAdvance
  BY <1>4 DEF EnqueueAdvance, Written, Loaded, Kept, Slot
<1> QED
  BY <1>1, <1>2, <1>3, <1>4 DEF Producer, EnqueueStore

\* dequeue and driver_dequeue preserve it.
LEMMA RConsumer == RInv /\ TypeOK' /\ CheckStillHolds' /\ Consumer => RInv'
<1> SUFFICES ASSUME RInv, TypeOK', CheckStillHolds', Consumer
             PROVE  Written' /\ Loaded' /\ Kept'
  BY DEF RInv
<1> USE DEF RInv, consVars, prodVars
<1> HIDE DEF Slots
<1>1. CASE DequeueEmpty
  BY <1>1, WordsAndSlots DEF DequeueEmpty, Written, Loaded, Kept, Desc, Word, Slot
<1>2. ASSUME NEW d \in BOOLEAN, DequeueStart(d) PROVE Written' /\ Loaded' /\ Kept'
  BY <1>2 DEF DequeueStart, Written, Loaded, Kept, Slot
<1>3. CASE Load("encoded_addr", "len")
  BY <1>3 DEF Load, Written, Loaded, Kept, TypeOK, Returned, Slot
<1>4. CASE Load("len", "cookie")
  BY <1>4 DEF Load, Written, Loaded, Kept, TypeOK, Returned, Slot
<1>5. CASE LoadCookie
  BY <1>5 DEF LoadCookie, Written, Loaded, Kept, TypeOK, Returned, Slot
<1>6. CASE DequeueAdvance
  <2>1. Written' /\ Loaded'
    BY <1>6 DEF DequeueAdvance, Written, Loaded, Slot
  <2>2. (read_idx' - 1) % SIZE = Slot(read_idx)
    BY <1>6, SlotBefore DEF DequeueAdvance, TypeOK
  <2>3. reg.cookie \in Slots => driver
    <3>1. Slot(read_idx) \in Slots
      BY SlotInSlots, RangeFacts DEF TypeOK, Index
    <3>2. buffers[Slot(read_idx)].cookie \in Word
      BY <3>1 DEF TypeOK, Descriptor
    <3> QED
      BY <1>6, <3>2, WordsAndSlots DEF DequeueAdvance, Loaded
  <2> HIDE DEF Slot
  <2>4. Kept'
    BY <1>6, <2>2, <2>3 DEF DequeueAdvance, Kept, Loaded
  <2> QED
    BY <2>1, <2>4
<1> QED
  BY <1>1, <1>2, <1>3, <1>4, <1>5, <1>6 DEF Consumer, DequeueLoad

\* The invariant holds throughout.
LEMMA RInvariance == Spec => []RInv
<1>1. RInv /\ TypeOK' /\ CheckStillHolds' /\ [Next]_vars => RInv'
  <2> SUFFICES ASSUME RInv, TypeOK', CheckStillHolds', [Next]_vars PROVE RInv'
    OBVIOUS
  <2>1. CASE UNCHANGED vars
    BY <2>1 DEF RInv, Written, Loaded, Kept, Slot, vars, prodVars, consVars
  <2> QED
    BY <2>1, RProducer, RConsumer DEF Next
<1> QED
  BY <1>1, RInit, TypeCorrect, CheckCorrect, PTL DEF Spec

\* What driver_dequeue returned stays true of the slot it points to.
THEOREM CookieKept == Spec => []CookieStable
<1>1. RInv => CookieStable
  BY DEF RInv, Kept, CookieStable
<1> QED
  BY <1>1, RInvariance, PTL

---------------------------------------------------------------------------
(* The refinement.                                                         *)

\* The descriptors between the indices, as a sequence.
QueueOfSlots ==
    /\ Contents \in Seq(Descriptor) /\ Len(Contents) = RingSize
    /\ RingSize \in Nat
    /\ \A i \in 1 .. RingSize : Contents[i] = buffers[(read_idx + i - 1) % SIZE]

\* A typed ring holds such a sequence.
LEMMA ContentsIs == TypeOK => QueueOfSlots
<1> SUFFICES ASSUME TypeOK PROVE QueueOfSlots
  OBVIOUS
<1>1. RingSize \in Nat /\ read_idx \in Index /\ read_idx \in Int
  BY SizeIs, RangeFacts DEF TypeOK, Index
<1>2. ASSUME NEW i \in 1 .. RingSize
      PROVE  /\ Slot((read_idx + i - 1) % IdxMod) = (read_idx + i - 1) % SIZE
             /\ buffers[Slot((read_idx + i - 1) % IdxMod)] \in Descriptor
  <2> HIDE DEF RingSize, Slot
  <2>0. i \in Int /\ read_idx + i - 1 \in Int
    BY <1>1
  <2>1. Slot((read_idx + i - 1) % IdxMod) = (read_idx + i - 1) % SIZE
    BY <1>1, <2>0, NthSlot
  <2>2. (read_idx + i - 1) % SIZE \in Slots
    BY <2>0, SlotInSlots DEF Slot
  <2> QED
    BY <2>1, <2>2 DEF TypeOK
<1>3. Contents \in [1 .. RingSize -> Descriptor]
  BY <1>2 DEF Contents
<1>4. \A i \in 1 .. RingSize : Contents[i] = buffers[(read_idx + i - 1) % SIZE]
  BY <1>2 DEF Contents
<1> HIDE DEF RingSize, Contents
<1>5. Contents \in Seq(Descriptor) /\ Len(Contents) = RingSize
  BY <1>1, <1>3, SeqDef, LenProperties
<1> QED
  BY <1>1, <1>4, <1>5 DEF QueueOfSlots

\* So does the next state's.
LEMMA ContentsNext == TypeOK' => QueueOfSlots'
BY ContentsIs, PTL

\* Steps that leave the indices and the slots between them leave the queue.
LEMMA ContentsSame ==
    ASSUME TypeOK, UNCHANGED <<write_idx, read_idx>>,
           \A i \in 1 .. RingSize :
              buffers'[Slot((read_idx + i - 1) % IdxMod)]
                = buffers[Slot((read_idx + i - 1) % IdxMod)]
    PROVE  Contents' = Contents
<1>1. RingSize' = RingSize
  BY DEF RingSize
<1> HIDE DEF RingSize, Slot
<1>2. Contents' = [i \in 1 .. RingSize |-> buffers'[Slot((read_idx + i - 1) % IdxMod)]]
  BY <1>1 DEF Contents, Slot
<1> QED
  BY <1>2 DEF Contents

\* The queue is empty when the ring is, and full at SIZE - 1 descriptors.
LEMMA QueueLength ==
    ASSUME TypeOK, CheckStillHolds
    PROVE  /\ Contents = <<>> <=> RingEmpty
           /\ Len(Contents) = SIZE - 1 <=> RingFull
           /\ Len(Contents) <= SIZE - 1
<1>1. Contents \in Seq(Descriptor) /\ Len(Contents) = RingSize
  BY ContentsIs DEF QueueOfSlots
<1>2. RingSize <= SIZE - 1 /\ (RingFull <=> RingSize = SIZE - 1) /\ (RingEmpty <=> RingSize = 0)
  BY FullAndEmpty DEF TypeOK, CheckStillHolds
<1> HIDE DEF RingSize, Contents, RingFull, RingEmpty
<1>3. Contents = <<>> <=> Len(Contents) = 0
  BY <1>1, EmptySeq
<1> QED
  BY <1>1, <1>2, <1>3

\* An empty ring is an empty queue.
LEMMA FifoInit == Init => Fifo!Init
<1> SUFFICES ASSUME Init PROVE Fifo!Init
  OBVIOUS
<1>1. RingSize = 0
  BY RangeFacts, ModNear DEF Init, RingSize
<1>2. TypeOK
  BY TypeInit
<1>3. Contents = <<>>
  BY <1>1, <1>2, ContentsIs, EmptySeq DEF QueueOfSlots
<1>4. Deref(deqRet) = Fifo!Desc(None)
  BY RangeFacts DEF Init, Deref, Desc, Fifo!Desc
<1> QED
  BY <1>3, <1>4 DEF Init, Fifo!Init

\* A store of enqueue changes nothing the consumer can see.
LEMMA StoreHidden ==
    ASSUME RInv, NEW f \in {"encoded_addr", "len", "cookie"}, NEW next, Store(f, next)
    PROVE  Contents' = Contents /\ Deref(deqRet)' = Deref(deqRet) /\ enqRet' = enqRet
<1> DEFINE w == Slot(write_idx)
<1>1. /\ RingSize < SIZE - 1
      /\ \A s \in Slots : s # w => buffers'[s] = buffers[s]
      /\ UNCHANGED <<write_idx, read_idx, enqRet, deqRet>>
  BY StoreEffect DEF consVars
<1>2. /\ \A i \in 1 .. RingSize : w # Slot((read_idx + i - 1) % IdxMod)
      /\ w # (read_idx - 1) % SIZE
  BY <1>1, WriteApart DEF RInv, TypeOK, CheckStillHolds
<1>3. Contents' = Contents
  <2>1. ASSUME NEW i \in 1 .. RingSize
        PROVE  Slot((read_idx + i - 1) % IdxMod) \in Slots
    <3>1. RingSize \in Int /\ read_idx \in Int
      BY SizeIs, RangeFacts DEF RInv, TypeOK, Index
    <3> HIDE DEF RingSize
    <3>2. (read_idx + i - 1) % IdxMod \in Int
      BY <3>1, RangeFacts
    <3> QED
      BY <3>2, SlotInSlots
  <2> HIDE DEF Slot, RingSize
  <2>2. \A i \in 1 .. RingSize : buffers'[Slot((read_idx + i - 1) % IdxMod)]
                                    = buffers[Slot((read_idx + i - 1) % IdxMod)]
    BY <1>1, <1>2, <2>1
  <2> QED
    BY <1>1, <2>2, ContentsSame DEF RInv
<1>4. Deref(deqRet)' = Deref(deqRet)
  <2> HIDE DEF w
  <2>1. deqRet.cookie \in Slots => buffers'[deqRet.cookie] = buffers[deqRet.cookie]
    BY <1>1, <1>2 DEF RInv, Kept
  <2> QED
    BY <1>1, <2>1 DEF Deref
<1> QED
  BY <1>1, <1>3, <1>4

\* The increment of write_idx publishes the descriptor as enqueue was given it.
LEMMA AdvanceEnqueues ==
    ASSUME RInv, EnqueueAdvance
    PROVE  item \in Value /\ Fifo!Enqueue(item)
<1> DEFINE n == RingSize
           d == buffers[Slot(write_idx)]
<1>1. /\ write_idx \in Index /\ read_idx \in Index /\ n < SIZE - 1 /\ n \in Nat
      /\ item \in Value /\ TypeOK /\ read_idx \in Int
  BY SizeIs, RangeFacts DEF RInv, TypeOK, CheckStillHolds, Written, EnqueueAdvance, Index
<1>2. /\ write_idx' = (write_idx + 1) % IdxMod /\ read_idx' = read_idx
      /\ buffers' = buffers /\ deqRet' = deqRet /\ enqRet' = 0
  BY DEF EnqueueAdvance, consVars
<1>3. RingSize' = n + 1 /\ TypeOK'
  BY <1>1, <1>2, AdvanceWrite, TypeProducer DEF Producer
<1>4. d = Desc(item)
  <2>1. Slot(write_idx) \in Slots
    BY <1>1, SlotInSlots, RangeFacts DEF Index
  <2>2. d \in Descriptor
    BY <1>1, <2>1 DEF TypeOK
  <2>3. d.encoded_addr = item /\ d.len = item /\ d.cookie = item
    BY DEF RInv, Written, EnqueueAdvance
  <2> HIDE DEF d
  <2> QED
    BY <2>2, <2>3 DEF Descriptor, Desc
<1>5. Slot(write_idx) = (read_idx + n) % SIZE
  BY <1>1, WriteSlot
<1>6. /\ Contents \in Seq(Descriptor) /\ Len(Contents) = n
      /\ \A i \in 1 .. n : Contents[i] = buffers[(read_idx + i - 1) % SIZE]
  BY <1>1, ContentsIs DEF QueueOfSlots
<1>7. /\ Contents' \in Seq(Descriptor) /\ Len(Contents') = n + 1
      /\ \A i \in 1 .. n + 1 : Contents'[i] = buffers[(read_idx + i - 1) % SIZE]
  <2>1. /\ Contents' \in Seq(Descriptor) /\ Len(Contents') = RingSize'
        /\ \A i \in 1 .. RingSize' : Contents'[i] = buffers'[(read_idx' + i - 1) % SIZE]
    BY <1>3, ContentsNext DEF QueueOfSlots
  <2> HIDE DEF Contents, RingSize
  <2> QED
    BY <2>1, <1>2, <1>3
<1>8. Contents'[n + 1] = d
  <2>1. n + 1 \in 1 .. n + 1 /\ read_idx + (n + 1) - 1 = read_idx + n
    BY <1>1
  <2> HIDE DEF Contents, n, Slot
  <2> QED
    BY <1>5, <1>7, <2>1
<1>9. Contents' = Append(Contents, Desc(item))
  <2> DEFINE q == Contents
             p == Contents'
             x == Desc(item)
  <2>1. d \in Descriptor /\ x \in Descriptor
    BY <1>1, <1>4 DEF Desc, Descriptor, Word
  <2>2. q \in Seq(Descriptor) /\ p \in Seq(Descriptor) /\ Len(q) = n /\ Len(p) = n + 1
    BY <1>6, <1>7
  <2>3. p[n + 1] = x
    BY <1>4, <1>8
  <2>4. \A i \in 1 .. n : p[i] = q[i]
    <3> HIDE DEF q, p, n
    <3>1. \A i \in 1 .. n : i \in 1 .. n + 1
      BY <1>1
    <3> QED
      BY <1>6, <1>7, <3>1 DEF q, p
  <2> HIDE DEF q, p, x, n
  <2>5. /\ Append(q, x) \in Seq(Descriptor) /\ Len(Append(q, x)) = n + 1
        /\ \A i \in 1 .. n : Append(q, x)[i] = q[i]
        /\ Append(q, x)[n + 1] = x
    BY <2>1, <2>2, AppendProperties
  <2>6. \A i \in 1 .. n + 1 : p[i] = Append(q, x)[i]
    BY <1>1, <2>3, <2>4, <2>5
  <2>7. p = Append(q, x)
    BY <2>2, <2>5, <2>6, SeqEqual
  <2> QED
    BY <2>7 DEF q, p, x
<1>10. Deref(deqRet)' = Deref(deqRet)
  BY <1>2 DEF Deref
<1>11. Len(Contents) < SIZE - 1
  BY <1>1, <1>6
<1> QED
  BY <1>1, <1>2, <1>9, <1>10, <1>11 DEF Fifo!Enqueue, Fifo!Desc, Desc

\* The increment of read_idx takes the oldest descriptor out, and what dequeue
\* returns, followed if it is an address, is that descriptor.
LEMMA AdvanceDequeues ==
    ASSUME RInv, DequeueAdvance
    PROVE  Fifo!Dequeue
<1> DEFINE n == RingSize
           r == Slot(read_idx)
           d == buffers[r]
<1>1. /\ write_idx \in Index /\ read_idx \in Index /\ n > 0 /\ n \in Nat
      /\ TypeOK /\ read_idx \in Int
  BY SizeIs, RangeFacts DEF RInv, TypeOK, CheckStillHolds, DequeueAdvance, Index
<1>2. /\ read_idx' = (read_idx + 1) % IdxMod /\ write_idx' = write_idx
      /\ buffers' = buffers /\ deqRet' = reg /\ enqRet' = enqRet
  BY DEF DequeueAdvance, prodVars
<1>3. RingSize' = n - 1 /\ TypeOK'
  BY <1>1, <1>2, AdvanceRead, TypeConsumer DEF Consumer
<1>4. /\ Contents \in Seq(Descriptor) /\ Len(Contents) = n
      /\ \A i \in 1 .. n : Contents[i] = buffers[(read_idx + i - 1) % SIZE]
  BY <1>1, ContentsIs DEF QueueOfSlots
<1>5. /\ Contents' \in Seq(Descriptor) /\ Len(Contents') = n - 1
      /\ \A i \in 1 .. n - 1 : Contents'[i] = buffers[(read_idx' + i - 1) % SIZE]
  <2>1. /\ Contents' \in Seq(Descriptor) /\ Len(Contents') = RingSize'
        /\ \A i \in 1 .. RingSize' : Contents'[i] = buffers'[(read_idx' + i - 1) % SIZE]
    BY <1>3, ContentsNext DEF QueueOfSlots
  <2> HIDE DEF Contents, RingSize
  <2> QED
    BY <2>1, <1>2, <1>3
<1>6. \A i \in Int : (read_idx' + i - 1) % SIZE = (read_idx + (i + 1) - 1) % SIZE
  <2> TAKE i \in Int
  <2>1. (((read_idx + 1) % IdxMod) + (i - 1)) % SIZE = ((read_idx + 1) + (i - 1)) % SIZE
    BY <1>1, WrapTerm
  <2>2. (read_idx + 1) + (i - 1) = read_idx + (i + 1) - 1
    BY <1>1
  <2>3. ((read_idx + 1) % IdxMod) + (i - 1) = read_idx' + i - 1
    <3>1. (read_idx + 1) % IdxMod \in Int
      BY <1>1, RangeFacts
    <3> QED
      BY <1>2, <3>1
  <2> QED
    BY <2>1, <2>2, <2>3
<1>7. Contents # <<>>
  BY <1>1, <1>4, EmptySeq
<1>8. Contents' = Tail(Contents)
  <2> DEFINE q == Contents
             p == Contents'
  <2>1. q \in Seq(Descriptor) /\ p \in Seq(Descriptor) /\ Len(q) = n /\ Len(p) = n - 1
    BY <1>4, <1>5
  <2>2. \A i \in 1 .. n - 1 : p[i] = q[i + 1]
    <3> TAKE i \in 1 .. n - 1
    <3> HIDE DEF q, p, n
    <3>1. i \in Int /\ i + 1 \in 1 .. n
      BY <1>1
    <3>2. p[i] = buffers[(read_idx' + i - 1) % SIZE]
      BY <1>5 DEF p
    <3>3. q[i + 1] = buffers[(read_idx + (i + 1) - 1) % SIZE]
      BY <1>4, <3>1 DEF q
    <3> QED
      BY <1>6, <3>1, <3>2, <3>3
  <2>3. q # <<>>
    BY <1>7
  <2> HIDE DEF q, p, n
  <2>4. /\ Tail(q) \in Seq(Descriptor) /\ Len(Tail(q)) = n - 1
        /\ \A i \in 1 .. n - 1 : Tail(q)[i] = q[i + 1]
    BY <2>1, <2>3, HeadTailProperties
  <2>5. p = Tail(q)
    BY <2>1, <2>2, <2>4, SeqEqual
  <2> QED
    BY <2>5 DEF q, p
<1>9. Head(Contents) = d
  <2>1. 1 \in 1 .. n /\ read_idx + 1 - 1 = read_idx
    BY <1>1
  <2>2. Head(Contents) = Contents[1]
    BY <1>4, <1>7
  <2>3. Contents[1] = buffers[(read_idx + 1 - 1) % SIZE]
    BY <1>4, <2>1
  <2> QED
    BY <2>1, <2>2, <2>3 DEF Slot
<1>10. Deref(deqRet)' = d
  <2>1. r \in Slots
    BY <1>1, SlotInSlots
  <2>2. d \in Descriptor
    BY <1>1, <2>1 DEF TypeOK
  <2>3. /\ reg.encoded_addr = d.encoded_addr /\ reg.len = d.len
        /\ reg.cookie = IF driver THEN r ELSE d.cookie
    BY DEF RInv, Loaded, DequeueAdvance
  <2>4. reg \in Returned
    BY <1>1 DEF TypeOK
  <2> HIDE DEF r
  <2>5. CASE driver
    <3>1. reg.cookie = r
      BY <2>3, <2>5
    <3>2. Deref(deqRet)' = [reg EXCEPT !.cookie = d.cookie]
      BY <1>2, <2>1, <3>1 DEF Deref
    <3> QED
      BY <2>2, <2>3, <2>4, <3>2 DEF Descriptor, Returned
  <2>6. CASE ~driver
    <3>1. reg.cookie = d.cookie /\ d.cookie \notin Slots
      BY <2>2, <2>3, <2>6, WordsAndSlots DEF Descriptor
    <3>2. Deref(deqRet)' = reg
      BY <1>2, <3>1 DEF Deref
    <3> QED
      BY <2>2, <2>3, <2>4, <3>1, <3>2 DEF Descriptor, Returned
  <2> QED
    BY <2>5, <2>6
<1> QED
  BY <1>2, <1>7, <1>8, <1>9, <1>10 DEF Fifo!Dequeue

\* Every step of the ring is a step of the queue, or one it does not show.
LEMMA StepRefines == RInv /\ [Next]_vars => [Fifo!Next]_(Fifo!vars)
<1> SUFFICES ASSUME RInv, [Next]_vars
             PROVE  Fifo!Next \/ UNCHANGED <<Contents, enqRet, Deref(deqRet)>>
  BY DEF Fifo!vars
<1>1. /\ Contents = <<>> <=> RingEmpty
      /\ Len(Contents) = SIZE - 1 <=> RingFull
  BY QueueLength DEF RInv
<1>2. ASSUME UNCHANGED <<write_idx, read_idx, buffers>>
      PROVE  Contents' = Contents /\ (deqRet' = deqRet => Deref(deqRet)' = Deref(deqRet))
  BY <1>2 DEF Contents, Deref, RingSize
<1>3. CASE UNCHANGED vars
  BY <1>2, <1>3 DEF vars, prodVars, consVars
<1>4. CASE EnqueueFull
  <2>1. Fifo!EnqueueFull
    BY <1>1, <1>2, <1>4 DEF EnqueueFull, consVars, Fifo!EnqueueFull
  <2> QED
    BY <2>1 DEF Fifo!Next
<1>5. ASSUME NEW v \in Value, EnqueueStart(v)
      PROVE  UNCHANGED <<Contents, enqRet, Deref(deqRet)>>
  BY <1>2, <1>5 DEF EnqueueStart, consVars
<1>6. CASE EnqueueStore
  BY <1>6, StoreHidden DEF EnqueueStore
<1>7. CASE EnqueueAdvance
  BY <1>7, AdvanceEnqueues DEF Fifo!Next
<1>8. CASE DequeueEmpty
  <2>1. Deref(deqRet)' = Fifo!Desc(None)
    BY <1>8, RangeFacts DEF DequeueEmpty, Deref, Desc, Fifo!Desc, Slots
  <2>2. Fifo!DequeueEmpty
    BY <1>1, <1>2, <1>8, <2>1 DEF DequeueEmpty, prodVars, Fifo!DequeueEmpty
  <2> QED
    BY <2>2 DEF Fifo!Next
<1>9. ASSUME NEW b \in BOOLEAN, DequeueStart(b)
      PROVE  UNCHANGED <<Contents, enqRet, Deref(deqRet)>>
  BY <1>2, <1>9 DEF DequeueStart, prodVars
<1>10. CASE DequeueLoad
  BY <1>2, <1>10 DEF DequeueLoad, Load, LoadCookie, prodVars
<1>11. CASE DequeueAdvance
  BY <1>11, AdvanceDequeues DEF Fifo!Next
<1> QED
  BY <1>3, <1>4, <1>5, <1>6, <1>7, <1>8, <1>9, <1>10, <1>11
     DEF Next, Producer, Consumer

\* The two sides of the ring together are a queue of whole descriptors.
THEOREM RingIsFifo == Spec => ImplementsFifo
<1>1. Init => Fifo!Init
  BY FifoInit
<1>2. RInv /\ [Next]_vars => [Fifo!Next]_(Fifo!vars)
  BY StepRefines
<1> QED
  BY <1>1, <1>2, RInvariance, PTL DEF Spec, ImplementsFifo, Fifo!Spec
===========================================================================
