---------------------------- MODULE TimerProofs ----------------------------
(***************************************************************************)
(* ms_delay is never short, for every width of the counter's words, every  *)
(* value left in CNTCR and every delay.                                    *)
(*                                                                         *)
(* The count get_ticks returns is Base plus the low word at some moment.   *)
(* The invariant remembers such a moment for each value the code holds;    *)
(* between two of them the low word grows by no more than time itself      *)
(* (ModGrowth), so a count that has reached the target was sampled at      *)
(* least delay_ticks after the first one.                                  *)
(***************************************************************************)
EXTENDS Timer, TLAPS

\* A remainder grows by no more than the number it is the remainder of.
LEMMA ModGrowth ==
    ASSUME NEW m \in Nat, m > 0, NEW a \in Nat, NEW b \in Nat, a <= b
    PROVE  (b % m) - (a % m) <= b - a
<1> DEFINE q == a \div m
           r == a % m
           p == b \div m
           s == b % m
<1>1. q \in Int /\ r \in 0 .. m - 1 /\ a = m * q + r
  OBVIOUS
<1>2. p \in Int /\ s \in 0 .. m - 1 /\ b = m * p + s
  OBVIOUS
<1> HIDE DEF q, r, p, s
<1>3. p >= q
  <2> SUFFICES ASSUME p + 1 <= q PROVE FALSE
    BY <1>1, <1>2
  <2>1. m * (q - p) >= m
    BY <1>1, <1>2
  <2>2. m * (q - p) = (a - r) - (b - s)
    BY <1>1, <1>2
  <2> QED
    BY <2>1, <2>2, <1>1, <1>2
<1>4. m * (p - q) >= 0
  BY <1>1, <1>2, <1>3
<1>5. m * (p - q) = (b - s) - (a - r)
  BY <1>1, <1>2
<1>6. s - r <= b - a
  BY <1>4, <1>5, <1>1, <1>2
<1> QED
  BY <1>6 DEF r, s

Base == CNTCR * WordMod

\* Reading the low word at time t completes to this count.
CountAt(t) == Base + (t % WordMod)

\* The low word, and the count, of a get_ticks that began no earlier than t.
SampledSince(t) ==
    /\ tpc = "high" => \E s \in t .. time : low = s % WordMod
    /\ tpc \in {"start", "compare"} => \E s \in t .. time : ticks = CountAt(s)

IInv ==
    /\ TypeOK
    /\ called <= time
    /\ tpc \in {"low", "high"} => initial_high = CNTCR
    /\ tpc = "start" => target = -1
    /\ tpc = "compare" => target # -1
    /\ target = -1 => SampledSince(called)
    /\ (target # -1 /\ tpc # "idle") =>
            \E t \in called .. time :
                target = CountAt(t) + delay_ticks /\ SampledSince(t)

\* A word and a count are what their types say.
LEMMA Words ==
    /\ WordMod \in Nat /\ WordMod > 0 /\ CNTCR \in Word /\ Base \in Nat
    /\ \A t \in Nat : t % WordMod \in Word /\ CountAt(t) \in Nat
<1>1. WordMod \in Nat /\ WordMod > 0 /\ CNTCR \in Word
  BY TimerAssumption DEF TimerAssumption, Word
<1>2. Base \in Nat
  BY <1>1 DEF Base, Word
<1>3. \A t \in Nat : t % WordMod \in Word
  BY <1>1 DEF Word
<1> QED
  BY <1>1, <1>2, <1>3 DEF CountAt, Word

\* Of two samples the later one is ahead by no more than the time between.
LEMMA CountGrowth ==
    \A t \in Nat, s \in Nat : t <= s => CountAt(s) - CountAt(t) <= s - t
<1> TAKE t \in Nat, s \in Nat
<1> HAVE t <= s
<1>1. (s % WordMod) - (t % WordMod) <= s - t
  BY Words, ModGrowth
<1>2. s % WordMod \in Int /\ t % WordMod \in Int /\ Base \in Int
  BY Words DEF Word
<1> QED
  BY <1>1, <1>2 DEF CountAt

\* The invariant holds when the driver starts.
LEMMA InitInv == Init => IInv
  BY Words DEF Init, IInv, TypeOK, SampledSince, Word

\* Type correctness is inductive by itself.
LEMMA StepTypes == TypeOK /\ [Next]_vars => TypeOK'
<1> SUFFICES ASSUME TypeOK, [Next]_vars PROVE TypeOK'
  OBVIOUS
<1> USE Words DEF TypeOK, timerVars
<1>1. CASE Tick
  BY <1>1 DEF Tick
<1>2. ASSUME NEW d \in Delays, MsDelay(d) PROVE TypeOK'
  BY <1>2, TimerAssumption DEF MsDelay, TimerAssumption
<1>3. CASE ReadInitialHigh
  BY <1>3 DEF ReadInitialHigh, Readl
<1>4. CASE ReadLow
  BY <1>4 DEF ReadLow, Readl, cntcr, cntcv0
<1>5. CASE ReadHigh
  <2>1. high' \in Word /\ low' \in Word
    BY <1>5 DEF ReadHigh, Readl, cntcr, cntcv0
  <2>2. ticks' \in Nat
    <3>1. \A h \in Nat, w \in Nat, m \in Nat : h * m + w \in Nat
      OBVIOUS
    <3>2. high' \in Nat /\ low' \in Nat
      BY <2>1 DEF Word
    <3> QED
      BY <1>5, <3>1, <3>2 DEF ReadHigh
  <2> QED
    BY <1>5, <2>1, <2>2 DEF ReadHigh
<1>6. CASE StartDelay
  BY <1>6 DEF StartDelay
<1>7. CASE KeepWaiting
  BY <1>7 DEF KeepWaiting
<1>8. CASE EndDelay
  BY <1>8 DEF EndDelay
<1>9. CASE UNCHANGED vars
  BY <1>9 DEF vars
<1> QED
  BY <1>1, <1>2, <1>3, <1>4, <1>5, <1>6, <1>7, <1>8, <1>9 DEF Next

\* Each step keeps the record of when the values held were sampled.
LEMMA StepInv == IInv /\ [Next]_vars => IInv'
<1> SUFFICES ASSUME IInv, [Next]_vars PROVE IInv'
  OBVIOUS
<1>1. TypeOK' /\ TypeOK
  BY StepTypes DEF IInv
<1> USE <1>1, Words DEF IInv, timerVars
<1>2. CASE Tick
  <2>1. time \in Nat /\ time' = time + 1 /\ UNCHANGED timerVars
    BY <1>2 DEF Tick, TypeOK
  <2>2. \A t \in Nat : t .. time \subseteq t .. time'
    BY <2>1
  <2>3. \A t \in Nat : SampledSince(t) => SampledSince(t)'
    BY <2>1, <2>2 DEF CountAt, SampledSince
  <2>4. called \in Nat /\ called .. time \subseteq Nat
    BY DEF TypeOK
  <2>5. (target # -1 /\ tpc # "idle") =>
            \E t \in called .. time' : target = CountAt(t) + delay_ticks /\ SampledSince(t)'
    BY <2>2, <2>3, <2>4
  <2>6. (target # -1 /\ tpc # "idle")' =>
            \E t \in called' .. time' :
                (target = CountAt(t) + delay_ticks)' /\ SampledSince(t)'
    BY <2>1, <2>5 DEF CountAt, Base
  <2>7. (target = -1)' => SampledSince(called)'
    BY <2>1, <2>2, <2>4 DEF SampledSince, CountAt
  <2> QED
    BY <2>1, <2>4, <2>6, <2>7
<1>3. ASSUME NEW d \in Delays, MsDelay(d) PROVE IInv'
  BY <1>3 DEF MsDelay, TypeOK, SampledSince
<1>4. CASE ReadInitialHigh
  BY <1>4 DEF ReadInitialHigh, Readl, TypeOK, SampledSince
<1>5. CASE ReadLow
  <2>1. /\ low' = time % WordMod /\ tpc' = "high" /\ tpc = "low"
        /\ UNCHANGED <<time, delay_ticks, target, initial_high, called>>
    BY <1>5 DEF ReadLow, Readl, cntcr, cntcv0
  <2>2. \A t \in Nat : t <= time => SampledSince(t)'
    BY <2>1 DEF TypeOK, SampledSince
  <2>3. target = -1 => SampledSince(called)'
    BY <2>1, <2>2 DEF TypeOK
  <2>4. target # -1 => \E t \in called .. time :
                            target = CountAt(t) + delay_ticks /\ SampledSince(t)'
    <3> SUFFICES ASSUME target # -1
                 PROVE  \E t \in called .. time :
                            target = CountAt(t) + delay_ticks /\ SampledSince(t)'
      OBVIOUS
    <3>1. PICK t \in called .. time : target = CountAt(t) + delay_ticks
      BY <2>1
    <3>2. t \in Nat /\ t <= time
      BY <3>1 DEF TypeOK
    <3> QED
      BY <2>2, <3>1, <3>2
  <2> QED
    BY <2>1, <2>3, <2>4 DEF CountAt
<1>6. CASE ReadHigh
  BY <1>6 DEF ReadHigh, Readl, cntcr, cntcv0, TypeOK, CountAt, Base, SampledSince
<1>7. CASE StartDelay
  BY <1>7 DEF StartDelay, TypeOK, SampledSince
<1>8. CASE KeepWaiting
  BY <1>8 DEF KeepWaiting, TypeOK, SampledSince
<1>9. CASE EndDelay
  BY <1>9 DEF EndDelay, TypeOK, SampledSince
<1>10. CASE UNCHANGED vars
  BY <1>10 DEF vars, TypeOK, SampledSince
<1> QED
  BY <1>2, <1>3, <1>4, <1>5, <1>6, <1>7, <1>8, <1>9, <1>10 DEF Next

\* The count has reached the target only if delay_ticks ticks have passed.
LEMMA EndOnTime == IInv /\ EndDelay => time - called >= delay_ticks
<1> SUFFICES ASSUME IInv, EndDelay PROVE time - called >= delay_ticks
  OBVIOUS
<1>1. PICK t \in called .. time :
          target = CountAt(t) + delay_ticks /\ SampledSince(t)
  BY DEF IInv, EndDelay
<1>2. PICK s \in t .. time : ticks = CountAt(s)
  BY <1>1 DEF SampledSince, EndDelay
<1>3. /\ t \in Nat /\ s \in Nat /\ t <= s /\ called <= t /\ s <= time
      /\ time \in Nat /\ called \in Nat /\ delay_ticks \in Nat
      /\ CountAt(t) \in Nat /\ CountAt(s) \in Nat
  BY <1>1, <1>2, Words DEF IInv, TypeOK
<1>4. CountAt(s) >= CountAt(t) + delay_ticks
  BY <1>1, <1>2 DEF EndDelay
<1>5. CountAt(s) - CountAt(t) <= s - t
  BY <1>3, CountGrowth
<1> QED
  BY <1>3, <1>4, <1>5

\* It holds throughout.
LEMMA Invariance == Spec => []IInv
  BY InitInv, StepInv, PTL DEF Spec

\* Register values keep their width, counts are naturals.
THEOREM TypeCorrect == Spec => []TypeOK
<1>1. IInv => TypeOK
  BY DEF IInv
<1> QED
  BY <1>1, Invariance, PTL

\* ms_delay is never short, although get_ticks wraps with its low word.
THEOREM DelayNeverEarly == Spec => NeverEarly
<1>1. IInv /\ [Next]_vars => [EndDelay => time - called >= delay_ticks]_vars
  BY EndOnTime
<1> QED
  BY <1>1, Invariance, PTL DEF Spec, NeverEarly
===========================================================================
