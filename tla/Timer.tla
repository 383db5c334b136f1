------------------------------- MODULE Timer ------------------------------
(***************************************************************************)
(* The system counter as api/src/timer.c reads it, and ms_delay, the only  *)
(* delay the driver has.  The counter is 64 bits wide and runs on while    *)
(* its words are read one at a time.  get_ticks takes its high word from   *)
(* offset 0x00, which is CNTCR, the control register that                  *)
(* initialise_and_start_timer wrote, and not CNTCV1 at offset 0x0C; the    *)
(* value it composes therefore wraps with the low word.                    *)
(***************************************************************************)
EXTENDS Integers

CONSTANTS WordMod,      \* values of a register (2^32)
          CNTCR,        \* what initialise_and_start_timer leaves in CNTCR
          Delays,       \* delay_ticks callers ask for
          MaxTime       \* bound: ticks of the counter in a behaviour

ASSUME TimerAssumption ==
    /\ WordMod \in Nat \ {0} /\ CNTCR \in 0 .. WordMod - 1
    /\ Delays \subseteq Nat /\ MaxTime \in Nat

VARIABLES
    time,               \* the counter, all 64 bits of it
    tpc,                \* place in get_ticks, or idle
    delay_ticks,        \* ms_delay's argument, in ticks
    target,             \* timer_count_init + delay_ticks, -1 before it is known
    initial_high, low, high,
    ticks,              \* what get_ticks last returned
    called              \* when the delay was asked for

timerVars == <<tpc, delay_ticks, target, initial_high, low, high, ticks, called>>
vars == <<time, timerVars>>

cntcr == 0
cntcv0 == 8

\* Faulty variant: a register read that does not stop at 32 bits.
ReadlWide(offset) == IF offset = cntcr THEN CNTCR ELSE time

\* readl: the registers of struct cntl_reg that get_ticks reads.
Readl(offset) == IF offset = cntcr THEN CNTCR ELSE time % WordMod

Init ==
    /\ time \in 0 .. MaxTime
    /\ tpc = "idle" /\ delay_ticks = 0 /\ target = -1
    /\ initial_high = 0 /\ low = 0 /\ high = 0 /\ ticks = 0 /\ called = 0

\* The counter runs while the code does anything else.
Tick ==
    /\ time < MaxTime
    /\ time' = time + 1
    /\ UNCHANGED timerVars

MsDelay(d) ==
    /\ tpc = "idle"
    /\ delay_ticks' = d
    /\ target' = -1
    /\ called' = time
    /\ tpc' = "initial_high"
    /\ UNCHANGED <<time, initial_high, low, high, ticks>>

ReadInitialHigh ==
    /\ tpc = "initial_high"
    /\ initial_high' = Readl(cntcr)
    /\ tpc' = "low"
    /\ UNCHANGED <<time, delay_ticks, target, low, high, ticks, called>>

ReadLow ==
    /\ tpc = "low"
    /\ low' = Readl(cntcv0)
    /\ tpc' = "high"
    /\ UNCHANGED <<time, delay_ticks, target, initial_high, high, ticks, called>>

\* "get low again if high has ticked over".
ReadHigh ==
    /\ tpc = "high"
    /\ high' = Readl(cntcr)
    /\ low' = IF high' # initial_high THEN Readl(cntcv0) ELSE low
    /\ ticks' = high' * WordMod + low'
    /\ tpc' = IF target = -1 THEN "start" ELSE "compare"
    /\ UNCHANGED <<time, delay_ticks, target, initial_high, called>>

\* timer_count_init + delay_ticks, then the first turn of the loop.
StartDelay ==
    /\ tpc = "start"
    /\ target' = ticks + delay_ticks
    /\ tpc' = "initial_high"
    /\ UNCHANGED <<time, delay_ticks, initial_high, low, high, ticks, called>>

KeepWaiting ==
    /\ tpc = "compare" /\ ticks < target
    /\ tpc' = "initial_high"
    /\ UNCHANGED <<time, delay_ticks, target, initial_high, low, high, ticks, called>>

\* Faulty variant: the loop ends on the start of the delay.
EndDelayAtOnce ==
    /\ tpc = "compare" /\ ticks >= target - delay_ticks
    /\ tpc' = "idle"
    /\ UNCHANGED <<time, delay_ticks, target, initial_high, low, high, ticks, called>>

EndDelay ==
    /\ tpc = "compare" /\ ticks >= target
    /\ tpc' = "idle"
    /\ UNCHANGED <<time, delay_ticks, target, initial_high, low, high, ticks, called>>

Next ==
    \/ Tick
    \/ \E d \in Delays : MsDelay(d)
    \/ ReadInitialHigh \/ ReadLow \/ ReadHigh
    \/ StartDelay \/ KeepWaiting \/ EndDelay

Spec == Init /\ [][Next]_vars

---------------------------------------------------------------------------
(* Properties.                                                             *)

Word == 0 .. WordMod - 1

TypeOK ==
    /\ time \in Nat /\ called \in Nat /\ delay_ticks \in Nat
    /\ tpc \in {"idle", "initial_high", "low", "high", "start", "compare"}
    /\ target \in Nat \cup {-1}
    /\ initial_high \in Word /\ low \in Word /\ high \in Word /\ ticks \in Nat

\* ms_delay never returns early, although the value it compares wraps and
\* its words are read at different times: by the time it returns at least
\* delay_ticks ticks have passed.
NeverEarly == [][EndDelay => time - called >= delay_ticks]_vars

\* timer.c:106 and 108, "cntcv1": the high word counts the wraps of the low
\* word, so that a later call never returns a smaller count.
TicksMonotone == [][ticks' >= ticks]_vars
===========================================================================
