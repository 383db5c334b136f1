--------------------------- MODULE InputEvents ----------------------------
(***************************************************************************)
(* Reports of a keyboard, mouse or touchscreen on their way from           *)
(* software_interrupt to the client: the interrupt pipe's callback puts    *)
(* each in the device's used_ring and notifies the client's channel, and   *)
(* the client's handler dequeues in a loop.  Notifications coalesce, so    *)
(* the loop must not stop while the ring holds a report.                   *)
(*                                                                         *)
(* One device and its ring are followed.  The ring is the abstract one of  *)
(* RingFifo, which SharedRing implements.  The client is that of           *)
(* examples/empty-client, which drains the rings of keyboard and mouse and *)
(* leaves the touchscreen's alone, or the shell (examples/shell/shell.c),  *)
(* which looks at its console_state before it drains a ring, and whose     *)
(* handle_keypress leaves its loop on a report of StopsOn: "too many keys" *)
(* and "all keys released".                                                *)
(***************************************************************************)
EXTENDS Integers, Sequences

CONSTANTS Capacity,     \* reports the used_ring holds
          Report,       \* kinds of report
          StopsOn,      \* reports on which the shell leaves its loop
          MaxReports,   \* bound: reports the device makes
          None

ASSUME InputEventsAssumption ==
    /\ Capacity \in Nat \ {0} /\ MaxReports \in Nat
    /\ StopsOn \subseteq Report /\ None \notin Report

VARIABLES client,       \* whose handler runs: empty_client, shell
          device,       \* whose ring it is: keyboard, mouse, touchscreen
          console_state,    \* of the shell
          used_ring,    \* reports enqueued and not yet dequeued
          enqRet,       \* result of the last enqueue_used
          buffer,       \* what the client's last dequeue returned
          made,         \* reports made by the device so far
          callback,          \* software_interrupt: idle, notify
          pending,      \* notification bit on the client's channel
          cpc,          \* client: wait, drain
          left          \* of the reports in the ring, those that were there
                        \* when the client last turned away from it (auxiliary)

fixed == <<client, device>>
inputVars == <<fixed, console_state, used_ring, enqRet, buffer, made, callback, pending,
               cpc, left>>

Ring == INSTANCE RingFifo WITH
            Value <- Report, queue <- used_ring, deqRet <- buffer

\* Reports on which the client's handler leaves its loop.
Stops == IF client = "shell" /\ device = "keyboard" THEN StopsOn ELSE {}

\* Whether the client goes to the ring when it is notified.
Listens ==
    \/ device = "mouse"
    \/ device = "keyboard" /\ (client = "shell" => console_state # "DISABLED")
    \/ device = "touchscreen" /\ client = "shell" /\ console_state = "UTS_TEST"

States == {"CONSOLE", "SNAKE", "MOUSE_TEST", "KEYBOARD_TEST", "UTS_TEST", "DISABLED"}

\* The states that a key may leave the console in: the last one of a command, or
\* Control and c in the mouse test.
Keyed(s) == {t \in States : t = s \/ s = "CONSOLE" \/ (s = "MOUSE_TEST" /\ t = "CONSOLE")}

InputInit ==
    /\ client \in {"empty_client", "shell"} /\ Ring!Init
    /\ device \in {"keyboard", "mouse", "touchscreen"} /\ console_state = "CONSOLE"
    /\ made = 0 /\ callback = "idle" /\ pending = FALSE /\ cpc = "wait" /\ left = 0

\* The pipe's callback enqueues the report; a full ring drops it.
DeviceReport(r) ==
    /\ callback = "idle" /\ made < MaxReports
    /\ \/ Ring!Enqueue(r)
       \/ Ring!EnqueueFull
    /\ made' = made + 1
    /\ callback' = "notify"
    /\ UNCHANGED <<fixed, console_state, pending, cpc, left>>

NotifyClient ==
    /\ callback = "notify"
    /\ pending' = TRUE
    /\ callback' = "idle"
    /\ UNCHANGED <<fixed, console_state, used_ring, enqRet, buffer, made, cpc, left>>

\* notified: KEYBOARD_EVENT, MOUSE_EVENT or TOUCHSCREEN_EVENT, for a handler
\* that goes to the ring.
ClientWake ==
    /\ cpc = "wait" /\ pending /\ Listens
    /\ pending' = FALSE
    /\ cpc' = "drain"
    /\ UNCHANGED <<fixed, console_state, used_ring, enqRet, buffer, made, callback, left>>

\* The notification is taken and the ring left as it is: a touchscreen event in
\* empty-client, or in a shell that is not in the test; a disabled keyboard.
ClientPasses ==
    /\ cpc = "wait" /\ pending /\ ~Listens
    /\ pending' = FALSE
    /\ left' = Len(used_ring)
    /\ UNCHANGED <<fixed, console_state, used_ring, enqRet, buffer, made, callback, cpc>>

\* A report taken out is one of those left before, while there are any.
OneLess == IF left > 0 THEN left - 1 ELSE 0

\* Faulty variant: if where the code has while.
HandleReportOnce ==
    /\ cpc = "drain"
    /\ Ring!Dequeue
    /\ cpc' = "wait" /\ left' = OneLess
    /\ UNCHANGED <<fixed, console_state, made, callback, pending>>

\* One turn of while (!dequeue_used(...)).  A key may change the console.
HandleReport ==
    /\ cpc = "drain"
    /\ Ring!Dequeue
    /\ \/ /\ buffer'.encoded_addr \in Stops
          /\ cpc' = "wait" /\ left' = Len(used_ring')
          /\ UNCHANGED console_state
       \/ /\ buffer'.encoded_addr \notin Stops
          /\ cpc' = "drain" /\ left' = OneLess
          /\ IF client = "shell" /\ device = "keyboard"
               THEN console_state' \in Keyed(console_state)
               ELSE UNCHANGED console_state
    /\ UNCHANGED <<fixed, made, callback, pending>>

LeaveLoop ==
    /\ cpc = "drain"
    /\ Ring!DequeueEmpty
    /\ cpc' = "wait" /\ left' = 0
    /\ UNCHANGED <<fixed, console_state, made, callback, pending>>

\* The shell handles a notification of another channel: the game is over, or,
\* when the ring is not the keyboard's, a key.
ConsoleTurns ==
    /\ client = "shell" /\ cpc = "wait"
    /\ \/ console_state = "SNAKE" /\ console_state' = "CONSOLE"
       \/ device # "keyboard" /\ console_state' \in Keyed(console_state)
    /\ UNCHANGED <<fixed, used_ring, enqRet, buffer, made, callback, pending, cpc, left>>

Driver == (\E r \in Report : DeviceReport(r)) \/ NotifyClient

Client == ClientWake \/ ClientPasses \/ HandleReport \/ LeaveLoop

InputNext == Driver \/ Client \/ ConsoleTurns

InputSpec == InputInit /\ [][InputNext]_inputVars

\* The client runs when the driver's domains are waiting; a callback that
\* has enqueued a report goes on to notify.
InputFairness == WF_inputVars(NotifyClient) /\ WF_inputVars(Client)

InputFairSpec == InputSpec /\ InputFairness

---------------------------------------------------------------------------
(* Properties.                                                             *)

\* The type invariant; the ring never holds more reports than it has room for.
InputTypeOK ==
    /\ client \in {"empty_client", "shell"}
    /\ device \in {"keyboard", "mouse", "touchscreen"} /\ console_state \in States
    /\ Len(used_ring) <= Capacity
    /\ made \in 0 .. MaxReports
    /\ callback \in {"idle", "notify"} /\ pending \in BOOLEAN
    /\ cpc \in {"wait", "drain"} /\ left \in 0 .. Len(used_ring)
    /\ buffer \in {Ring!Desc(r) : r \in Report \cup {None}}

\* A report that came after the client last turned away from the ring has a
\* notification under way or a client at work on the ring.  Those it turned
\* away from are stranded until the next report; that happens to a shell that
\* stopped on a report or whose keyboard is disabled, and to touchscreens, and
\* to no other client.
NoStrandedReport ==
    /\ Len(used_ring) > left => pending \/ cpc = "drain" \/ callback = "notify"
    /\ left > 0 => \/ cpc = "drain" \/ buffer.encoded_addr \in Stops
                   \/ ~Listens \/ device = "touchscreen"

\* A client that listens and does not stop on a report sees all there are when
\* one has come in: both clients of a mouse, empty-client of a keyboard, and the
\* shell of a touchscreen once it is in the test.
ReportsConsumed ==
    (callback = "notify" /\ Listens /\ Stops = {}) ~> (used_ring = <<>>)
===========================================================================
