---------------------------- MODULE LineEditor ----------------------------
(***************************************************************************)
(* What the prompt of the shell promises: the line under the cursor is the *)
(* characters typed, in their places, and it is the line that Return runs. *)
(* ShellConsole implements this on a C string with a length and a cursor.  *)
(***************************************************************************)
EXTENDS Sequences, SequencesExt

CONSTANTS Char,         \* what can be typed
          NUL           \* what is left where a line was cut

VARIABLES before,       \* the line up to the cursor
          after,        \* the line from the cursor on
          executed      \* the last line that was run

vars == <<before, after, executed>>

Init == before = <<>> /\ after = <<>> /\ executed = <<>>

Type(c) ==
    /\ before' = Append(before, c)
    /\ UNCHANGED <<after, executed>>

BackSpace ==
    /\ before # <<>> /\ before' = Front(before)
    /\ UNCHANGED <<after, executed>>

Left ==
    /\ before # <<>> /\ before' = Front(before)
    /\ after' = <<Last(before)>> \o after
    /\ UNCHANGED executed

Right ==
    /\ after # <<>> /\ after' = Tail(after)
    /\ before' = Append(before, Head(after))
    /\ UNCHANGED executed

\* A line in which characters were cut out.
IsCut(t, s) == /\ DOMAIN t = DOMAIN s
               /\ \A n \in DOMAIN s : t[n] \in {s[n], NUL}

\* The line is run as it stands, and nothing has been cut out of it; a test that
\* takes over the keyboard, or an error, may leave it at the prompt in pieces.
Return ==
    /\ before \o after # <<>>
    /\ executed' = before \o after /\ \A n \in DOMAIN executed' : executed'[n] # NUL
    /\ \/ before' = <<>> /\ after' = <<>>
       \/ IsCut(before', before) /\ IsCut(after', after)

\* A line of the history takes its place, with the cursor at its end.
Recall ==
    /\ after' = <<>>
    /\ UNCHANGED executed

Next ==
    \/ \E c \in Char : Type(c)
    \/ BackSpace
    \/ Left
    \/ Right
    \/ Return
    \/ Recall

Spec == Init /\ [][Next]_vars
===========================================================================
