------------------------ MODULE ShellConsoleProofs ------------------------
(***************************************************************************)
(* What the prompt shows is what it runs, the history is consistent and    *)
(* the keyboard has one owner, until the shell leaves one of its arrays or *)
(* follows a null pointer; for arrays of any size.                         *)
(*                                                                         *)
(* The line is a C string with a length and a cursor of its own.  A step   *)
(* on it is described slot by slot, and two lines are compared character   *)
(* by character (SeqEqual).  That no NUL is in a line which can be edited  *)
(* rests on three things: kbdtest, which leaves one that is cut, leaves    *)
(* CONSOLE with it; no notification of the game brings CONSOLE back then   *)
(* (GameOwnsKeyboard); and a recalled line ends at the first NUL, which is *)
(* not before the end of the entry (CopyFacts).                            *)
(***************************************************************************)
EXTENDS ShellConsole, SequenceTheorems, WellFoundedInduction, TLAPS

\* Entries are put down one by one.
EntriesOK ==
    /\ history \in [0 .. CmdHistory - 1 -> Seq(Char) \cup {None}]
    /\ \A h \in 0 .. CmdHistory - 1 : h > cmd_hist => history[h] = None
    /\ mousetests \subseteq 0 .. cmd_hist

\* The game is asked for, played, or over, but not two of these at a time.
OneGame ==
    /\ ~ (toSnake /\ snake = "play")
    /\ ~ (toSnake /\ toShell)
    /\ ~ (snake = "play" /\ toShell)

---------------------------------------------------------------------------
(* Strings in the buffer.                                                  *)

\* What may be in the buffer, and the first n characters of it.
CharOrNUL == Char \cup {NUL}
Buffer == [Slots -> CharOrNUL]
LineOf(s, n) == [k \in 1 .. n |-> s[k - 1]]

\* The bounds as numbers.
LEMMA Bounds ==
    /\ CmdLimit \in Nat /\ CmdLimit >= 1 /\ CmdHistory \in Nat /\ MaxGarbage \in Nat
    /\ Slots = 0 .. CmdLimit - 1 /\ 0 \in Slots
    /\ NUL \notin Char /\ None \notin Seq(Char)
    /\ Char \subseteq CharOrNUL /\ NUL \in CharOrNUL
    /\ \A c \in CharOrNUL : c # NUL => c \in Char
BY ShellConsoleAssumption DEF ShellConsoleAssumption, Slots, CharOrNUL

\* A set of slots that is not empty has a smallest element.
LEMMA SmallestIs ==
    ASSUME NEW S \in SUBSET Slots, S # {}
    PROVE  Smallest(S) \in S /\ \A m \in S : Smallest(S) <= m
<1> DEFINE Less == {ss \in Nat \X Nat : ss[1] < ss[2]}
<1>1. S \subseteq Nat
  BY Bounds
<1>2. \A m, n \in Nat : ~ (<<m, n>> \in Less) => n <= m
  OBVIOUS
<1>3. IsWellFoundedOn(Less, Nat)
  BY NatLessThanWellFounded, Zenon DEF OpToRel
<1> HIDE DEF Less
<1>4. PICK t \in S : \A u \in S : ~ (<<u, t>> \in Less)
  BY <1>1, <1>3, WFMin
<1>5. \A u \in S : t <= u
  BY <1>1, <1>2, <1>4
<1> QED
  BY <1>4, <1>5, Zenon DEF Smallest

\* strlen finds the first NUL.
LEMMA StrLenIs ==
    ASSUME NEW s \in Buffer, Ends(s)
    PROVE  /\ StrLen(s) \in Slots /\ s[StrLen(s)] = NUL
           /\ \A n \in Slots : n < StrLen(s) => s[n] # NUL
<1> DEFINE S == {n \in Slots : s[n] = NUL}
<1>1. S \in SUBSET Slots /\ S # {}
  BY DEF Ends
<1>2. Smallest(S) \in S /\ \A m \in S : Smallest(S) <= m
  <2> HIDE DEF S
  <2> QED
    BY <1>1, SmallestIs
<1>3. StrLen(s) = Smallest(S)
  BY DEF StrLen
<1>4. \A n \in Slots : n < Smallest(S) => n \notin S
  <2> DEFINE t == Smallest(S)
  <2>1. t \in Slots /\ \A m \in S : t <= m
    BY <1>2
  <2> HIDE DEF t, S
  <2>2. \A n \in Slots : n < t => n \notin S
    BY <2>1, Bounds
  <2> QED
    BY <2>2 DEF t
<1> QED
  BY <1>2, <1>3, <1>4

\* After strncpy of an entry that fits, the string that is there begins with the
\* entry, and it is no longer if there was a NUL behind it.
LEMMA CopyFacts ==
    ASSUME NEW s \in Buffer, NEW str \in Seq(Char), Len(str) <= CmdLimit,
           Ends(Copy(s, str))
    PROVE  /\ Copy(s, str) \in Buffer
           /\ \A n \in Slots : n < Len(str) => Copy(s, str)[n] = str[n + 1]
           /\ Len(str) <= StrLen(Copy(s, str))
           /\ Len(str) < CmdLimit /\ s[Len(str)] = NUL => StrLen(Copy(s, str)) = Len(str)
<1> DEFINE c == Copy(s, str)
<1>1. Len(str) \in Nat /\ \A n \in Slots : n < Len(str) => str[n + 1] \in Char
  BY Bounds, LenProperties, ElementOfSeq
<1>2. c \in Buffer
  BY <1>1, Bounds DEF Copy, Buffer
<1>3. \A n \in Slots : n >= Len(str) => c[n] = s[n]
  BY <1>1, Bounds DEF Copy
<1>4. \A n \in Slots : n < Len(str) => c[n] = str[n + 1]
  BY DEF Copy
<1>5. Ends(c)
  OBVIOUS
<1> HIDE DEF c
<1>6. /\ StrLen(c) \in Slots /\ c[StrLen(c)] = NUL
      /\ \A n \in Slots : n < StrLen(c) => c[n] # NUL
  BY <1>2, <1>5, StrLenIs
<1>7. Len(str) <= StrLen(c)
  <2> SUFFICES ASSUME StrLen(c) < Len(str) PROVE FALSE
    BY <1>1, <1>6, Bounds
  <2>1. c[StrLen(c)] = str[StrLen(c) + 1] /\ str[StrLen(c) + 1] \in Char
    BY <1>1, <1>4, <1>6
  <2> QED
    BY <2>1, <1>6, Bounds
<1>8. Len(str) < CmdLimit /\ s[Len(str)] = NUL => StrLen(c) = Len(str)
  <2> SUFFICES ASSUME Len(str) < CmdLimit, s[Len(str)] = NUL, Len(str) < StrLen(c)
               PROVE  FALSE
    BY <1>1, <1>6, <1>7, Bounds
  <2>1. Len(str) \in Slots
    BY <1>1, Bounds
  <2>2. c[Len(str)] = NUL
    BY <1>1, <1>3, <2>1
  <2> QED
    BY <1>6, <2>1, <2>2
<1> QED
  BY <1>2, <1>4, <1>7, <1>8 DEF c

\* The first n characters of a buffer, and when none of them is NUL.
LEMMA LineOfIs ==
    ASSUME NEW s \in Buffer, NEW n \in 0 .. CmdLimit
    PROVE  /\ LineOf(s, n) \in Seq(CharOrNUL) /\ Len(LineOf(s, n)) = n
           /\ \A k \in 1 .. n : LineOf(s, n)[k] = s[k - 1]
           /\ (\A k \in Slots : k < n => s[k] # NUL) => LineOf(s, n) \in Seq(Char)
<1>1. \A k \in 1 .. n : k - 1 \in Slots /\ k - 1 < n /\ s[k - 1] \in CharOrNUL
  BY Bounds DEF Buffer
<1>2. LineOf(s, n) \in [1 .. n -> CharOrNUL]
  BY <1>1 DEF LineOf
<1>3. n \in Nat
  BY Bounds
<1>4. (\A k \in Slots : k < n => s[k] # NUL) => LineOf(s, n) \in [1 .. n -> Char]
  BY <1>1, Bounds DEF LineOf
<1> QED
  BY <1>2, <1>3, <1>4, SeqDef DEF LineOf

---------------------------------------------------------------------------
(* The inductive invariant.                                                *)

\* The part of the types that is about the line, and the rest.
LineOK ==
    /\ cmd \in Buffer
    /\ cmd_len \in 0 .. CmdLimit /\ cursor_index \in 0 .. cmd_len
    /\ Running /\ console_state # "KEYBOARD_TEST"
          => \A k \in Slots : k < cmd_len => cmd[k] # NUL

States == {"CONSOLE", "DISABLED", "UTS_TEST", "SNAKE", "MOUSE_TEST", "KEYBOARD_TEST"}
Faults == {"none", "no_entry", "no_word", "overrun"}

OthersOK ==
    /\ console_state \in States
    /\ cmd_hist \in Int /\ cmd_hist >= -1
    /\ fault \in Faults
    /\ toSnake \in BOOLEAN /\ snake \in {"wait", "play"} /\ toShell \in BOOLEAN

\* The commands and the state that each leaves the console in.
LEMMA StateAfterIs ==
    /\ StateAfter["other"] = "CONSOLE" /\ StateAfter["disable"] = "DISABLED"
    /\ StateAfter["getdev"] = "CONSOLE" /\ StateAfter["fatwrite"] = "CONSOLE"
    /\ StateAfter["utstest"] = "UTS_TEST" /\ StateAfter["snake"] = "SNAKE"
    /\ StateAfter["mousetest"] = "MOUSE_TEST" /\ StateAfter["kbdtest"] = "KEYBOARD_TEST"
    /\ {StateAfter[command] : command \in DOMAIN StateAfter} = States
BY DEF StateAfter, States

\* With the entries they are the type invariant.
LEMMA TypesFollow == LineOK /\ OthersOK /\ EntriesOK => TypeOK
<1> SUFFICES ASSUME LineOK, OthersOK, EntriesOK PROVE TypeOK
  OBVIOUS
<1>1. \A h \in DOMAIN history : history[h] = None \/ history[h] \in Seq(Char)
  BY DEF EntriesOK
<1>2. Running /\ console_state # "KEYBOARD_TEST" => \A n \in DOMAIN Line : Line[n] # NUL
  <2> SUFFICES ASSUME Running, console_state # "KEYBOARD_TEST", NEW n \in 1 .. cmd_len
               PROVE  cmd[n - 1] # NUL
    BY DEF Line
  <2>1. n - 1 \in Slots /\ n - 1 < cmd_len
    BY Bounds DEF LineOK
  <2> QED
    BY <2>1 DEF LineOK
<1> QED
  BY <1>1, <1>2, StateAfterIs, Zenon DEF TypeOK, LineOK, OthersOK, Buffer, CharOrNUL, Faults

---------------------------------------------------------------------------
(* Steps on the line.                                                      *)

\* A recalled entry is at the head of the line, the cursor at its end.
LEMMA RecallFacts ==
    ASSUME LineOK, EntriesOK, NEW h \in Nat, Recall(h), Recallable(h), Running
    PROVE  /\ cmd' \in Buffer /\ cmd_len' \in 0 .. CmdLimit /\ cursor_index' \in 0 .. cmd_len'
           /\ \A k \in Slots : k < cmd_len' => cmd'[k] # NUL
           /\ cursor_index' = cmd_len' /\ fault' = fault
           /\ IsPrefix(history[h], Line')
           /\ Len(history[h]) < CmdLimit /\ cmd[Len(history[h])] = NUL
                => cmd_len' = Len(history[h])
<1> DEFINE str == history[h]
           c == Copy(cmd, str)
<1>1. str \in Seq(Char) /\ Len(str) <= CmdLimit /\ Ends(c)
  <2>1. h \in 0 .. CmdHistory - 1
    BY Bounds DEF Recallable
  <2> QED
    BY <2>1 DEF EntriesOK, Recallable
<1>2. /\ c \in Buffer /\ Len(str) <= StrLen(c)
      /\ \A n \in Slots : n < Len(str) => c[n] = str[n + 1]
      /\ Len(str) < CmdLimit /\ cmd[Len(str)] = NUL => StrLen(c) = Len(str)
  BY <1>1, CopyFacts DEF LineOK
<1>3. cmd' = c /\ cursor_index' = StrLen(c) /\ cmd_len' = StrLen(c) /\ fault' = fault
  BY DEF Recall
<1> HIDE DEF c
<1>4. /\ StrLen(c) \in 0 .. CmdLimit /\ \A n \in Slots : n < StrLen(c) => c[n] # NUL
      /\ StrLen(c) \in 0 .. StrLen(c)
  BY <1>1, <1>2, StrLenIs, Bounds
<1>6. IsPrefix(str, Line')
  <2> DEFINE t == LineOf(c, StrLen(c))
  <2>1. /\ t \in Seq(Char) /\ Len(t) = StrLen(c)
        /\ \A k \in 1 .. StrLen(c) : t[k] = c[k - 1]
    BY <1>2, <1>4, LineOfIs
  <2>2. Line' = t
    BY <1>3 DEF Line, LineOf
  <2> HIDE DEF t, str
  <2>3. Len(str) \in Nat /\ Len(t) \in Nat /\ Len(str) <= Len(t)
    BY <1>1, <1>2, <2>1, LenProperties
  <2>4. \A i \in 1 .. Len(str) : str[i] \in Char /\ t[i] \in Char
    BY <1>1, <2>1, <2>3, ElementOfSeq
  <2>5. \A i \in 1 .. Len(str) : t[i] = str[i]
    <3> TAKE i \in 1 .. Len(str)
    <3>1. i - 1 \in Slots /\ i - 1 < Len(str) /\ i \in 1 .. StrLen(c) /\ (i - 1) + 1 = i
      BY <1>1, <1>2, <1>4, <2>3, Bounds
    <3>2. c[i - 1] = str[(i - 1) + 1]
      BY <1>2, <3>1
    <3> QED
      BY <2>1, <3>1, <3>2
  <2> DEFINE p == SubSeq(str, 1, Len(str))
             q == SubSeq(t, 1, Len(str))
  <2>6. p \in Seq(Char) /\ Len(p) = Len(str) /\ \A i \in 1 .. Len(str) : p[i] = str[i]
    BY <2>3, <2>4, SubSeqProperties
  <2>7. q \in Seq(Char) /\ Len(q) = Len(str) /\ \A i \in 1 .. Len(str) : q[i] = t[i]
    BY <2>3, <2>4, SubSeqProperties
  <2> HIDE DEF p, q
  <2>8. p = q
    BY <2>5, <2>6, <2>7, SeqEqual
  <2> QED
    BY <2>2, <2>3, <2>8 DEF IsPrefix, p, q
<1> QED
  BY <1>2, <1>3, <1>4, <1>6 DEF str

IInv == LineOK /\ OthersOK /\ EntriesOK /\ HistoryMatches /\ GameOwnsKeyboard /\ OneGame

\* The keys and the wheel that go through the history: an entry comes up, or the
\* program ends on one that mousetest took up or that does not fit, or the
\* prompt is empty.
LEMMA ScrollFacts ==
    ASSUME IInv, Running, NEW direction \in {-1, 1}, scroll_hist(direction)
    PROVE  /\ LineOK' /\ fault' \in Faults /\ cmd_hist_cursor' \in 0 .. cmd_hist + 1
           /\ IF Running'
                THEN /\ cursor_index' = cmd_len'
                     /\ cmd_hist_cursor' \in 0 .. cmd_hist
                           => LET entry == history[cmd_hist_cursor']
                              IN  /\ IsPrefix(entry, Line')
                                  /\ Len(entry) < CmdLimit /\ cmd[Len(entry)] = NUL
                                        => cmd_len' = Len(entry)
                ELSE UNCHANGED lineVars
           /\ fault' = "no_entry" => cmd_hist_cursor' \in mousetests
           /\ UNCHANGED <<console_state, history, cmd_hist, mousetests, executed, gameVars>>
<1> DEFINE h == cmd_hist_cursor + direction
<1>1. /\ UNCHANGED <<console_state, history, cmd_hist, mousetests, executed, gameVars>>
      /\ IF h \in 0 .. cmd_hist THEN Recall(h) ELSE EmptyPrompt
  BY DEF scroll_hist
<1>2. cmd_hist \in Int /\ cmd_hist >= -1 /\ cmd_hist_cursor \in 0 .. cmd_hist + 1
  BY DEF IInv, OthersOK, HistoryMatches
<1>3. CASE h \in 0 .. cmd_hist /\ ~ Recallable(h)
  <2>1. cmd_hist_cursor' = h /\ RecallFails(h)
    BY <1>1, <1>3 DEF Recall
  <2>2. /\ fault' \in {"no_entry", "overrun"} /\ UNCHANGED lineVars
        /\ fault' = "no_entry" => h < CmdHistory /\ history[h] = None
    BY <2>1 DEF RecallFails, Fail
  <2>3. fault' = "no_entry" => h \in mousetests
    BY <1>3, <2>2 DEF IInv, HistoryMatches
  <2>4. ~ Running' /\ fault' \in Faults
    BY <2>2 DEF Running, Faults
  <2>5. LineOK'
    BY <2>2, <2>4 DEF IInv, LineOK, lineVars
  <2>6. h \in 0 .. cmd_hist + 1
    BY <1>2, <1>3
  <2> QED
    BY <1>1, <2>1, <2>2, <2>3, <2>4, <2>5, <2>6
<1>4. CASE h \in 0 .. cmd_hist /\ Recallable(h)
  <2>1. Recall(h) /\ cmd_hist_cursor' = h
    BY <1>1, <1>4 DEF Recall
  <2>2. h \in Nat /\ h \in 0 .. cmd_hist + 1
    BY <1>2, <1>4
  <2>3. /\ cmd' \in Buffer /\ cmd_len' \in 0 .. CmdLimit /\ cursor_index' \in 0 .. cmd_len'
        /\ \A k \in Slots : k < cmd_len' => cmd'[k] # NUL
        /\ cursor_index' = cmd_len' /\ fault' = fault
        /\ IsPrefix(history[h], Line')
        /\ Len(history[h]) < CmdLimit /\ cmd[Len(history[h])] = NUL
             => cmd_len' = Len(history[h])
    <3> HIDE DEF h
    <3> QED
      BY <1>4, <2>1, <2>2, RecallFacts DEF IInv
  <2>4. LineOK'
    BY <2>3 DEF LineOK
  <2>5. fault' \in Faults /\ fault' # "no_entry" /\ Running'
    BY <2>3 DEF Running, Faults
  <2> QED
    BY <1>1, <2>1, <2>2, <2>3, <2>4, <2>5
<1>5. CASE h \notin 0 .. cmd_hist
  <2>1. /\ cmd_hist_cursor' = cmd_hist + 1
        /\ cmd' = [cmd EXCEPT ![0] = NUL] /\ cursor_index' = 0 /\ cmd_len' = 0
        /\ fault' = fault
    BY <1>1, <1>5 DEF EmptyPrompt
  <2>2. LineOK'
    BY <2>1, Bounds DEF IInv, LineOK, Buffer
  <2>3. cmd_hist + 1 \in 0 .. cmd_hist + 1 /\ cmd_hist + 1 \notin 0 .. cmd_hist
    BY <1>2
  <2>4. fault' \in Faults /\ fault' # "no_entry" /\ Running'
    BY <2>1 DEF Running, Faults
  <2> QED
    BY <1>1, <2>1, <2>2, <2>3, <2>4
<1> QED
  BY <1>3, <1>4, <1>5

\* Typing and deleting keep a line without a NUL in it inside the buffer.
LEMMA EditKeepsLine ==
    ASSUME LineOK, (\E c \in Char : TypeChar(c)) \/ BackSpace \/ CursorLeft \/ CursorRight
    PROVE  LineOK'
<1> USE Bounds DEF Buffer
<1>1. /\ cmd \in Buffer /\ cmd_len \in 0 .. CmdLimit /\ cursor_index \in 0 .. cmd_len
      /\ \A k \in Slots : k < cmd_len => cmd[k] # NUL
  BY DEF LineOK, TypeChar, BackSpace, CursorLeft, CursorRight, Editing
<1>2. ASSUME NEW c \in Char, TypeChar(c) PROVE LineOK'
  <2>1. /\ cursor_index < CmdLimit /\ (cursor_index # cmd_len => cmd_len + 1 < CmdLimit)
        /\ cmd' = [n \in Slots |->
                      IF n = cursor_index THEN c
                      ELSE IF n \in cursor_index + 1 .. cmd_len + 1 /\ cursor_index # cmd_len
                             THEN cmd[n - 1] ELSE cmd[n]]
        /\ cursor_index' = cursor_index + 1 /\ cmd_len' = cmd_len + 1
    BY <1>2 DEF TypeChar
  <2>2. cmd_len' \in 0 .. CmdLimit /\ cursor_index' \in 0 .. cmd_len'
    BY <1>1, <2>1
  <2>3. \A n \in Slots : n \in cursor_index + 1 .. cmd_len + 1 => n - 1 \in Slots
    BY <1>1
  <2>4. cmd' \in Buffer
    BY <1>1, <2>1, <2>3
  <2>5. \A k \in Slots : k < cmd_len + 1 => cmd'[k] # NUL
    BY <1>1, <2>1, <2>3
  <2> QED
    BY <2>1, <2>2, <2>4, <2>5 DEF LineOK
<1>3. CASE BackSpace
  <2>1. /\ cursor_index > 0
        /\ cmd' = [n \in Slots |-> IF n \in cursor_index - 1 .. cmd_len - 2 THEN cmd[n + 1]
                                   ELSE cmd[n]]
        /\ cursor_index' = cursor_index - 1 /\ cmd_len' = cmd_len - 1
    BY <1>3 DEF BackSpace
  <2>2. cmd_len' \in 0 .. CmdLimit /\ cursor_index' \in 0 .. cmd_len'
    BY <1>1, <2>1
  <2>3. \A n \in Slots : n \in cursor_index - 1 .. cmd_len - 2
                           => n + 1 \in Slots /\ n + 1 < cmd_len
    BY <1>1
  <2>4. cmd' \in Buffer
    BY <1>1, <2>1, <2>3
  <2>5. \A k \in Slots : k < cmd_len - 1 => cmd'[k] # NUL
    BY <1>1, <2>1, <2>3
  <2> QED
    BY <2>1, <2>2, <2>4, <2>5 DEF LineOK
<1>4. CASE CursorLeft
  BY <1>1, <1>4 DEF CursorLeft, LineOK
<1>5. CASE CursorRight
  BY <1>1, <1>5 DEF CursorRight, LineOK
<1> QED
  BY <1>2, <1>3, <1>4, <1>5

\* What split() leaves is a buffer, which differs by NULs.
LEMMA DecodedIs ==
    ASSUME cmd \in Buffer
    PROVE  Decoded \in Buffer /\ \A n \in Slots : Decoded[n] \in {cmd[n], NUL}
<1> DEFINE cuts == Cuts(Line)
<1> HIDE DEF cuts
<1>1. Decoded = [n \in Slots |-> IF n = cmd_len \/ n + 1 \in cuts THEN NUL ELSE cmd[n]]
  BY DEF Decoded, cuts
<1> QED
  BY <1>1, Bounds DEF Buffer

\* The steps of Return that take up a line.
Returns ==
    \/ EnterMousetest \/ EnterKbdtest
    \/ \E command \in StoredCommands : EnterStored(command) \/ EnterBeyond(command)

\* Return empties the line, or leaves it cut in a state without an editor.
LEMMA EnterKeepsLine ==
    ASSUME LineOK, EnterEmpty \/ Returns
    PROVE  LineOK'
<1> USE Bounds DEF LineOK, Buffer
<1>1. CASE EnterEmpty
  BY <1>1 DEF EnterEmpty, Running
<1>2. CASE EnterMousetest
  <2>1. cmd' = Decoded /\ cursor_index' = 0 /\ cmd_len' = 0
    BY <1>2 DEF EnterMousetest
  <2>2. cmd' \in Buffer
    BY <2>1, DecodedIs
  <2> QED
    BY <2>1, <2>2
<1>3. CASE EnterKbdtest
  <2>1. cmd' = Decoded /\ console_state' = "KEYBOARD_TEST" /\ UNCHANGED <<cursor_index, cmd_len>>
    BY <1>3, StateAfterIs DEF EnterKbdtest, Entering
  <2>2. cmd' \in Buffer
    BY <2>1, DecodedIs
  <2> QED
    BY <2>1, <2>2
<1>4. ASSUME NEW command, EnterStored(command) PROVE LineOK'
  <2>1. cmd' = [n \in Slots |-> NUL] /\ cursor_index' = 0 /\ cmd_len' = 0
    BY <1>4 DEF EnterStored
  <2> QED
    BY <2>1
<1>5. ASSUME NEW command, EnterBeyond(command) PROVE LineOK'
  <2>1. cmd' = Decoded /\ fault' = "overrun" /\ UNCHANGED <<cursor_index, cmd_len>>
    BY <1>5 DEF EnterBeyond, Fail
  <2>2. cmd' \in Buffer /\ ~ Running'
    BY <2>1, DecodedIs DEF Running
  <2> QED
    BY <2>1, <2>2
<1> QED
  BY <1>1, <1>2, <1>3, <1>4, <1>5 DEF Returns

---------------------------------------------------------------------------
(* Steps on the history.                                                   *)

\* The copy of a line, with what memory held behind it, is a string.
LEMMA StoredIs ==
    ASSUME LineOK, Editing, NEW n \in 0 .. MaxGarbage, NEW garbage \in [1 .. n -> Char]
    PROVE  Line \o garbage \in Seq(Char)
<1>1. n \in Nat /\ cmd_len \in Nat
  BY Bounds DEF LineOK
<1>2. garbage \in Seq(Char)
  BY <1>1, SeqDef
<1>3. LineOf(cmd, cmd_len) \in Seq(Char)
  BY LineOfIs DEF LineOK, Editing
<1>4. Line \in Seq(Char)
  BY <1>3 DEF Line, LineOf
<1> QED
  BY <1>2, <1>4, ConcatProperties

\* A stored line is the newest entry.
LEMMA StoreKeepsHistory ==
    ASSUME IInv, NEW command, EnterStored(command)
    PROVE  EntriesOK' /\ HistoryMatches'
<1>1. /\ cmd_hist + 1 < CmdHistory /\ Editing /\ fault' = fault
      /\ cmd_hist' = cmd_hist + 1 /\ cmd_hist_cursor' = cmd_hist + 2
      /\ mousetests' = mousetests
  BY DEF EnterStored, Entering
<1>2. PICK n \in 0 .. MaxGarbage : \E garbage \in [1 .. n -> Char] :
          history' = [history EXCEPT ![cmd_hist + 1] = Line \o garbage]
  BY DEF EnterStored
<1>3. PICK garbage \in [1 .. n -> Char] :
          history' = [history EXCEPT ![cmd_hist + 1] = Line \o garbage]
  BY <1>2
<1> DEFINE e == Line \o garbage
<1>4. e \in Seq(Char) /\ e # None
  BY <1>1, StoredIs, Bounds DEF IInv
<1>5. history' = [history EXCEPT ![cmd_hist + 1] = e]
  BY <1>3
<1> HIDE DEF e
<1>6. cmd_hist \in Int /\ cmd_hist >= -1 /\ cmd_hist + 1 \in 0 .. CmdHistory - 1
  BY <1>1, Bounds DEF IInv, OthersOK
<1>7. /\ history \in [0 .. CmdHistory - 1 -> Seq(Char) \cup {None}]
      /\ mousetests \subseteq 0 .. cmd_hist
  BY DEF IInv, EntriesOK
<1>8. /\ history'[cmd_hist + 1] = e
      /\ \A h \in 0 .. CmdHistory - 1 : h # cmd_hist + 1 => history'[h] = history[h]
  BY <1>5, <1>6, <1>7
<1>9. EntriesOK'
  <2>1. history' \in [0 .. CmdHistory - 1 -> Seq(Char) \cup {None}]
    BY <1>4, <1>5, <1>7
  <2>2. \A h \in 0 .. CmdHistory - 1 : h > cmd_hist + 1 => history'[h] = None
    BY <1>6, <1>8 DEF IInv, EntriesOK
  <2>3. mousetests \subseteq 0 .. cmd_hist + 1
    BY <1>6, <1>7
  <2> QED
    BY <1>1, <2>1, <2>2, <2>3 DEF EntriesOK
<1>10. \A h \in 0 .. cmd_hist + 1 : history'[h] = None <=> h \in mousetests
  <2> TAKE h \in 0 .. cmd_hist + 1
  <2>1. CASE h = cmd_hist + 1
    <3>1. h \notin mousetests
      BY <1>6, <1>7, <2>1
    <3> QED
      BY <1>4, <1>8, <2>1, <3>1
  <2>2. CASE h # cmd_hist + 1
    <3>1. h \in 0 .. cmd_hist /\ h \in 0 .. CmdHistory - 1 /\ h < CmdHistory
      BY <1>6, <2>2, Bounds
    <3> QED
      BY <1>8, <2>2, <3>1 DEF IInv, HistoryMatches
  <2> QED
    BY <2>1, <2>2
<1>11. cmd_hist + 2 \in 0 .. cmd_hist + 1 + 1
  BY <1>6
<1>12. fault' # "no_entry"
  BY <1>1 DEF Editing, Running
<1> QED
  BY <1>1, <1>9, <1>10, <1>11, <1>12 DEF HistoryMatches

\* mousetest leaves an entry without a string, and says so.
LEMMA MousetestKeepsHistory ==
    ASSUME IInv, EnterMousetest
    PROVE  EntriesOK' /\ HistoryMatches'
<1>1. /\ fault' = fault /\ fault = "none"
      /\ cmd_hist' = cmd_hist + 1 /\ mousetests' = mousetests \cup {cmd_hist + 1}
      /\ history' = history /\ cmd_hist_cursor' = cmd_hist_cursor
  BY DEF EnterMousetest, Entering, Editing, Running
<1>2. cmd_hist \in Int /\ cmd_hist >= -1
  BY DEF IInv, OthersOK
<1>3. cmd_hist + 1 < CmdHistory => history[cmd_hist + 1] = None
  BY <1>2, Bounds DEF IInv, EntriesOK
<1>4. EntriesOK'
  BY <1>1, <1>2 DEF IInv, EntriesOK
<1>5. \A h \in 0 .. cmd_hist + 1 : h < CmdHistory => (history[h] = None <=> h \in mousetests')
  <2> TAKE h \in 0 .. cmd_hist + 1
  <2>1. h = cmd_hist + 1 \/ (h \in 0 .. cmd_hist /\ h # cmd_hist + 1)
    BY <1>2
  <2> QED
    BY <1>1, <1>2, <1>3, <2>1 DEF IInv, HistoryMatches
<1>6. cmd_hist_cursor \in 0 .. cmd_hist + 1 + 1
  BY <1>2 DEF IInv, HistoryMatches
<1> QED
  BY <1>1, <1>4, <1>5, <1>6 DEF HistoryMatches

\* Going through the history changes where the next step counts from.
LEMMA ScrollKeepsHistory ==
    ASSUME IInv, Running, NEW direction \in {-1, 1}, scroll_hist(direction)
    PROVE  EntriesOK' /\ HistoryMatches'
<1>1. /\ cmd_hist_cursor' \in 0 .. cmd_hist + 1
      /\ fault' = "no_entry" => cmd_hist_cursor' \in mousetests
      /\ UNCHANGED <<history, cmd_hist, mousetests>>
  BY ScrollFacts
<1> QED
  BY <1>1 DEF IInv, EntriesOK, HistoryMatches

\* The steps on an array that is too short or a word that is not there, which
\* change nothing but the fault.
Failing ==
    \/ TypeBeyond \/ EnterTooLong
    \/ \E command \in DOMAIN StateAfter : EnterTooFew(command)

LEMMA FailingIs ==
    ASSUME Failing
    PROVE  /\ fault' \in {"overrun", "no_word"}
           /\ UNCHANGED <<console_state, lineVars, histVars, executed, gameVars>>
BY DEF Failing, TypeBeyond, EnterTooLong, EnterTooFew, Fail

\* The steps that leave history and fault alone.
Elsewhere ==
    \/ \E c \in Char : TypeChar(c)
    \/ BackSpace \/ CursorLeft \/ CursorRight
    \/ EnterEmpty \/ EnterKbdtest \/ EndMouseTest
    \/ SnakeStarts \/ SnakeEnds \/ SnakeNotify
    \/ UNCHANGED vars

LEMMA ElsewhereKeepsHistory ==
    ASSUME IInv, Elsewhere
    PROVE  EntriesOK' /\ HistoryMatches'
<1>1. UNCHANGED <<histVars, fault>>
  BY DEF Elsewhere, TypeChar, BackSpace, CursorLeft, CursorRight, EnterEmpty, EnterKbdtest,
         Entering, EndMouseTest, SnakeStarts, SnakeEnds, SnakeNotify, vars, histVars
<1> QED
  BY <1>1 DEF IInv, EntriesOK, HistoryMatches, histVars

\* So do those that fail, but for the fault.
LEMMA FailureKeepsHistory ==
    ASSUME IInv, Failing \/ \E command \in StoredCommands : EnterBeyond(command)
    PROVE  EntriesOK' /\ HistoryMatches'
<1>1. UNCHANGED histVars /\ fault' # "no_entry"
  BY FailingIs DEF EnterBeyond, Fail
<1> QED
  BY <1>1 DEF IInv, EntriesOK, HistoryMatches, histVars

\* The steps of the system, by what they do to the history.
LEMMA StepCases ==
    ASSUME [Next]_vars
    PROVE  \/ \E command \in StoredCommands : EnterStored(command)
           \/ \E command \in StoredCommands : EnterBeyond(command)
           \/ EnterMousetest
           \/ Running /\ \E direction \in {-1, 1} : scroll_hist(direction)
           \/ Failing
           \/ Elsewhere
BY Zenon DEF Next, Key, KeyUpDown, Editing, MouseWheel, Elsewhere, Failing

\* The lines stored and where the next step through them counts from.
LEMMA StepHistory == ASSUME IInv, [Next]_vars PROVE EntriesOK' /\ HistoryMatches'
BY StepCases, StoreKeepsHistory, MousetestKeepsHistory, ScrollKeepsHistory,
   ElsewhereKeepsHistory, FailureKeepsHistory

\* The line.
LEMMA StepLine == ASSUME IInv, [Next]_vars PROVE LineOK'
<1>1. CASE \/ (\E c \in Char : TypeChar(c)) \/ BackSpace \/ CursorLeft \/ CursorRight
           \/ EnterEmpty \/ Returns
  BY <1>1, EditKeepsLine, EnterKeepsLine DEF IInv
<1>2. CASE Running /\ \E direction \in {-1, 1} : scroll_hist(direction)
  BY <1>2, ScrollFacts
<1>3. CASE Failing
  <2>1. UNCHANGED lineVars /\ ~ Running'
    BY <1>3, FailingIs DEF Running
  <2> QED
    BY <2>1 DEF IInv, LineOK, lineVars
<1>4. CASE EndMouseTest
  <2>1. UNCHANGED <<lineVars, fault>> /\ console_state = "MOUSE_TEST"
    BY <1>4 DEF EndMouseTest
  <2> QED
    BY <2>1 DEF IInv, LineOK, lineVars, Running
<1>5. CASE SnakeNotify
  <2>1. UNCHANGED <<lineVars, fault>> /\ console_state = "SNAKE"
    BY <1>5 DEF SnakeNotify, IInv, GameOwnsKeyboard
  <2> QED
    BY <2>1 DEF IInv, LineOK, lineVars, Running
<1>6. CASE SnakeStarts \/ SnakeEnds \/ UNCHANGED vars
  <2>1. UNCHANGED <<lineVars, fault, console_state>>
    BY <1>6 DEF SnakeStarts, SnakeEnds, vars
  <2> QED
    BY <2>1 DEF IInv, LineOK, lineVars, Running
<1> QED
  BY <1>1, <1>2, <1>3, <1>4, <1>5, <1>6, StepCases DEF Elsewhere, Returns

\* The state of the console and the owner of the keyboard: what a step does to
\* the game it does to the state.
LEMMA StepGame ==
    ASSUME IInv, [Next]_vars
    PROVE  OthersOK' /\ GameOwnsKeyboard' /\ OneGame'
<1> USE DEF GameOwnsKeyboard, OneGame, States
<1>1. ASSUME NEW command \in StoredCommands, EnterStored(command) \/ EnterBeyond(command)
      PROVE  OthersOK' /\ GameOwnsKeyboard' /\ OneGame'
  <2>1. /\ console_state = "CONSOLE"
        /\ console_state' = StateAfter[command] /\ fault' \in {fault, "overrun"}
        /\ cmd_hist' \in {cmd_hist, cmd_hist + 1} /\ UNCHANGED <<snake, toShell>>
        /\ toSnake' = (toSnake \/ command = "snake")
    BY <1>1 DEF EnterStored, EnterBeyond, Entering, Editing, Fail, histVars
  <2>2. console_state' \in States /\ (console_state' = "SNAKE" <=> command = "snake")
    BY <2>1, StateAfterIs DEF StoredCommands
  <2>3. cmd_hist' \in Int /\ cmd_hist' >= -1
    BY <2>1 DEF IInv, OthersOK
  <2>4. fault' \in Faults
    BY <2>1 DEF IInv, OthersOK, Faults
  <2> QED
    BY <2>1, <2>2, <2>3, <2>4, Zenon DEF IInv, OthersOK
<1>2. CASE EnterMousetest \/ EnterKbdtest
  <2>1. /\ console_state = "CONSOLE" /\ fault' = fault
        /\ console_state' \in {"MOUSE_TEST", "KEYBOARD_TEST"}
        /\ UNCHANGED gameVars
    BY <1>2, StateAfterIs DEF EnterMousetest, EnterKbdtest, Entering, Editing
  <2>2. cmd_hist' \in Int /\ cmd_hist' >= -1
    BY <1>2 DEF IInv, OthersOK, EnterMousetest, EnterKbdtest, histVars
  <2> QED
    BY <2>1, <2>2 DEF IInv, OthersOK, gameVars
<1>3. CASE Running /\ \E direction \in {-1, 1} : scroll_hist(direction)
  <2>1. fault' \in Faults /\ UNCHANGED <<console_state, cmd_hist, gameVars>>
    BY <1>3, ScrollFacts
  <2> QED
    BY <2>1 DEF IInv, OthersOK, gameVars
<1>4. CASE \/ (\E c \in Char : TypeChar(c)) \/ BackSpace \/ CursorLeft \/ CursorRight
           \/ EnterEmpty \/ UNCHANGED vars
  <2>1. UNCHANGED <<console_state, cmd_hist, fault, gameVars>>
    BY <1>4 DEF TypeChar, BackSpace, CursorLeft, CursorRight, EnterEmpty, vars, histVars
  <2> QED
    BY <2>1 DEF IInv, OthersOK, gameVars
<1>5. CASE EndMouseTest
  BY <1>5 DEF EndMouseTest, IInv, OthersOK, histVars, gameVars
<1>6. CASE SnakeStarts
  BY <1>6 DEF SnakeStarts, IInv, OthersOK, histVars
<1>7. CASE SnakeEnds
  BY <1>7 DEF SnakeEnds, IInv, OthersOK, histVars
<1>8. CASE SnakeNotify
  BY <1>8 DEF SnakeNotify, IInv, OthersOK, histVars
<1>9. CASE Failing
  <2>1. fault' \in Faults /\ UNCHANGED <<console_state, cmd_hist, gameVars>>
    BY <1>9, FailingIs DEF Faults, histVars
  <2> QED
    BY <2>1 DEF IInv, OthersOK, gameVars
<1> QED
  BY <1>1, <1>2, <1>3, <1>4, <1>5, <1>6, <1>7, <1>8, <1>9, StepCases DEF Elsewhere

\* At the first prompt.
LEMMA InitInv == Init => IInv
<1> SUFFICES ASSUME Init PROVE IInv
  OBVIOUS
<1> USE Bounds DEF Init
<1>1. LineOK
  BY DEF LineOK, Buffer, Running
<1>2. OthersOK /\ GameOwnsKeyboard /\ OneGame
  <2>1. cmd_hist \in Int /\ cmd_hist >= -1
    OBVIOUS
  <2>2. console_state \in States /\ fault \in Faults /\ snake \in {"wait", "play"}
    BY DEF States, Faults
  <2>3. toSnake \in BOOLEAN /\ toShell \in BOOLEAN
    BY Zenon
  <2>4. console_state # "SNAKE" /\ ~toSnake /\ snake # "play" /\ ~toShell
    OBVIOUS
  <2> QED
    BY <2>1, <2>2, <2>3, <2>4, Zenon DEF OthersOK, GameOwnsKeyboard, OneGame
<1>3. EntriesOK /\ HistoryMatches
  BY DEF EntriesOK, HistoryMatches
<1> QED
  BY <1>1, <1>2, <1>3 DEF IInv

LEMMA Invariance == Spec => []IInv
<1>1. IInv /\ [Next]_vars => IInv'
  BY StepLine, StepHistory, StepGame DEF IInv
<1> QED
  BY InitInv, <1>1, PTL DEF Spec

---------------------------------------------------------------------------
(* What holds throughout.                                                  *)

\* Until a fault the cursor is in the line and the line in its buffer, and the
\* string that decode_command reads has no end before the line's own, although
\* split() writes NULs into the lines it takes up.
THEOREM TypeCorrect == Spec => []TypeOK
<1>1. IInv => TypeOK
  BY TypesFollow DEF IInv
<1> QED
  BY <1>1, Invariance, PTL

\* scroll_hist and decode_command agree on which entries hold a string.
THEOREM HistoryConsistent == Spec => []HistoryMatches
<1>1. IInv => HistoryMatches
  BY DEF IInv
<1> QED
  BY <1>1, Invariance, PTL

\* The console and the game's domain hand over the keyboard, whatever the
\* order of their notifications.
THEOREM OneKeyboardOwner == Spec => []GameOwnsKeyboard
<1>1. IInv => GameOwnsKeyboard
  BY DEF IInv
<1> QED
  BY <1>1, Invariance, PTL

\* The keys and the wheel that go through the history bring up what is there.
THEOREM EntriesShown == Spec => RecallShowsEntry
<1> DEFINE Shown ==
       LET entry == history[cmd_hist_cursor']
       IN  /\ IsPrefix(entry, Line') /\ cursor_index' = cmd_len'
           /\ Len(entry) < CmdLimit /\ cmd[Len(entry)] = NUL => cmd_len' = Len(entry)
<1>1. IInv /\ [Next]_vars =>
        [ cmd_hist_cursor' # cmd_hist_cursor /\ cmd_hist_cursor' \in 0 .. cmd_hist
          /\ Running' /\ cmd_hist' = cmd_hist => Shown ]_vars
  <2> SUFFICES ASSUME IInv, [Next]_vars,
                      cmd_hist_cursor' # cmd_hist_cursor, cmd_hist_cursor' \in 0 .. cmd_hist,
                      Running', cmd_hist' = cmd_hist
               PROVE  Shown
    OBVIOUS
  <2>1. ASSUME NEW command, EnterStored(command) PROVE cmd_hist' = cmd_hist + 1
    BY <2>1 DEF EnterStored
  <2>2. EnterMousetest => cmd_hist' = cmd_hist + 1
    BY DEF EnterMousetest
  <2>3. Elsewhere \/ Failing \/ (\E command \in StoredCommands : EnterBeyond(command))
          => cmd_hist_cursor' = cmd_hist_cursor
    BY FailingIs
       DEF Elsewhere, TypeChar, BackSpace, CursorLeft, CursorRight, EnterEmpty, EnterKbdtest,
           EndMouseTest, SnakeStarts, SnakeEnds, SnakeNotify, EnterBeyond, vars, histVars
  <2>4. cmd_hist' # cmd_hist + 1
    BY DEF IInv, OthersOK
  <2>5. Running /\ \E direction \in {-1, 1} : scroll_hist(direction)
    BY <2>1, <2>2, <2>3, <2>4, StepCases
  <2> QED
    BY <2>5, ScrollFacts
<1> QED
  BY Invariance, <1>1, PTL DEF Spec, RecallShowsEntry

---------------------------------------------------------------------------
(* The line of text that the buffer and its indices stand for.             *)

Before == SubSeq(Line, 1, cursor_index)
After == SubSeq(Line, cursor_index + 1, cmd_len)

\* Character by character, the two parts of the line are in the buffer.
PartsOK ==
    /\ Line \in Seq(CharOrNUL) /\ Len(Line) = cmd_len
    /\ Before \in Seq(CharOrNUL) /\ Len(Before) = cursor_index
    /\ \A k \in 1 .. cursor_index : Before[k] = cmd[k - 1] /\ cmd[k - 1] \in CharOrNUL
    /\ After \in Seq(CharOrNUL) /\ Len(After) = cmd_len - cursor_index
    /\ \A k \in 1 .. cmd_len - cursor_index :
          After[k] = cmd[cursor_index + k - 1] /\ cmd[cursor_index + k - 1] \in CharOrNUL
    /\ Before \o After = Line

LEMMA PartsAre == LineOK => PartsOK
<1> SUFFICES ASSUME LineOK PROVE PartsOK
  OBVIOUS
<1>1. cmd_len \in Nat /\ cursor_index \in Nat /\ cursor_index <= cmd_len
  BY Bounds DEF LineOK
<1>2. /\ Line \in Seq(CharOrNUL) /\ Len(Line) = cmd_len
      /\ \A k \in 1 .. cmd_len : Line[k] = cmd[k - 1]
  <2>1. /\ LineOf(cmd, cmd_len) \in Seq(CharOrNUL) /\ Len(LineOf(cmd, cmd_len)) = cmd_len
        /\ \A k \in 1 .. cmd_len : LineOf(cmd, cmd_len)[k] = cmd[k - 1]
    BY LineOfIs DEF LineOK
  <2>2. Line = LineOf(cmd, cmd_len)
    BY DEF Line, LineOf
  <2> QED
    BY <2>1, <2>2
<1>3. \A k \in 1 .. cmd_len : Line[k] \in CharOrNUL
  BY <1>1, <1>2, ElementOfSeq
<1>4. /\ Before \in Seq(CharOrNUL) /\ Len(Before) = cursor_index
      /\ \A k \in 1 .. cursor_index : Before[k] = Line[k]
  <2>1. \A k \in 1 .. cursor_index : Line[k] \in CharOrNUL
    BY <1>1, <1>3
  <2>2. /\ SubSeq(Line, 1, cursor_index) \in Seq(CharOrNUL)
        /\ Len(SubSeq(Line, 1, cursor_index)) =
              IF 1 <= cursor_index THEN cursor_index - 1 + 1 ELSE 0
        /\ \A k \in 1 .. cursor_index - 1 + 1 : SubSeq(Line, 1, cursor_index)[k] = Line[1 + k - 1]
    BY <1>1, <2>1, SubSeqProperties
  <2> QED
    BY <1>1, <2>2 DEF Before
<1>5. /\ After \in Seq(CharOrNUL) /\ Len(After) = cmd_len - cursor_index
      /\ \A k \in 1 .. cmd_len - cursor_index : After[k] = Line[cursor_index + k]
  <2>1. \A k \in cursor_index + 1 .. cmd_len : Line[k] \in CharOrNUL
    BY <1>1, <1>3
  <2> DEFINE m == cursor_index + 1
  <2>2. m \in Int /\ cmd_len \in Int
    BY <1>1
  <2> HIDE DEF m
  <2>3. /\ SubSeq(Line, m, cmd_len) \in Seq(CharOrNUL)
        /\ Len(SubSeq(Line, m, cmd_len)) = IF m <= cmd_len THEN cmd_len - m + 1 ELSE 0
        /\ \A k \in 1 .. cmd_len - m + 1 : SubSeq(Line, m, cmd_len)[k] = Line[m + k - 1]
    <3>1. \A k \in m .. cmd_len : Line[k] \in CharOrNUL
      BY <2>1 DEF m
    <3> QED
      BY <2>2, <3>1, SubSeqProperties
  <2> QED
    BY <1>1, <2>3 DEF After, m
<1>6. Before \o After = Line
  <2>1. SubSeq(Line, 1, cursor_index) \o SubSeq(Line, cursor_index + 1, cmd_len)
          = SubSeq(Line, 1, cmd_len)
    BY <1>1, <1>2, ConcatAdjacentSubSeq
  <2>2. SubSeq(Line, 1, cmd_len) = Line
    BY <1>2, SubSeqFull
  <2> QED
    BY <2>1, <2>2 DEF Before, After
<1>7. \A k \in 1 .. cursor_index : Before[k] = cmd[k - 1] /\ cmd[k - 1] \in CharOrNUL
  <2> TAKE k \in 1 .. cursor_index
  <2>1. k \in 1 .. cmd_len
    BY <1>1
  <2> QED
    BY <1>2, <1>3, <1>4, <2>1
<1>8. \A k \in 1 .. cmd_len - cursor_index :
          After[k] = cmd[cursor_index + k - 1] /\ cmd[cursor_index + k - 1] \in CharOrNUL
  <2> TAKE k \in 1 .. cmd_len - cursor_index
  <2>1. cursor_index + k \in 1 .. cmd_len /\ (cursor_index + k) - 1 = cursor_index + k - 1
    BY <1>1
  <2>2. After[k] = Line[cursor_index + k] /\ Line[cursor_index + k] \in CharOrNUL
    BY <1>3, <1>5, <2>1
  <2>3. Line[cursor_index + k] = cmd[(cursor_index + k) - 1]
    BY <1>2, <2>1
  <2> QED
    BY <2>1, <2>2, <2>3
<1> QED
  BY <1>2, <1>4, <1>5, <1>6, <1>7, <1>8 DEF PartsOK

\* After a step too.
LEMMA PartsNext == LineOK' => PartsOK'
BY PartsAre, PTL

\* The indices as numbers.
LEMMA LineNumbers ==
    LineOK => cmd_len \in Nat /\ cursor_index \in Nat /\ cursor_index <= cmd_len
              /\ cmd_len <= CmdLimit
BY Bounds DEF LineOK

\* All but the last element of a sequence.
LEMMA FrontIs ==
    ASSUME NEW s \in Seq(CharOrNUL), NEW t \in Seq(CharOrNUL), NEW n \in Nat, n > 0, Len(s) = n,
           Len(t) = n - 1, \A k \in 1 .. n - 1 : t[k] = s[k]
    PROVE  s # <<>> /\ t = Front(s)
<1>1. s # <<>>
  BY EmptySeq
<1>2. \A k \in 1 .. n - 1 : s[k] \in CharOrNUL
  BY ElementOfSeq
<1> DEFINE m == n - 1
<1>3. m \in Int /\ m >= 0 /\ m - 1 + 1 = m
  OBVIOUS
<1>4. \A k \in 1 .. m : s[k] \in CharOrNUL
  BY <1>2
<1> HIDE DEF m
<1>5. /\ SubSeq(s, 1, m) \in Seq(CharOrNUL) /\ Len(SubSeq(s, 1, m)) = m
      /\ \A k \in 1 .. m : SubSeq(s, 1, m)[k] = s[k]
  BY <1>3, <1>4, SubSeqProperties
<1>6. Front(s) = SubSeq(s, 1, m)
  BY DEF Front, m
<1>7. Len(t) = m /\ \A k \in 1 .. m : t[k] = s[k]
  BY DEF m
<1>8. t = SubSeq(s, 1, m)
  BY <1>5, <1>7, SeqEqual
<1> QED
  BY <1>1, <1>6, <1>8

\* Typing: the characters before the cursor gain one, those behind it move up.
LEMMA TypeRefines ==
    ASSUME LineOK, PartsOK, PartsOK', NEW c \in Char, TypeChar(c)
    PROVE  Before' = Append(Before, c) /\ After' = After
<1>1. /\ cursor_index < CmdLimit
      /\ cursor_index # cmd_len => cmd_len + 1 < CmdLimit
      /\ cursor_index' = cursor_index + 1 /\ cmd_len' = cmd_len + 1
      /\ cmd' = [n \in Slots |->
                    IF n = cursor_index THEN c
                    ELSE IF n \in cursor_index + 1 .. cmd_len + 1 /\ cursor_index # cmd_len
                           THEN cmd[n - 1] ELSE cmd[n]]
  BY DEF TypeChar
<1>2. /\ cmd_len \in Nat /\ cursor_index \in Nat /\ cursor_index <= cmd_len
      /\ cursor_index \in Slots
  BY <1>1, LineNumbers, Bounds
<1>3. Before' = Append(Before, c)
  <2> DEFINE t == Append(Before, c)
  <2>1. /\ t \in Seq(CharOrNUL) /\ Len(t) = cursor_index + 1 /\ t[cursor_index + 1] = c
        /\ \A k \in 1 .. cursor_index : t[k] = Before[k]
    <3>1. c \in CharOrNUL
      BY DEF CharOrNUL
    <3>2. Before \in Seq(CharOrNUL) /\ Len(Before) = cursor_index
      BY DEF PartsOK
    <3> QED
      BY <1>2, <3>1, <3>2, AppendProperties
  <2> HIDE DEF t
  <2>2. \A k \in 1 .. cursor_index + 1 : cmd'[k - 1] = t[k]
    <3> TAKE k \in 1 .. cursor_index + 1
    <3>1. CASE k = cursor_index + 1
      <4>1. k - 1 = cursor_index
        BY <1>2, <3>1
      <4> QED
        BY <1>1, <1>2, <2>1, <3>1, <4>1
    <3>2. CASE k # cursor_index + 1
      <4>1. k \in 1 .. cursor_index /\ k - 1 \in Slots /\ k - 1 < cursor_index
        BY <1>1, <1>2, <3>2, Bounds
      <4>2. cmd'[k - 1] = cmd[k - 1]
        BY <1>1, <1>2, <4>1
      <4> QED
        BY <2>1, <4>1, <4>2 DEF PartsOK
    <3> QED
      BY <3>1, <3>2
  <2>3. /\ Before' \in Seq(CharOrNUL) /\ Len(Before') = cursor_index + 1
        /\ \A k \in 1 .. cursor_index + 1 : Before'[k] = cmd'[k - 1]
    BY <1>1 DEF PartsOK
  <2>4. Before' = t
    BY <2>1, <2>2, <2>3, SeqEqual
  <2> QED
    BY <2>4 DEF t
<1>4. After' = After
  <2>1. /\ After' \in Seq(CharOrNUL) /\ Len(After') = cmd_len - cursor_index
        /\ \A k \in 1 .. cmd_len - cursor_index : After'[k] = cmd'[cursor_index + 1 + k - 1]
    <3>1. cmd_len' - cursor_index' = cmd_len - cursor_index
      BY <1>1, <1>2
    <3> QED
      BY <1>1, <3>1 DEF PartsOK
  <2>2. \A k \in 1 .. cmd_len - cursor_index : After'[k] = After[k]
    <3> TAKE k \in 1 .. cmd_len - cursor_index
    <3> DEFINE n == cursor_index + 1 + k - 1
    <3>1. /\ n \in Slots /\ n # cursor_index /\ n \in cursor_index + 1 .. cmd_len + 1
          /\ cursor_index # cmd_len /\ n - 1 = cursor_index + k - 1
      BY <1>1, <1>2, Bounds
    <3>2. cmd'[n] = cmd[n - 1]
      BY <1>1, <3>1
    <3>3. After'[k] = cmd'[n]
      BY <2>1
    <3> QED
      BY <3>1, <3>2, <3>3 DEF PartsOK
  <2> QED
    BY <2>1, <2>2, SeqEqual DEF PartsOK
<1> QED
  BY <1>3, <1>4

\* Deleting: the last character before the cursor goes.
LEMMA BackSpaceRefines ==
    ASSUME LineOK, PartsOK, PartsOK', BackSpace
    PROVE  Before # <<>> /\ Before' = Front(Before) /\ After' = After
<1>1. /\ cursor_index > 0 /\ cursor_index' = cursor_index - 1 /\ cmd_len' = cmd_len - 1
      /\ cmd' = [n \in Slots |-> IF n \in cursor_index - 1 .. cmd_len - 2 THEN cmd[n + 1]
                                 ELSE cmd[n]]
  BY DEF BackSpace
<1>2. /\ cmd_len \in Nat /\ cursor_index \in Nat /\ cursor_index <= cmd_len
      /\ cmd_len <= CmdLimit
  BY LineNumbers
<1>3. /\ Before' \in Seq(CharOrNUL) /\ Len(Before') = cursor_index - 1
      /\ \A k \in 1 .. cursor_index - 1 : Before'[k] = cmd'[k - 1]
  BY <1>1 DEF PartsOK
<1>4. \A k \in 1 .. cursor_index - 1 : Before'[k] = Before[k]
  <2> TAKE k \in 1 .. cursor_index - 1
  <2>1. k - 1 \in Slots /\ k - 1 < cursor_index - 1 /\ k \in 1 .. cursor_index
    BY <1>2, Bounds
  <2>2. cmd'[k - 1] = cmd[k - 1]
    BY <1>1, <1>2, <2>1
  <2> QED
    BY <1>3, <2>1, <2>2 DEF PartsOK
<1>5. Before # <<>> /\ Before' = Front(Before)
  BY <1>1, <1>2, <1>3, <1>4, FrontIs DEF PartsOK
<1>6. /\ After' \in Seq(CharOrNUL) /\ Len(After') = cmd_len - cursor_index
      /\ \A k \in 1 .. cmd_len - cursor_index : After'[k] = cmd'[cursor_index - 1 + k - 1]
  <2>1. cmd_len' - cursor_index' = cmd_len - cursor_index
    BY <1>1, <1>2
  <2> QED
    BY <1>1, <2>1 DEF PartsOK
<1>7. \A k \in 1 .. cmd_len - cursor_index : After'[k] = After[k]
  <2> TAKE k \in 1 .. cmd_len - cursor_index
  <2> DEFINE n == cursor_index - 1 + k - 1
  <2>1. /\ n \in Slots /\ n \in cursor_index - 1 .. cmd_len - 2
        /\ n + 1 = cursor_index + k - 1
    BY <1>1, <1>2, Bounds
  <2>2. cmd'[n] = cmd[n + 1]
    BY <1>1, <2>1
  <2>3. After'[k] = cmd'[n]
    BY <1>6
  <2> QED
    BY <2>1, <2>2, <2>3 DEF PartsOK
<1>8. After' = After
  BY <1>6, <1>7, SeqEqual DEF PartsOK
<1> QED
  BY <1>5, <1>8

\* Moving to the left: the character goes over to those behind the cursor.
LEMMA CursorLeftRefines ==
    ASSUME LineOK, PartsOK, PartsOK', CursorLeft
    PROVE  Before # <<>> /\ Before' = Front(Before) /\ After' = <<Last(Before)>> \o After
<1>1. cursor_index > 0 /\ cursor_index' = cursor_index - 1 /\ cmd_len' = cmd_len /\ cmd' = cmd
  BY DEF CursorLeft
<1>2. cmd_len \in Nat /\ cursor_index \in Nat /\ cursor_index <= cmd_len
  BY LineNumbers
<1>3. /\ Before' \in Seq(CharOrNUL) /\ Len(Before') = cursor_index - 1
      /\ \A k \in 1 .. cursor_index - 1 : Before'[k] = cmd[k - 1]
  BY <1>1 DEF PartsOK
<1>4. \A k \in 1 .. cursor_index - 1 : Before'[k] = Before[k]
  <2> TAKE k \in 1 .. cursor_index - 1
  <2>1. k \in 1 .. cursor_index
    BY <1>2
  <2> QED
    BY <1>3, <2>1 DEF PartsOK
<1>5. Before # <<>> /\ Before' = Front(Before)
  BY <1>1, <1>2, <1>3, <1>4, FrontIs DEF PartsOK
<1> DEFINE e == Last(Before)
           t == <<e>> \o After
<1>6. e = cmd[cursor_index - 1] /\ e \in CharOrNUL
  BY <1>1, <1>2 DEF PartsOK, Last
<1> HIDE DEF e
<1>7. <<e>> \in Seq(CharOrNUL) /\ Len(<<e>>) = 1 /\ <<e>>[1] = e
  BY <1>6
<1>8. /\ t \in Seq(CharOrNUL) /\ Len(t) = 1 + (cmd_len - cursor_index)
      /\ \A k \in 1 .. 1 + (cmd_len - cursor_index) :
            t[k] = IF k <= 1 THEN <<e>>[k] ELSE After[k - 1]
  BY <1>7, ConcatProperties DEF PartsOK
<1> HIDE DEF t
<1>9. /\ After' \in Seq(CharOrNUL) /\ Len(After') = 1 + (cmd_len - cursor_index)
      /\ \A k \in 1 .. 1 + (cmd_len - cursor_index) :
            After'[k] = cmd[cursor_index - 1 + k - 1]
  <2>1. cmd_len' - cursor_index' = 1 + (cmd_len - cursor_index)
    BY <1>1, <1>2
  <2> QED
    BY <1>1, <2>1 DEF PartsOK
<1>10. \A k \in 1 .. 1 + (cmd_len - cursor_index) : After'[k] = t[k]
  <2> TAKE k \in 1 .. 1 + (cmd_len - cursor_index)
  <2>1. CASE k = 1
    <3>1. cursor_index - 1 + k - 1 = cursor_index - 1
      BY <1>2, <2>1
    <3> QED
      BY <1>6, <1>7, <1>8, <1>9, <2>1, <3>1
  <2>2. CASE k # 1
    <3>1. /\ k - 1 \in 1 .. cmd_len - cursor_index /\ ~ (k <= 1)
          /\ cursor_index - 1 + k - 1 = cursor_index + (k - 1) - 1
      BY <1>2, <2>2
    <3>2. After[k - 1] = cmd[cursor_index + (k - 1) - 1]
      BY <3>1 DEF PartsOK
    <3> QED
      BY <1>8, <1>9, <3>1, <3>2
  <2> QED
    BY <2>1, <2>2
<1>11. After' = t
  BY <1>8, <1>9, <1>10, SeqEqual
<1> QED
  BY <1>5, <1>11 DEF t, e

\* Moving to the right: the first of those behind the cursor comes over.
LEMMA CursorRightRefines ==
    ASSUME LineOK, PartsOK, PartsOK', CursorRight
    PROVE  After # <<>> /\ After' = Tail(After) /\ Before' = Append(Before, Head(After))
<1>1. cursor_index < cmd_len /\ cursor_index' = cursor_index + 1 /\ cmd_len' = cmd_len
      /\ cmd' = cmd
  BY DEF CursorRight
<1>2. cmd_len \in Nat /\ cursor_index \in Nat
  BY LineNumbers
<1>3. After # <<>>
  <2>1. Len(After) # 0
    BY <1>1, <1>2 DEF PartsOK
  <2> QED
    BY <2>1, EmptySeq
<1> DEFINE e == Head(After)
           t == Append(Before, e)
           r == Tail(After)
<1>4. e = cmd[cursor_index] /\ e \in CharOrNUL
  <2>1. e = After[1]
    BY <1>3 DEF PartsOK
  <2>2. 1 \in 1 .. cmd_len - cursor_index /\ cursor_index + 1 - 1 = cursor_index
    BY <1>1, <1>2
  <2> QED
    BY <2>1, <2>2 DEF PartsOK
<1>5. /\ r \in Seq(CharOrNUL) /\ Len(r) = cmd_len - cursor_index - 1
      /\ \A k \in 1 .. cmd_len - cursor_index - 1 : r[k] = After[k + 1]
  BY <1>3, HeadTailProperties DEF PartsOK
<1> HIDE DEF e, r
<1>6. /\ t \in Seq(CharOrNUL) /\ Len(t) = cursor_index + 1 /\ t[cursor_index + 1] = e
      /\ \A k \in 1 .. cursor_index : t[k] = Before[k]
  <2>1. e \in CharOrNUL
    BY <1>4
  <2>2. Before \in Seq(CharOrNUL) /\ Len(Before) = cursor_index
    BY DEF PartsOK
  <2> QED
    BY <2>1, <2>2, AppendProperties
<1> HIDE DEF t
<1>7. /\ Before' \in Seq(CharOrNUL) /\ Len(Before') = cursor_index + 1
      /\ \A k \in 1 .. cursor_index + 1 : Before'[k] = cmd[k - 1]
  BY <1>1 DEF PartsOK
<1>8. \A k \in 1 .. cursor_index + 1 : Before'[k] = t[k]
  <2> TAKE k \in 1 .. cursor_index + 1
  <2>1. CASE k = cursor_index + 1
    <3>1. k - 1 = cursor_index
      BY <1>2, <2>1
    <3> QED
      BY <1>4, <1>6, <1>7, <2>1, <3>1
  <2>2. CASE k # cursor_index + 1
    <3>1. k \in 1 .. cursor_index
      BY <1>2, <2>2
    <3> QED
      BY <1>6, <1>7, <3>1 DEF PartsOK
  <2> QED
    BY <2>1, <2>2
<1>9. Before' = t
  BY <1>6, <1>7, <1>8, SeqEqual
<1>10. /\ After' \in Seq(CharOrNUL) /\ Len(After') = cmd_len - cursor_index - 1
       /\ \A k \in 1 .. cmd_len - cursor_index - 1 : After'[k] = cmd[cursor_index + 1 + k - 1]
  <2>1. cmd_len' - cursor_index' = cmd_len - cursor_index - 1
    BY <1>1, <1>2
  <2> QED
    BY <1>1, <2>1 DEF PartsOK
<1>11. \A k \in 1 .. cmd_len - cursor_index - 1 : After'[k] = r[k]
  <2> TAKE k \in 1 .. cmd_len - cursor_index - 1
  <2>1. /\ k + 1 \in 1 .. cmd_len - cursor_index
        /\ cursor_index + (k + 1) - 1 = cursor_index + 1 + k - 1
    BY <1>2
  <2>2. After[k + 1] = cmd[cursor_index + (k + 1) - 1]
    BY <2>1 DEF PartsOK
  <2> QED
    BY <1>5, <1>10, <2>1, <2>2
<1>12. After' = r
  BY <1>5, <1>10, <1>11, SeqEqual
<1> QED
  BY <1>3, <1>9, <1>12 DEF t, r, e

\* Steps that leave the buffer and the indices alone leave the line alone.
LEMMA LineKept ==
    ASSUME Line' = Line, UNCHANGED <<cursor_index, cmd_len>>
    PROVE  Before' = Before /\ After' = After
BY DEF Before, After

\* Parts of the same length whose characters are kept or cut.
LEMMA CutParts ==
    ASSUME LineOK, PartsOK, PartsOK', cmd' = Decoded, UNCHANGED <<cursor_index, cmd_len>>
    PROVE  Editor!IsCut(Before', Before) /\ Editor!IsCut(After', After)
<1>1. cmd_len \in Nat /\ cursor_index \in Nat /\ cursor_index <= cmd_len /\ cmd_len <= CmdLimit
  BY LineNumbers
<1>2. \A n \in Slots : cmd'[n] \in {cmd[n], NUL}
  BY DecodedIs DEF LineOK
<1>3. Len(Before') = cursor_index /\ Len(After') = cmd_len - cursor_index
  <2>1. cursor_index' = cursor_index /\ cmd_len' - cursor_index' = cmd_len - cursor_index
    BY <1>1
  <2> QED
    BY <2>1 DEF PartsOK
<1>4. /\ DOMAIN Before = 1 .. cursor_index /\ DOMAIN Before' = 1 .. cursor_index
      /\ DOMAIN After = 1 .. cmd_len - cursor_index
      /\ DOMAIN After' = 1 .. cmd_len - cursor_index
  BY <1>3, LenProperties DEF PartsOK
<1>5. \A k \in 1 .. cursor_index : Before'[k] \in {Before[k], NUL}
  <2> TAKE k \in 1 .. cursor_index
  <2>1. k - 1 \in Slots
    BY <1>1, Bounds
  <2>2. Before[k] = cmd[k - 1] /\ Before'[k] = cmd'[k - 1]
    BY DEF PartsOK
  <2> QED
    BY <1>2, <2>1, <2>2
<1>6. \A k \in 1 .. cmd_len - cursor_index : After'[k] \in {After[k], NUL}
  <2> TAKE k \in 1 .. cmd_len - cursor_index
  <2>1. cursor_index + k - 1 \in Slots
    BY <1>1, Bounds
  <2>2. k \in 1 .. cmd_len' - cursor_index' /\ cursor_index' + k - 1 = cursor_index + k - 1
    BY <1>1
  <2>3. After[k] = cmd[cursor_index + k - 1] /\ After'[k] = cmd'[cursor_index + k - 1]
    BY <2>2 DEF PartsOK
  <2> QED
    BY <1>2, <2>1, <2>3
<1> QED
  BY <1>4, <1>5, <1>6 DEF Editor!IsCut

\* Return: the line is run whole, and then gone, or left as split() cut it.
LEMMA ReturnRefines ==
    ASSUME LineOK, PartsOK, PartsOK', Returns
    PROVE  /\ Before \o After # <<>> /\ executed' = Before \o After
           /\ \A n \in DOMAIN executed' : executed'[n] # NUL
           /\ \/ Before' = <<>> /\ After' = <<>>
              \/ Editor!IsCut(Before', Before) /\ Editor!IsCut(After', After)
<1>1. cmd_len > 0 /\ executed' = Line /\ Editing
  BY DEF Returns, EnterMousetest, EnterKbdtest, EnterStored, EnterBeyond, Entering
<1>2. Before \o After = Line /\ Line # <<>>
  <2>1. Len(Line) # 0
    BY <1>1, LineNumbers DEF PartsOK
  <2> QED
    BY <2>1, EmptySeq DEF PartsOK
<1>3. \A n \in DOMAIN Line : Line[n] # NUL
  <2> SUFFICES ASSUME NEW n \in 1 .. cmd_len PROVE cmd[n - 1] # NUL
    BY DEF Line
  <2>1. n - 1 \in Slots /\ n - 1 < cmd_len
    BY LineNumbers, Bounds
  <2> QED
    BY <1>1, <2>1 DEF LineOK, Editing
<1>4. CASE cursor_index' = 0 /\ cmd_len' = 0
  <2>1. /\ Before' \in Seq(CharOrNUL) /\ Len(Before') = 0
        /\ After' \in Seq(CharOrNUL) /\ Len(After') = 0
    BY <1>4 DEF PartsOK
  <2>2. Before' = <<>> /\ After' = <<>>
    BY <2>1, EmptySeq
  <2> QED
    BY <1>1, <1>2, <1>3, <2>2
<1>5. CASE cmd' = Decoded /\ UNCHANGED <<cursor_index, cmd_len>>
  BY <1>1, <1>2, <1>3, <1>5, CutParts
<1> QED
  BY <1>4, <1>5 DEF Returns, EnterMousetest, EnterKbdtest, EnterStored, EnterBeyond

\* A line of the history: nothing is behind the cursor.
LEMMA ScrollRefines ==
    ASSUME IInv, PartsOK', Running, NEW direction \in {-1, 1}, scroll_hist(direction)
    PROVE  /\ executed' = executed
           /\ After' = <<>> \/ (Before' = Before /\ After' = After)
<1>1. /\ IF Running' THEN cursor_index' = cmd_len' ELSE UNCHANGED lineVars
      /\ executed' = executed /\ LineOK'
  BY ScrollFacts
<1>2. CASE Running'
  <2>1. cmd_len' \in Nat /\ cursor_index' = cmd_len'
    BY <1>1, <1>2, Bounds DEF LineOK
  <2>2. After' \in Seq(CharOrNUL) /\ Len(After') = cmd_len' - cursor_index'
    BY DEF PartsOK
  <2>3. After' = <<>>
    BY <2>1, <2>2, EmptySeq
  <2> QED
    BY <1>1, <2>3
<1>3. CASE ~ Running'
  <2>1. UNCHANGED <<cmd, cursor_index, cmd_len>>
    BY <1>1, <1>3 DEF lineVars
  <2>2. Line' = Line
    BY <2>1 DEF Line
  <2> QED
    BY <1>1, <2>1, <2>2, LineKept
<1> QED
  BY <1>2, <1>3

\* Every step is one of the editor's, or none.
LEMMA StepRefines ==
    ASSUME IInv, IInv', [Next]_vars
    PROVE  [Editor!Next]_(Editor!vars)
<1>1. LineOK /\ PartsOK /\ PartsOK'
  BY PartsAre, PartsNext DEF IInv
<1>2. ASSUME NEW c \in Char, TypeChar(c) PROVE Editor!Next
  <2>1. Before' = Append(Before, c) /\ After' = After /\ executed' = executed
    BY <1>1, <1>2, TypeRefines DEF TypeChar
  <2>2. Editor!Type(c)
    BY <2>1 DEF Editor!Type, Before, After
  <2> QED
    BY <2>2 DEF Editor!Next
<1>3. CASE BackSpace
  <2>1. Before # <<>> /\ Before' = Front(Before) /\ After' = After /\ executed' = executed
    BY <1>1, <1>3, BackSpaceRefines DEF BackSpace
  <2>2. Editor!BackSpace
    BY <2>1 DEF Editor!BackSpace, Editor!Front, Front, Before, After
  <2> QED
    BY <2>2 DEF Editor!Next
<1>4. CASE CursorLeft
  <2>1. /\ Before # <<>> /\ Before' = Front(Before) /\ After' = <<Last(Before)>> \o After
        /\ executed' = executed
    BY <1>1, <1>4, CursorLeftRefines DEF CursorLeft
  <2>2. Editor!Left
    BY <2>1 DEF Editor!Left, Editor!Front, Editor!Last, Front, Last, Before, After
  <2> QED
    BY <2>2 DEF Editor!Next
<1>5. CASE CursorRight
  <2>1. /\ After # <<>> /\ After' = Tail(After) /\ Before' = Append(Before, Head(After))
        /\ executed' = executed
    BY <1>1, <1>5, CursorRightRefines DEF CursorRight
  <2>2. Editor!Right
    BY <2>1 DEF Editor!Right, Before, After
  <2> QED
    BY <2>2 DEF Editor!Next
<1>6. CASE Returns
  <2>1. /\ Before \o After # <<>> /\ executed' = Before \o After
        /\ \A n \in DOMAIN executed' : executed'[n] # NUL
        /\ \/ Before' = <<>> /\ After' = <<>>
           \/ Editor!IsCut(Before', Before) /\ Editor!IsCut(After', After)
    BY <1>1, <1>6, ReturnRefines
  <2>2. Editor!Return
    BY <2>1 DEF Editor!Return, Before, After
  <2> QED
    BY <2>2 DEF Editor!Next
<1>7. CASE Running /\ \E direction \in {-1, 1} : scroll_hist(direction)
  <2>1. /\ executed' = executed
        /\ After' = <<>> \/ (Before' = Before /\ After' = After)
    BY <1>1, <1>7, ScrollRefines
  <2>2. Editor!Recall \/ UNCHANGED Editor!vars
    BY <2>1 DEF Editor!Recall, Editor!vars, Before, After
  <2> QED
    BY <2>2 DEF Editor!Next
<1>8. CASE EnterEmpty \/ EndMouseTest \/ SnakeStarts \/ SnakeEnds \/ SnakeNotify \/ UNCHANGED vars
           \/ Failing
  <2>1. UNCHANGED <<cmd, cursor_index, cmd_len, executed>>
    <3>1. EnterEmpty => cursor_index = 0
      BY <1>1, LineNumbers DEF EnterEmpty, LineOK
    <3> QED
      BY <1>8, <3>1, FailingIs DEF EnterEmpty, EndMouseTest, SnakeStarts, SnakeEnds, SnakeNotify, vars, lineVars
  <2>2. Line' = Line
    BY <2>1 DEF Line
  <2>3. Before' = Before /\ After' = After
    BY <2>1, <2>2, LineKept
  <2> QED
    BY <2>1, <2>3 DEF Editor!vars, Before, After
<1> QED
  BY <1>2, <1>3, <1>4, <1>5, <1>6, <1>7, <1>8, StepCases DEF Elsewhere, Returns

\* The buffer, its length and its cursor implement the line of text of
\* LineEditor: what is run is what the screen shows.
THEOREM BufferIsLine == Spec => ImplementsEditor
<1>1. Init => Editor!Init
  <2> SUFFICES ASSUME Init PROVE Editor!Init
    OBVIOUS
  <2>1. LineOK /\ cursor_index = 0 /\ cmd_len = 0 /\ executed = <<>>
    BY InitInv DEF Init, IInv
  <2>2. /\ Before \in Seq(CharOrNUL) /\ Len(Before) = 0
        /\ After \in Seq(CharOrNUL) /\ Len(After) = 0
    BY <2>1, PartsAre DEF PartsOK
  <2>3. Before = <<>> /\ After = <<>>
    BY <2>2, EmptySeq
  <2> QED
    BY <2>1, <2>3 DEF Editor!Init, Before, After
<1>2. IInv /\ IInv' /\ [Next]_vars => [Editor!Next]_(Editor!vars)
  BY StepRefines
<1> QED
  BY <1>1, <1>2, Invariance, PTL DEF Spec, ImplementsEditor, Editor!Spec
===========================================================================
