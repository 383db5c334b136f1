--------------------------- MODULE ShellConsole ---------------------------
(***************************************************************************)
(* The shell of examples/shell: the state of the console, which decides    *)
(* what a key or a turn of the mouse wheel does, the line being edited,    *)
(* the history of commands, and the hand-over of the keyboard to the game  *)
(* in its own protection domain.                                           *)
(*                                                                         *)
(* Initially the driver's INIT notification has been handled.  Which       *)
(* command a line is, is not modelled: a line with a word in it may be any *)
(* command, and commands that change nothing here are "other".  A key is   *)
(* one that was not down before, as handle_keypress finds it in a report;  *)
(* in the state SNAKE it goes to the game, outside this module.            *)
(*                                                                         *)
(* The buffers are arrays and their limits are hardly checked.  A step     *)
(* that writes or measures beyond an array, or follows a null pointer,     *)
(* leaves the shell in a fault: what it does from there on is undefined,   *)
(* and it takes no more steps here.                                        *)
(***************************************************************************)
EXTENDS Integers, Sequences, SequencesExt

CONSTANTS Char,         \* what can be typed
          Blank, Quote, \* of these, what split() looks for
          CmdLimit,     \* CMD_LIMIT: characters in cmd
          HistSize,     \* characters in hist and in a stored line
          CmdHistory,   \* CMD_HISTORY: pointers in history
          ArgMax,       \* ARGMAX: words of a line that are looked at
          MaxEntries,   \* bound: commands counted in the history
          MaxGarbage,   \* bound: what may follow a line copied without its NUL
          NUL,          \* the character that ends a C string
          None          \* a null pointer

ASSUME ShellConsoleAssumption ==
    /\ CmdLimit \in Nat \ {0} /\ HistSize \in Nat /\ CmdHistory \in Nat
    /\ ArgMax \in Nat /\ MaxEntries \in Nat /\ MaxGarbage \in Nat
    /\ NUL \notin Char /\ None \notin Seq(Char)

VARIABLES console_state,    \* CONSOLE, SNAKE, MOUSE_TEST, ...
          cmd,              \* the characters of the line, and what is behind
          cursor_index, cmd_len,
          history,          \* the stored lines: strings or null pointers
          cmd_hist,         \* index of the newest entry
          cmd_hist_cursor,  \* entry last scrolled to
          executed,         \* line that decode_command last ran
          mousetests,       \* indices of the history that mousetest took up
          fault,            \* none; no_entry, no_word: a null pointer was
                            \* followed; overrun: an array was left
          toSnake, snake, toShell   \* notification bits and the game's domain

lineVars == <<cmd, cursor_index, cmd_len>>
histVars == <<history, cmd_hist, cmd_hist_cursor, mousetests>>
gameVars == <<toSnake, snake, toShell>>
vars == <<console_state, lineVars, histVars, executed, fault, gameVars>>

\* The elements of cmd.
Slots == 0 .. CmdLimit - 1

Smallest(S) == CHOOSE n \in S : \A m \in S : n <= m

\* strlen, for a buffer that has an end, and strncpy(s, str, strlen(str)), which
\* writes no NUL.
Ends(s) == \E n \in Slots : s[n] = NUL
StrLen(s) == Smallest({n \in Slots : s[n] = NUL})
Copy(s, str) == [n \in Slots |-> IF n < Len(str) THEN str[n + 1] ELSE s[n]]

\* The line at the prompt.
Line == [n \in 1 .. cmd_len |-> cmd[n - 1]]

Init ==
    /\ console_state = "CONSOLE"
    /\ cmd = [n \in Slots |-> NUL] /\ cursor_index = 0 /\ cmd_len = 0
    /\ history = [h \in 0 .. CmdHistory - 1 |-> None]
    /\ cmd_hist = -1 /\ cmd_hist_cursor = 0
    /\ executed = <<>> /\ mousetests = {} /\ fault = "none"
    /\ toSnake = FALSE /\ snake = "wait" /\ toShell = FALSE

Running == fault = "none"

Fail(kind) == fault' = kind

---------------------------------------------------------------------------
(* split(): the words of a line, and the NULs it writes behind them.       *)

\* One turn of its loop: a word begins, goes on, or ends and is counted.
EndsWord(state, c) ==
    \/ state = "IN_WORD" /\ c = Blank
    \/ state = "IN_STRING" /\ c = Quote

Read(r, c) ==
    IF r.argc = ArgMax \/ (r.state = "DULL" /\ c = Blank) THEN r
    ELSE IF r.state = "DULL"
      THEN [r EXCEPT !.state = IF c = Quote THEN "IN_STRING" ELSE "IN_WORD"]
    ELSE IF EndsWord(r.state, c) THEN [state |-> "DULL", argc |-> r.argc + 1]
    ELSE r

\* Its state after each number of characters.
Scan(line) ==
    LET r[n \in 0 .. Len(line)] ==
          IF n = 0 THEN [state |-> "DULL", argc |-> 0] ELSE Read(r[n - 1], line[n])
    IN  r

\* The characters that end a word become NUL.
Cuts(line) ==
    LET r == Scan(line) IN {n \in 1 .. Len(line) : r[n].argc # r[n - 1].argc}

Words(line) ==
    LET r == Scan(line)[Len(line)] IN IF r.state # "DULL" THEN r.argc + 1 ELSE r.argc

---------------------------------------------------------------------------
(* Keys in the state CONSOLE: editing the line.                            *)

Editing == Running /\ console_state = "CONSOLE"

\* Faulty variant: the rest of the line is not moved.
BackSpaceNoShift ==
    /\ Editing /\ cursor_index > 0
    /\ cursor_index' = cursor_index - 1 /\ cmd_len' = cmd_len - 1
    /\ UNCHANGED <<cmd, console_state, histVars, executed, fault, gameVars>>

\* The characters from the cursor on move up, with the one behind the line
\* when the cursor is inside it.
TypeChar(c) ==
    /\ Editing /\ cursor_index < CmdLimit
    /\ cursor_index # cmd_len => cmd_len + 1 < CmdLimit
    /\ cmd' = [n \in Slots |->
                 IF n = cursor_index THEN c
                 ELSE IF n \in cursor_index + 1 .. cmd_len + 1 /\ cursor_index # cmd_len
                        THEN cmd[n - 1] ELSE cmd[n]]
    /\ cursor_index' = cursor_index + 1 /\ cmd_len' = cmd_len + 1
    /\ UNCHANGED <<console_state, histVars, executed, fault, gameVars>>

\* The limit is compared with the cursor, not with the line's length: moving the
\* rest of a long line up writes behind the buffer.
TypeBeyond ==
    /\ Editing /\ cursor_index < CmdLimit
    /\ cursor_index # cmd_len /\ cmd_len + 1 >= CmdLimit
    /\ Fail("overrun")
    /\ UNCHANGED <<console_state, lineVars, histVars, executed, gameVars>>

\* The characters behind the cursor move down; the last one stays behind.
BackSpace ==
    /\ Editing /\ cursor_index > 0
    /\ cmd' = [n \in Slots |-> IF n \in cursor_index - 1 .. cmd_len - 2 THEN cmd[n + 1]
                               ELSE cmd[n]]
    /\ cursor_index' = cursor_index - 1 /\ cmd_len' = cmd_len - 1
    /\ UNCHANGED <<console_state, histVars, executed, fault, gameVars>>

CursorLeft ==
    /\ Editing /\ cursor_index > 0
    /\ cursor_index' = cursor_index - 1
    /\ UNCHANGED <<cmd, cmd_len, console_state, histVars, executed, fault, gameVars>>

CursorRight ==
    /\ Editing /\ cursor_index < cmd_len
    /\ cursor_index' = cursor_index + 1
    /\ UNCHANGED <<cmd, cmd_len, console_state, histVars, executed, fault, gameVars>>

---------------------------------------------------------------------------
(* Return: decode_command.                                                 *)

\* Faulty variant: kbdtest leaves its cut line at a prompt that goes on.
StateAfterKept ==
    [other |-> "CONSOLE", getdev |-> "CONSOLE", fatwrite |-> "CONSOLE",
     disable |-> "DISABLED", utstest |-> "UTS_TEST",
     snake |-> "SNAKE", mousetest |-> "MOUSE_TEST", kbdtest |-> "CONSOLE"]

\* The state a command leaves the console in.  Commands that act on other
\* parts, "init", and words that are no command stay in CONSOLE.
StateAfter ==
    [other |-> "CONSOLE", getdev |-> "CONSOLE", fatwrite |-> "CONSOLE",
     disable |-> "DISABLED", utstest |-> "UTS_TEST",
     snake |-> "SNAKE", mousetest |-> "MOUSE_TEST", kbdtest |-> "KEYBOARD_TEST"]

\* The words a command uses without looking whether they are there; the first
\* one is compared with the names of the commands.
WordsUsed(command) ==
    IF command = "fatwrite" THEN 3 ELSE IF command = "getdev" THEN 2 ELSE 1

\* An empty line only brings up a new prompt.
EnterEmpty ==
    /\ Editing /\ cmd_len = 0
    /\ cursor_index' = 0
    /\ UNCHANGED <<console_state, cmd, cmd_len, histVars, executed, fault, gameVars>>

\* There is room for the NUL behind the line and for the copy in hist.
LineFits == cmd_len < CmdLimit /\ cmd_len <= HistSize

EnterTooLong ==
    /\ Editing /\ cmd_len > 0 /\ ~LineFits
    /\ Fail("overrun")
    /\ UNCHANGED <<console_state, lineVars, histVars, executed, gameVars>>

\* A blank line has no first word.
EnterTooFew(command) ==
    /\ Editing /\ cmd_len > 0 /\ LineFits
    /\ Words(Line) < WordsUsed(command)
    /\ Fail("no_word")
    /\ UNCHANGED <<console_state, lineVars, histVars, executed, gameVars>>

\* The line in cmd with its NUL, as split() leaves it.
Decoded ==
    LET cuts == Cuts(Line)
    IN  [n \in Slots |-> IF n = cmd_len \/ n + 1 \in cuts THEN NUL ELSE cmd[n]]

Entering(command) ==
    /\ Editing /\ cmd_len > 0 /\ LineFits
    /\ Words(Line) >= WordsUsed(command)
    /\ console_state' = StateAfter[command]
    /\ executed' = Line

StoredCommands == {"other", "getdev", "fatwrite", "disable", "utstest", "snake"}

\* The memory for a stored line.
StoredSize(command) == IF command = "utstest" THEN CmdLimit ELSE HistSize

\* The line is cleared and a copy of it stored.  The copies, in hist and from
\* there, are made without the NUL, in memory that may hold anything.
EnterStored(command) ==
    /\ Entering(command)
    /\ cmd_hist + 1 < CmdHistory
    /\ cmd' = [n \in Slots |-> NUL] /\ cursor_index' = 0 /\ cmd_len' = 0
    /\ cmd_hist' = cmd_hist + 1 /\ cmd_hist_cursor' = cmd_hist + 2
    /\ \E n \in 0 .. MaxGarbage : \E garbage \in [1 .. n -> Char] :
          /\ cmd_len + n <= StoredSize(command)
          /\ history' = [history EXCEPT ![cmd_hist + 1] = Line \o garbage]
    /\ toSnake' = (toSnake \/ command = "snake")
    /\ UNCHANGED <<mousetests, fault, snake, toShell>>

\* The command has run, but the history has no place for it, or hist, with what
\* the stack held behind the line, is longer than the memory for its copy.
EnterBeyond(command) ==
    /\ Entering(command)
    /\ cmd_hist + 1 >= CmdHistory \/ cmd_len + MaxGarbage > StoredSize(command)
    /\ Fail("overrun")
    /\ cmd' = Decoded
    /\ toSnake' = (toSnake \/ command = "snake")
    /\ UNCHANGED <<cursor_index, cmd_len, histVars, snake, toShell>>

\* mousetest counts itself in the history and returns before it is stored; the
\* line is emptied, not cleared.
EnterMousetest ==
    /\ Entering("mousetest")
    /\ cmd_hist + 1 < MaxEntries
    /\ cmd' = Decoded /\ cursor_index' = 0 /\ cmd_len' = 0
    /\ cmd_hist' = cmd_hist + 1
    /\ mousetests' = mousetests \cup {cmd_hist + 1}
    /\ UNCHANGED <<history, cmd_hist_cursor, fault, gameVars>>

\* kbdtest returns at once: the line stays, cut into its words.
EnterKbdtest ==
    /\ Entering("kbdtest")
    /\ cmd' = Decoded
    /\ UNCHANGED <<cursor_index, cmd_len, histVars, fault, gameVars>>

---------------------------------------------------------------------------
(* The history: the keys Up and Down, and the mouse wheel.                 *)

\* The entry is in the history and not null, its characters fit the line, and
\* the line has an end then.
Recallable(h) ==
    /\ h < CmdHistory /\ history[h] # None
    /\ Len(history[h]) <= CmdLimit /\ Ends(Copy(cmd, history[h]))

RecallFails(h) ==
    /\ Fail(IF h < CmdHistory /\ history[h] = None THEN "no_entry" ELSE "overrun")
    /\ UNCHANGED lineVars

\* Faulty variant: the length and the cursor are not set again.
RecallShort(h) ==
    /\ cmd_hist_cursor' = h
    /\ IF Recallable(h)
         THEN cmd' = Copy(cmd, history[h]) /\ UNCHANGED <<cursor_index, cmd_len, fault>>
         ELSE RecallFails(h)

\* An entry of the history comes up: its characters are copied over the line.
Recall(h) ==
    /\ cmd_hist_cursor' = h
    /\ IF Recallable(h)
         THEN /\ cmd' = Copy(cmd, history[h])
              /\ cursor_index' = StrLen(cmd') /\ cmd_len' = StrLen(cmd')
              /\ UNCHANGED fault
         ELSE RecallFails(h)

EmptyPrompt ==
    /\ cmd_hist_cursor' = cmd_hist + 1
    /\ cmd' = [cmd EXCEPT ![0] = NUL] /\ cursor_index' = 0 /\ cmd_len' = 0
    /\ UNCHANGED fault

\* Faulty variant: the upper limit of the history is off by one.
scroll_hist_beyond(direction) ==
    /\ ~(cmd_hist_cursor <= 0 /\ direction = -1)
    /\ LET h == cmd_hist_cursor + direction
       IN  IF h \in 0 .. cmd_hist + 1 THEN Recall(h) ELSE EmptyPrompt
    /\ UNCHANGED <<console_state, history, cmd_hist, mousetests, executed, gameVars>>

scroll_hist(direction) ==
    /\ ~(cmd_hist_cursor <= 0 /\ direction = -1)
    /\ LET h == cmd_hist_cursor + direction
       IN  IF h \in 0 .. cmd_hist THEN Recall(h) ELSE EmptyPrompt
    /\ UNCHANGED <<console_state, history, cmd_hist, mousetests, executed, gameVars>>

KeyUpDown == Editing /\ \E direction \in {-1, 1} : scroll_hist(direction)

\* The wheel scrolls in every state that does not show the mouse's reports.
MouseWheel ==
    /\ Running /\ console_state # "MOUSE_TEST"
    /\ \E direction \in {-1, 1} : scroll_hist(direction)

---------------------------------------------------------------------------
(* The end of the mouse test, and the game in its own protection domain.   *)

\* Control and c.
EndMouseTest ==
    /\ Running /\ console_state = "MOUSE_TEST"
    /\ console_state' = "CONSOLE"
    /\ UNCHANGED <<lineVars, histVars, executed, fault, gameVars>>

\* The game runs from its notification until it is lost or left; then it
\* notifies the shell.
SnakeStarts ==
    /\ toSnake /\ snake = "wait"
    /\ toSnake' = FALSE /\ snake' = "play"
    /\ UNCHANGED <<console_state, lineVars, histVars, executed, fault, toShell>>

SnakeEnds ==
    /\ snake = "play"
    /\ snake' = "wait" /\ toShell' = TRUE
    /\ UNCHANGED <<console_state, lineVars, histVars, executed, fault, toSnake>>

\* Faulty variant: the prompt comes up and the state stays.
SnakeNotifyForgets ==
    /\ Running /\ toShell /\ toShell' = FALSE
    /\ UNCHANGED <<console_state, lineVars, histVars, executed, fault, toSnake, snake>>

SnakeNotify ==
    /\ Running /\ toShell /\ toShell' = FALSE
    /\ console_state' = "CONSOLE"
    /\ UNCHANGED <<lineVars, histVars, executed, fault, toSnake, snake>>

---------------------------------------------------------------------------
Key ==
    \/ \E c \in Char : TypeChar(c)
    \/ TypeBeyond
    \/ BackSpace \/ CursorLeft \/ CursorRight
    \/ EnterEmpty \/ EnterTooLong \/ EnterMousetest \/ EnterKbdtest
    \/ \E command \in DOMAIN StateAfter : EnterTooFew(command)
    \/ \E command \in StoredCommands : EnterStored(command) \/ EnterBeyond(command)
    \/ KeyUpDown
    \/ EndMouseTest

Next == Key \/ MouseWheel \/ SnakeStarts \/ SnakeEnds \/ SnakeNotify

Spec == Init /\ [][Next]_vars

---------------------------------------------------------------------------
(* Properties.                                                             *)

\* The type invariant: until a fault the cursor is inside the line and the line
\* inside the buffer, which it may fill to the last character.  It has no NUL in
\* it where it can be edited and run, whatever was typed over, recalled or left
\* behind by an earlier line: decode_command reads it as a C string and would run
\* only a part of what the screen shows.  Only kbdtest leaves a line cut by
\* split(), and with it a state in which no key reaches the line.
TypeOK ==
    /\ console_state \in {StateAfter[command] : command \in DOMAIN StateAfter}
    /\ cmd \in [Slots -> Char \cup {NUL}]
    /\ Running /\ console_state # "KEYBOARD_TEST" => \A n \in DOMAIN Line : Line[n] # NUL
    /\ cursor_index \in 0 .. cmd_len /\ cmd_len \in 0 .. CmdLimit
    /\ cmd_hist \in Int /\ cmd_hist >= -1
    /\ \A h \in DOMAIN history : history[h] = None \/ history[h] \in Seq(Char)
    /\ fault \in {"none", "no_entry", "no_word", "overrun"}
    /\ toSnake \in BOOLEAN /\ snake \in {"wait", "play"} /\ toShell \in BOOLEAN

\* The place in the history from which the next Up or Down counts is an entry
\* or the prompt behind the last one, and every entry that can be scrolled to
\* holds a string, except those that mousetest took up without storing it; a
\* fault for want of an entry is at one of those.
HistoryMatches ==
    /\ cmd_hist_cursor \in 0 .. cmd_hist + 1
    /\ \A h \in 0 .. cmd_hist : h < CmdHistory => (history[h] = None <=> h \in mousetests)
    /\ fault = "no_entry" => cmd_hist_cursor \in mousetests

\* A step through the history puts the entry at the head of the line, with the
\* cursor at the end of it, whatever was at the prompt; nothing is behind the
\* entry unless the buffer held a character there.
RecallShowsEntry ==
    [][ cmd_hist_cursor' # cmd_hist_cursor /\ cmd_hist_cursor' \in 0 .. cmd_hist
        /\ Running' /\ cmd_hist' = cmd_hist
          => LET entry == history[cmd_hist_cursor']
             IN  /\ IsPrefix(entry, Line') /\ cursor_index' = cmd_len'
                 /\ Len(entry) < CmdLimit /\ cmd[Len(entry)] = NUL
                       => cmd_len' = Len(entry) ]_vars

\* The game and the keyboard of the prompt exclude each other: the console is
\* in SNAKE exactly while the game runs, is about to, or has just ended.
GameOwnsKeyboard == console_state = "SNAKE" <=> toSnake \/ snake = "play" \/ toShell

\* Typing, deleting, moving and entering on the buffer and its two indices are
\* those operations on a line of text, and what is run is that line, whole.
Editor == INSTANCE LineEditor WITH
    before <- SubSeq(Line, 1, cursor_index),
    after  <- SubSeq(Line, cursor_index + 1, cmd_len)

ImplementsEditor == Editor!Spec
===========================================================================
