----------------------------- MODULE FileStore -----------------------------
(***************************************************************************)
(* What the shell's fatwrite and fatread promise of the files on a volume, *)
(* also when the device is pulled or the board loses power: a file that is *)
(* written over is first emptied and then, in one step, holds what was     *)
(* written of the new text; no other file changes; and a read returns what *)
(* the file holds.  FatVolume implements this on the sectors of a disk.    *)
(***************************************************************************)
EXTENDS Naturals, Sequences

CONSTANTS Name,         \* file names
          Data,         \* contents of a sector
          None          \* no file, no command, no answer

VARIABLES files,        \* what each file holds, None if there is no such file
          cmd,          \* the command being executed, or None
          answer        \* what the last command read, None if it read nothing

vars == <<files, cmd, answer>>

Writes(n) == [op : {"fatwrite"}, name : {n}, data : Seq(Data)]
Read(n) == [op |-> "fatread", name |-> n]

Init ==
    /\ files \in [Name -> {None, <<>>}]
    /\ cmd = None /\ answer = None

Begin ==
    /\ cmd = None
    /\ \E n \in Name : cmd' \in {Read(n)} \cup Writes(n)
    /\ answer' = None
    /\ UNCHANGED files

Set(content) ==
    /\ cmd # None /\ cmd.op = "fatwrite"
    /\ files' = [files EXCEPT ![cmd.name] = content]
    /\ UNCHANGED <<cmd, answer>>

Truncate == Set(<<>>)

\* A full disk cuts the text short.
Commit ==
    /\ cmd # None /\ cmd.op = "fatwrite" /\ files[cmd.name] = <<>>
    /\ \E k \in 1 .. Len(cmd.data) : Set(SubSeq(cmd.data, 1, k))

Answer ==
    /\ cmd # None /\ cmd.op = "fatread"
    /\ answer' = files[cmd.name]
    /\ cmd' = None
    /\ UNCHANGED files

\* The command returns, or the device is gone.
End ==
    /\ cmd # None
    /\ cmd' = None
    /\ UNCHANGED <<files, answer>>

Next == Begin \/ Truncate \/ Commit \/ Answer \/ End

Spec == Init /\ [][Next]_vars
=============================================================================
