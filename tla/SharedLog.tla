----------------------------- MODULE SharedLog ------------------------------
(***************************************************************************)
(* A file of JSON lines that several processes write without a lock, as    *)
(* policy/actions.jsonl, provenance/events.jsonl and the memory candidates *)
(* are: the Python tools open it for appending (O_APPEND) and write a line *)
(* in one call; the native shell (BBAppendLine) opens it, seeks to its end *)
(* and writes there, or, when there is no file, puts one with its line in  *)
(* place.  Readers take the file apart at the newlines and skip what does  *)
(* not parse.  Any writer may end, or fail, before it writes or when it    *)
(* has written a part of its line.                                         *)
(*                                                                         *)
(* Abstraction: a line is Length[l] cells, the last one with its newline.  *)
(* Each line is written once, by a thread or process of its own; a write   *)
(* that is cut short is not taken up again.                                *)
(***************************************************************************)
EXTENDS Naturals, Sequences, FiniteSets

CONSTANTS
    ToolLine,       \* lines of the Python tools
    ShellLine,      \* lines of the native shell
    Length,         \* how long each line is
    Hold            \* the lines that hold an action nothing decides

Line == ToolLine \cup ShellLine

ASSUME LinesAssumption == ToolLine \cap ShellLine = {} /\ Hold \subseteq Line
ASSUME LengthAssumption == Length \in [Line -> Nat \ {0}]

VARIABLES
    file,       \* the cells of the file of that name
    inode,      \* which file it is: 0 for none, each new file a new number
    pc,         \* where the writer of each line is
    handle,     \* the file it has opened
    offset,     \* where the shell will write
    overlap     \* history: the lines whose writers were at work together

vars == <<file, inode, pc, handle, offset, overlap>>

-----------------------------------------------------------------------------
Cell == {c \in Line \X Nat : c[2] \in 1..Length[c[1]]}
FirstCells(l, n) == [i \in 1..n |-> <<l, i>>]
EndsLine(c) == c[2] = Length[c[1]]

\* Whole, and after a newline.
ReadableAt(l, p) ==
    /\ p + Length[l] <= Len(file)
    /\ \A i \in 1..Length[l] : file[p + i] = <<l, i>>
    /\ p > 0 => EndsLine(file[p])

Readable(l) == \E p \in 0..Len(file) : ReadableAt(l, p)

\* The same, but after what is left of a write that was cut short.
GluedAt(l, p) ==
    /\ p + Length[l] <= Len(file)
    /\ \A i \in 1..Length[l] : file[p + i] = <<l, i>>
    /\ p > 0 /\ pc[file[p][1]] = "cut"

Glued(l) == \E p \in 0..Len(file) : GluedAt(l, p)

\* The file with some cells written from an offset on.
Overwrite(cells, at) ==
    SubSeq(file, 1, at) \o cells \o SubSeq(file, at + Len(cells) + 1, Len(file))

\* A tool writes at the end of the file, the shell where it has sought.
Place(l) == IF l \in ToolLine THEN Len(file) ELSE offset[l]

\* The first cells of a line go into the file that was opened, which another
\* may have replaced since: in such a file nothing is read any more.
Put(l, n) ==
    file' = IF handle[l] = inode THEN Overwrite(FirstCells(l, n), Place(l)) ELSE file

AtWork == {l \in Line : pc[l] \in {"open", "create", "seek"}}

-----------------------------------------------------------------------------
Init ==
    /\ file = <<>>
    /\ inode = 0
    /\ pc = [l \in Line |-> "unused"]
    /\ handle = [l \in Line |-> 0]
    /\ offset = [l \in Line |-> 0]
    /\ overlap = {}

Goto(l, from, to) ==
    /\ pc[l] = from
    /\ pc' = [pc EXCEPT ![l] = to]

Begin(l, to) ==
    /\ Goto(l, "unused", to)
    /\ overlap' = overlap \cup {{l, m} : m \in AtWork}

\* open("a"): the file is created if there is none.
OpenAppend(l) ==
    /\ l \in ToolLine
    /\ Begin(l, "open")
    /\ inode' = IF inode = 0 THEN 1 ELSE inode
    /\ handle' = [handle EXCEPT ![l] = inode']
    /\ UNCHANGED <<file, offset>>

AppendLine(l) ==
    /\ l \in ToolLine
    /\ Goto(l, "open", "written")
    /\ Put(l, Length[l])
    /\ UNCHANGED <<inode, handle, offset, overlap>>

\* fileHandleForWritingAtPath: finds the file, or ...
OpenForWriting(l) ==
    /\ l \in ShellLine
    /\ inode # 0
    /\ Begin(l, "open")
    /\ handle' = [handle EXCEPT ![l] = inode]
    /\ UNCHANGED <<file, inode, offset>>

\* ... does not.
FindNoFile(l) ==
    /\ l \in ShellLine
    /\ inode = 0
    /\ Begin(l, "create")
    /\ UNCHANGED <<file, inode, handle, offset>>

\* writeToFile:atomically: a new file takes the place of any that is there.
CreateFile(l) ==
    /\ Goto(l, "create", "written")
    /\ file' = FirstCells(l, Length[l])
    /\ inode' = inode + 1
    /\ UNCHANGED <<handle, offset, overlap>>

\* Mutant: the handle writes where it was opened, at the start.
SeekStart(l) ==
    /\ l \in ShellLine
    /\ Goto(l, "open", "seek")
    /\ UNCHANGED <<file, inode, handle, offset, overlap>>

\* seekToEndOfFile
SeekEnd(l) ==
    /\ l \in ShellLine
    /\ Goto(l, "open", "seek")
    /\ offset' = [offset EXCEPT ![l] = Len(file)]
    /\ UNCHANGED <<file, inode, handle, overlap>>

\* Mutant: the line is written without its newline.
WriteUnended(l) ==
    /\ Goto(l, "seek", "written")
    /\ Put(l, Length[l] - 1)
    /\ UNCHANGED <<inode, handle, offset, overlap>>

\* writeData: over whatever was appended since the seek.
WriteLine(l) ==
    /\ Goto(l, "seek", "written")
    /\ Put(l, Length[l])
    /\ UNCHANGED <<inode, handle, offset, overlap>>

\* The process ends before it writes, or nothing can be written.
GiveUp(l) ==
    /\ l \in AtWork
    /\ pc' = [pc EXCEPT ![l] = "failed"]
    /\ UNCHANGED <<file, inode, handle, offset, overlap>>

\* The disk is full, or the process ends, when a part of the line is written.
\* (The file that the shell puts in place is written elsewhere first.)
CutShort(l) ==
    /\ pc[l] = IF l \in ToolLine THEN "open" ELSE "seek"
    /\ pc' = [pc EXCEPT ![l] = "cut"]
    /\ \E n \in 1..Length[l] - 1 : Put(l, n)
    /\ UNCHANGED <<inode, handle, offset, overlap>>

Write(l) ==
    \/ OpenAppend(l) \/ AppendLine(l)
    \/ OpenForWriting(l) \/ FindNoFile(l) \/ CreateFile(l)
    \/ SeekEnd(l) \/ WriteLine(l)
    \/ GiveUp(l) \/ CutShort(l)

Next == \E l \in Line : Write(l)

Spec == Init /\ [][Next]_vars

-----------------------------------------------------------------------------
(* Properties.                                                             *)

TypeOK ==
    /\ file \in Seq(Cell)
    /\ inode \in Nat
    /\ pc \in [Line -> {"unused", "open", "create", "seek", "written", "cut", "failed"}]
    /\ handle \in [Line -> Nat]
    /\ offset \in [Line -> Nat]
    /\ overlap \subseteq SUBSET Line

\* However the writers overwrite each other, the file ends with a newline, or
\* with what is left of a write that was cut short: nothing else makes a line
\* written later a part of a damaged one.
FileEndsALine ==
    file # <<>> =>
        LET last == file[Len(file)]
        IN  EndsLine(last) \/ pc[last[1]] = "cut"

\* The damage is confined: a written line that cannot be read stands behind one
\* that was cut short, or was written while another was and one of the two is
\* the shell's.
DamageHasACause ==
    \A l \in Line : pc[l] = "written" /\ ~Readable(l) =>
        \/ Glued(l)
        \/ \E m \in Line \ {l} : {l, m} \in overlap /\ {l, m} \cap ShellLine # {}

\* The governance queue "should not silently resolve anything": an action
\* that was held and that nothing decides is in the log for the queue.
NothingSilentlyResolved ==
    \A h \in Hold : pc[h] = "written" => Readable(h)
=============================================================================
