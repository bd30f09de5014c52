-------------------------- MODULE SharedLogProofs ---------------------------
(***************************************************************************)
(* Proofs about SharedLog, for any lines of any length.                    *)
(***************************************************************************)
EXTENDS SharedLog, SequenceTheorems, TLAPS

Overlapped(l, m) == {l, m} \in overlap

LEMMA OverlapSymmetric ==
    ASSUME NEW l, NEW m
    PROVE  Overlapped(l, m) <=> Overlapped(m, l)
  <1>1. {l, m} = {m, l}
    OBVIOUS
  <1>. QED  BY <1>1 DEF Overlapped

-----------------------------------------------------------------------------
(***************************************************************************)
(* What a line is, and what writing one does to a file.                    *)
(***************************************************************************)
LEMMA CellsFacts ==
    ASSUME NEW l \in Line, NEW n \in 1..Length[l]
    PROVE  /\ Length[l] \in Nat \ {0} /\ n \in Nat \ {0}
           /\ FirstCells(l, n) \in Seq(Cell)
           /\ Len(FirstCells(l, n)) = n
           /\ \A i \in 1..n : FirstCells(l, n)[i] = <<l, i>>
  <1>1. Length[l] \in Nat \ {0} /\ n \in Nat \ {0} /\ n <= Length[l]
    BY LengthAssumption
  <1>2. \A i \in 1..n : <<l, i>> \in Cell
    BY <1>1 DEF Cell
  <1>3. FirstCells(l, n) \in Seq(Cell)
    BY <1>1, <1>2 DEF FirstCells
  <1>4. Len(FirstCells(l, n)) = n /\ \A i \in 1..n : FirstCells(l, n)[i] = <<l, i>>
    BY <1>1 DEF FirstCells
  <1>. QED  BY <1>1, <1>3, <1>4

\* Writing t over s from a place on changes those cells, and no others.
Splice(s, t, at) == SubSeq(s, 1, at) \o t \o SubSeq(s, at + Len(t) + 1, Len(s))

LEMMA SpliceFacts ==
    ASSUME NEW S, NEW s \in Seq(S), NEW t \in Seq(S), NEW at \in 0..Len(s)
    PROVE  /\ Splice(s, t, at) \in Seq(S)
           /\ Len(Splice(s, t, at)) = IF Len(s) > at + Len(t) THEN Len(s)
                                                            ELSE at + Len(t)
           /\ \A i \in 1..at : Splice(s, t, at)[i] = s[i]
           /\ \A i \in 1..Len(t) : Splice(s, t, at)[at + i] = t[i]
           /\ \A i \in (at + Len(t) + 1)..Len(s) : Splice(s, t, at)[i] = s[i]
  <1> DEFINE L == Len(t)
             a == SubSeq(s, 1, at)
             c == SubSeq(s, at + L + 1, Len(s))
             ab == a \o t
             f == Splice(s, t, at)
  <1>1. L \in Nat /\ at \in Nat /\ Len(s) \in Nat /\ at <= Len(s)
    OBVIOUS
  <1>2. a \in Seq(S) /\ Len(a) = at /\ \A i \in 1..at : a[i] = s[i]
    BY SubSeqProperties
  <1>3. /\ c \in Seq(S)
        /\ Len(c) = IF at + L + 1 <= Len(s) THEN Len(s) - (at + L + 1) + 1 ELSE 0
        /\ \A i \in 1..(Len(s) - (at + L + 1) + 1) : c[i] = s[at + L + 1 + i - 1]
    <2>1. \A i \in (at + L + 1)..Len(s) : s[i] \in S
      BY <1>1
    <2>. QED  BY <1>1, <2>1, SubSeqProperties
  <1>. HIDE DEF a, c
  <1>4. /\ ab \in Seq(S) /\ Len(ab) = Len(a) + L
        /\ \A i \in 1..Len(a) : ab[i] = a[i]
        /\ \A i \in 1..L : ab[Len(a) + i] = t[i]
    <2>1. a \in Seq(S)
      BY <1>2
    <2>. QED  BY <2>1
  <1>5. f = ab \o c
    BY DEF a, c, Splice
  <1>. HIDE DEF ab, f, L
  <1>6. /\ f \in Seq(S) /\ Len(f) = Len(ab) + Len(c)
        /\ \A i \in 1..Len(ab) : f[i] = ab[i]
        /\ \A i \in 1..Len(c) : f[Len(ab) + i] = c[i]
    <2>1. ab \in Seq(S) /\ c \in Seq(S)
      BY <1>3, <1>4
    <2>. QED  BY <1>5, <2>1
  <1>7. Len(f) = IF Len(s) > at + L THEN Len(s) ELSE at + L
    <2>1. Len(f) = at + L + Len(c)
      BY <1>1, <1>2, <1>4, <1>6
    <2>2. CASE at + L + 1 <= Len(s)
      <3>1. Len(c) = Len(s) - (at + L + 1) + 1
        BY <1>3, <2>2
      <3>. QED  BY <1>1, <2>1, <2>2, <3>1
    <2>3. CASE ~(at + L + 1 <= Len(s))
      <3>1. Len(c) = 0
        BY <1>3, <2>3
      <3>. QED  BY <1>1, <2>1, <2>3, <3>1
    <2>. QED  BY <2>2, <2>3
  <1>8. \A i \in 1..at : f[i] = s[i]
    BY <1>1, <1>2, <1>4, <1>6
  <1>9. ASSUME NEW i \in 1..L PROVE f[at + i] = t[i]
    BY <1>1, <1>2, <1>4, <1>6
  <1>10. ASSUME NEW i \in (at + L + 1)..Len(s) PROVE f[i] = s[i]
    <2>1. i - (at + L) \in 1..Len(c) /\ i - (at + L) \in 1..(Len(s) - (at + L + 1) + 1)
      BY <1>1, <1>3
    <2>2. Len(ab) + (i - (at + L)) = i /\ at + L + 1 + (i - (at + L)) - 1 = i
      BY <1>1, <1>2, <1>4
    <2>3. f[Len(ab) + (i - (at + L))] = c[i - (at + L)]
      BY <1>6, <2>1
    <2>4. c[i - (at + L)] = s[at + L + 1 + (i - (at + L)) - 1]
      BY <1>3, <2>1
    <2>. QED  BY <2>2, <2>3, <2>4
  <1>. QED  BY <1>6, <1>7, <1>8, <1>9, <1>10 DEF f, L

LEMMA OverwriteFacts ==
    ASSUME NEW l \in Line, NEW n \in 1..Length[l], NEW at \in 0..Len(file),
           NEW f, f = Overwrite(FirstCells(l, n), at), file \in Seq(Cell)
    PROVE  /\ f \in Seq(Cell)
           /\ Len(f) = IF Len(file) > at + n THEN Len(file) ELSE at + n
           /\ \A i \in 1..at : f[i] = file[i]
           /\ \A i \in 1..n : f[at + i] = <<l, i>>
           /\ \A i \in (at + n + 1)..Len(file) : f[i] = file[i]
  <1> DEFINE t == FirstCells(l, n)
  <1>1. t \in Seq(Cell) /\ Len(t) = n /\ \A i \in 1..n : t[i] = <<l, i>>
    BY CellsFacts
  <1>2. f = Splice(file, t, at)
    BY <1>1 DEF Overwrite, Splice
  <1>. HIDE DEF t
  <1>3. t \in Seq(Cell)
    BY <1>1
  <1>4. /\ f \in Seq(Cell)
        /\ Len(f) = IF Len(file) > at + Len(t) THEN Len(file) ELSE at + Len(t)
        /\ \A i \in 1..at : f[i] = file[i]
        /\ \A i \in 1..Len(t) : f[at + i] = t[i]
        /\ \A i \in (at + Len(t) + 1)..Len(file) : f[i] = file[i]
    BY <1>2, <1>3, SpliceFacts
  <1>5. Len(t) = n /\ \A i \in 1..n : t[i] = <<l, i>>
    BY <1>1
  <1>. QED  BY <1>4, <1>5

-----------------------------------------------------------------------------
(***************************************************************************)
(* The inductive invariant.                                                *)
(***************************************************************************)
NearShell(l) ==
    \E m \in Line \ {l} : Overlapped(l, m) /\ {l, m} \cap ShellLine # {}

\* After such a cell a line is read by itself, or is glued to a cut one.
Ends(c) == EndsLine(c) \/ pc[c[1]] = "cut"

SoundAt(l, p) ==
    /\ p + Length[l] <= Len(file)
    /\ \A i \in 1..Length[l] : file[p + i] = <<l, i>>
    /\ p > 0 => Ends(file[p])

Sound(l) == \E p \in 0..Len(file) : SoundAt(l, p)

LEMMA SoundIsReadableOrGlued ==
    \A l \in Line : Sound(l) => Readable(l) \/ Glued(l)
  BY DEF Sound, SoundAt, Ends, Readable, ReadableAt, Glued, GluedAt

\* Only the shell seeks or creates, and no line is in a file that is not there.
WritersInv ==
    /\ \A l \in Line : pc[l] \in {"create", "seek"} => l \in ShellLine
    /\ \A l \in Line : pc[l] \in {"open", "seek"} => handle[l] \in 1..inode
    /\ inode = 0 => file = <<>> /\ \A l \in Line : pc[l] # "written"

\* Two that are at work now, or a line written since a shell found no file,
\* have overlapped.
OverlapInv ==
    /\ \A l, m \in AtWork : l # m => Overlapped(l, m)
    /\ \A l, m \in Line : pc[l] = "written" /\ pc[m] = "create" => Overlapped(l, m)

InFile(l) == pc[l] = "seek" /\ handle[l] = inode

\* Where the shell will write: what it writes over has overlapped with it, and
\* it starts a line, or follows a cut one, unless another shell has written since.
SeekInv ==
    \A l \in Line : InFile(l) =>
        /\ offset[l] <= Len(file)
        /\ \A q \in (offset[l] + 1)..Len(file) : Overlapped(file[q][1], l)
        /\ offset[l] > 0 => Ends(file[offset[l]]) \/ NearShell(l)

ReplacedInv ==
    \A l \in Line :
        pc[l] \in {"open", "seek"} /\ handle[l] # inode => NearShell(l)

Damaged == \A l \in Line : pc[l] = "written" /\ ~Sound(l) => NearShell(l)

LogInv ==
    /\ TypeOK
    /\ WritersInv
    /\ OverlapInv
    /\ SeekInv
    /\ ReplacedInv
    /\ FileEndsALine
    /\ Damaged

LEMMA InitInv == Init => LogInv
  BY DEF Init, LogInv, TypeOK, WritersInv, OverlapInv, AtWork, SeekInv, InFile,
         ReplacedInv, FileEndsALine, Damaged

-----------------------------------------------------------------------------
(***************************************************************************)
(* Facts the steps have in common.                                         *)
(***************************************************************************)
LEMMA OverlapGrows ==
    ASSUME overlap \subseteq overlap'
    PROVE  /\ \A l, m \in Line : Overlapped(l, m) => Overlapped(l, m)'
           /\ \A l \in Line : NearShell(l) => NearShell(l)'
  BY DEF Overlapped, NearShell

LEMMA ShellAtWork ==
    ASSUME OverlapInv, NEW l \in AtWork, NEW m \in AtWork, l # m, m \in ShellLine
    PROVE  NearShell(l)
  BY DEF OverlapInv, NearShell, AtWork

\* A line that has been cut short stays so, and every cell its end.
LEMMA EndsStay ==
    ASSUME TypeOK, NEW l \in Line, NEW to,
           pc[l] \notin {"written", "cut", "failed"}, pc' = [pc EXCEPT ![l] = to],
           NEW c \in Cell, Ends(c)
    PROVE  EndsLine(c) \/ pc'[c[1]] = "cut"
  BY DEF Ends, TypeOK, Cell

\* A line stays sound as long as nothing up to its end changes.
LEMMA StillSound ==
    ASSUME TypeOK, NEW l \in Line, NEW to,
           pc[l] \notin {"written", "cut", "failed"}, pc' = [pc EXCEPT ![l] = to],
           NEW k \in Line, NEW p \in 0..Len(file), SoundAt(k, p),
           file' \in Seq(Cell), p + Length[k] <= Len(file'),
           \A i \in 1..(p + Length[k]) : file'[i] = file[i]
    PROVE  Sound(k)'
  <1>1. Length[k] \in Nat \ {0}
    BY LengthAssumption
  <1>2. p \in 0..Len(file') /\ p \in Nat
    BY <1>1 DEF TypeOK
  <1>3. \A i \in 1..Length[k] : file'[p + i] = <<k, i>>
    <2>. SUFFICES ASSUME NEW i \in 1..Length[k] PROVE file'[p + i] = <<k, i>>
      OBVIOUS
    <2>1. p + i \in 1..(p + Length[k])
      BY <1>1, <1>2
    <2>. QED  BY <2>1 DEF SoundAt
  <1>4. p > 0 => Ends(file[p])
    BY DEF SoundAt
  <1>5. p > 0 => file'[p] = file[p] /\ file[p] \in Cell
    BY <1>1, <1>2 DEF TypeOK
  <1>6. p > 0 => EndsLine(file'[p]) \/ pc'[file'[p][1]] = "cut"
    BY <1>4, <1>5, EndsStay
  <1>. QED  BY <1>2, <1>3, <1>6 DEF Sound, SoundAt, Ends, EndsLine

\* The same, when the file is left alone.
LEMMA SoundStays ==
    ASSUME TypeOK, NEW l \in Line, NEW to,
           pc[l] \notin {"written", "cut", "failed"}, pc' = [pc EXCEPT ![l] = to],
           file' = file, NEW k \in Line, Sound(k)
    PROVE  Sound(k)'
  <1>1. PICK p \in 0..Len(file) : SoundAt(k, p)
    BY DEF Sound
  <1>2. p + Length[k] <= Len(file') /\ \A i \in 1..(p + Length[k]) : file'[i] = file[i]
    BY <1>1 DEF SoundAt
  <1>3. file' \in Seq(Cell)
    BY DEF TypeOK
  <1>. QED  BY <1>1, <1>2, <1>3, StillSound

\* The end of the file stays one.
LEMMA FileEndStays ==
    ASSUME TypeOK, FileEndsALine, NEW l \in Line, NEW to,
           pc[l] \notin {"written", "cut", "failed"}, pc' = [pc EXCEPT ![l] = to],
           file' = file
    PROVE  FileEndsALine'
  <1>1. file # <<>> => file[Len(file)] \in Cell
    BY DEF TypeOK
  <1>2. file # <<>> => Ends(file[Len(file)])
    BY DEF FileEndsALine, Ends
  <1>. QED  BY <1>1, <1>2, EndsStay DEF FileEndsALine, EndsLine

\* Beginning a line overlaps it with all that are at work.
LEMMA BeginOverlaps ==
    ASSUME TypeOK, OverlapInv, NEW l \in Line,
           NEW to \in {"open", "create"}, Begin(l, to)
    PROVE  /\ overlap \subseteq overlap'
           /\ overlap' \subseteq SUBSET Line
           /\ AtWork' = AtWork \cup {l}
           /\ l \notin AtWork
           /\ \A m, n \in AtWork' : m # n => Overlapped(m, n)'
  <1>1. pc' = [pc EXCEPT ![l] = to] /\ pc[l] = "unused"
    BY DEF Begin, Goto
  <1>2. overlap' = overlap \cup {{l, m} : m \in AtWork}
    BY DEF Begin
  <1>3. AtWork' = AtWork \cup {l} /\ l \notin AtWork
    BY <1>1 DEF AtWork, TypeOK
  <1>4. overlap \subseteq overlap'
    BY <1>2
  <1>5. overlap' \subseteq SUBSET Line
    <2>1. \A m \in AtWork : {l, m} \in SUBSET Line
      BY DEF AtWork
    <2>. SUFFICES ASSUME NEW x \in overlap' PROVE x \in SUBSET Line
      OBVIOUS
    <2>2. CASE x \in overlap
      BY <2>2 DEF TypeOK
    <2>3. CASE x \in {{l, m} : m \in AtWork}
      <3>1. PICK m \in AtWork : x = {l, m}
        BY <2>3
      <3>. QED  BY <2>1, <3>1
    <2>. QED  BY <1>2, <2>2, <2>3
  <1>6. ASSUME NEW m \in AtWork PROVE Overlapped(l, m)' /\ Overlapped(m, l)'
    <2>1. {l, m} \in overlap' /\ {l, m} = {m, l}
      BY <1>2
    <2>. QED  BY <2>1 DEF Overlapped
  <1>7. ASSUME NEW m \in AtWork, NEW n \in AtWork, m # n
        PROVE  Overlapped(m, n)'
    BY <1>4, <1>7 DEF OverlapInv, Overlapped
  <1>. QED  BY <1>3, <1>4, <1>5, <1>6, <1>7

-----------------------------------------------------------------------------
(***************************************************************************)
(* The steps that leave the cells alone.                                   *)
(***************************************************************************)
\* A line begins: nothing that was written is touched.
LEMMA BeginInv ==
    ASSUME LogInv, NEW l \in Line, OpenAppend(l) \/ OpenForWriting(l) \/ FindNoFile(l)
    PROVE  LogInv'
  <1>. USE DEF LogInv
  <1>1. PICK to \in {"open", "create"} : Begin(l, to)
    BY DEF OpenAppend, OpenForWriting, FindNoFile
  <1>2. /\ overlap \subseteq overlap'
        /\ overlap' \subseteq SUBSET Line
        /\ AtWork' = AtWork \cup {l}
        /\ l \notin AtWork
        /\ \A m, n \in AtWork' : m # n => Overlapped(m, n)'
    BY <1>1, BeginOverlaps
  <1>3. /\ \A k, m \in Line : Overlapped(k, m) => Overlapped(k, m)'
        /\ \A k \in Line : NearShell(k) => NearShell(k)'
    BY <1>2, OverlapGrows
  <1>4. /\ file' = file /\ offset' = offset
        /\ pc[l] = "unused" /\ pc' = [pc EXCEPT ![l] = to]
    BY <1>1 DEF OpenAppend, OpenForWriting, FindNoFile, Begin, Goto
  <1>5. \/ /\ to = "open"
           /\ handle' = [handle EXCEPT ![l] = inode']
           /\ inode' = inode \/ (inode = 0 /\ inode' = 1)
           /\ inode' # 0
        \/ to = "create" /\ handle' = handle /\ inode' = inode /\ inode = 0
           /\ l \in ShellLine
    BY <1>4 DEF OpenAppend, OpenForWriting, FindNoFile, Begin, Goto, TypeOK
  <1>6. TypeOK'
    <2>1. inode' \in Nat /\ handle' \in [Line -> Nat]
      BY <1>5 DEF TypeOK
    <2>2. pc' \in [Line -> {"unused", "open", "create", "seek", "written", "cut",
                           "failed"}]
      BY <1>4 DEF TypeOK
    <2>. QED  BY <1>2, <1>4, <2>1, <2>2 DEF TypeOK
  <1>7. WritersInv'
    BY <1>4, <1>5, <1>6 DEF WritersInv, TypeOK
  <1>8. OverlapInv'
    <2>1. ASSUME NEW k \in Line, NEW m \in Line, pc'[k] = "written", pc'[m] = "create"
          PROVE  Overlapped(k, m)'
      <3>1. pc[k] = "written" /\ k # l
        BY <1>4, <2>1 DEF TypeOK
      <3>2. m # l
        BY <1>4, <1>5, <2>1, <3>1 DEF TypeOK, WritersInv
      <3>. QED  BY <1>3, <1>4, <2>1, <3>1, <3>2 DEF TypeOK, OverlapInv
    <2>. QED  BY <1>2, <2>1 DEF OverlapInv
  <1>9. ASSUME NEW k \in Line, pc'[k] \in {"open", "seek"}, k # l
        PROVE  pc[k] = pc'[k] /\ handle'[k] = handle[k] /\ inode' = inode
    BY <1>4, <1>5, <1>9 DEF TypeOK, WritersInv
  <1>14. ASSUME NEW k \in Line, offset[k] \in 1..Len(file), Ends(file[offset[k]])
         PROVE  EndsLine(file[offset[k]]) \/ pc'[file[offset[k]][1]] = "cut"
    <2>1. file[offset[k]] \in Cell
      BY <1>14 DEF TypeOK
    <2>. QED  BY <1>4, <1>14, <2>1, EndsStay
  <1>10. SeekInv'
    <2>. SUFFICES ASSUME NEW k \in Line, InFile(k)'
                  PROVE  /\ offset[k] <= Len(file)
                         /\ \A q \in (offset[k] + 1)..Len(file) :
                               {file[q][1], k} \in overlap'
                         /\ offset[k] > 0 => Ends(file[offset[k]]) \/ NearShell(k)'
      BY <1>4, <1>14 DEF SeekInv, Ends, EndsLine, Overlapped
    <2>1. k # l
      BY <1>1, <1>4 DEF InFile, TypeOK
    <2>2. InFile(k)
      BY <1>9, <2>1 DEF InFile
    <2>3. \A q \in (offset[k] + 1)..Len(file) : {file[q][1], k} \in overlap
      BY <2>2 DEF SeekInv, Overlapped
    <2>4. /\ offset[k] <= Len(file)
          /\ offset[k] > 0 => Ends(file[offset[k]]) \/ NearShell(k)
      BY <2>2 DEF SeekInv
    <2>. QED  BY <1>2, <1>3, <2>3, <2>4
  <1>11. ReplacedInv'
    BY <1>3, <1>4, <1>5, <1>9 DEF ReplacedInv, TypeOK
  <1>12. FileEndsALine'
    BY <1>4, FileEndStays
  <1>13. Damaged'
    <2>1. ASSUME NEW k \in Line, pc'[k] = "written"
          PROVE  pc[k] = "written" /\ (Sound(k) => Sound(k)')
      BY <1>1, <1>4, <2>1, SoundStays DEF TypeOK
    <2>. QED  BY <1>3, <2>1 DEF Damaged
  <1>. QED  BY <1>6, <1>7, <1>8, <1>10, <1>11, <1>12, <1>13

\* The shell looks where the file ends, or a writer gives up.
LEMMA WaitInv ==
    ASSUME LogInv, NEW l \in Line, SeekEnd(l) \/ GiveUp(l)
    PROVE  LogInv'
  <1>. USE DEF LogInv
  <1>1. /\ file' = file /\ inode' = inode /\ handle' = handle /\ overlap' = overlap
        /\ l \in AtWork /\ AtWork' \subseteq AtWork
    BY DEF SeekEnd, GiveUp, Goto, AtWork, TypeOK
  <1>2. \/ /\ pc[l] = "open" /\ pc' = [pc EXCEPT ![l] = "seek"] /\ l \in ShellLine
           /\ offset' = [offset EXCEPT ![l] = Len(file)]
        \/ pc' = [pc EXCEPT ![l] = "failed"] /\ offset' = offset
    BY DEF SeekEnd, GiveUp, Goto
  <1>14. \E to : pc[l] \notin {"written", "cut", "failed"} /\ pc' = [pc EXCEPT ![l] = to]
    BY <1>1, <1>2 DEF AtWork
  <1>3. /\ \A k, m \in Line : Overlapped(k, m)' <=> Overlapped(k, m)
        /\ \A k \in Line : NearShell(k)' <=> NearShell(k)
    BY <1>1 DEF Overlapped, NearShell
  <1>4. TypeOK'
    <2>1. Len(file) \in Nat
      BY DEF TypeOK
    <2>2. offset' \in [Line -> Nat]
      BY <1>2, <2>1 DEF TypeOK
    <2>3. pc' \in [Line -> {"unused", "open", "create", "seek", "written", "cut", "failed"}]
      BY <1>2 DEF TypeOK
    <2>. QED  BY <1>1, <2>2, <2>3 DEF TypeOK
  <1>5. WritersInv'
    BY <1>1, <1>2 DEF WritersInv, TypeOK
  <1>6. OverlapInv'
    BY <1>1, <1>2, <1>3 DEF OverlapInv, TypeOK, AtWork
  <1>7. SeekInv'
    <2>. SUFFICES ASSUME NEW k \in Line, InFile(k)'
                  PROVE  /\ offset'[k] <= Len(file)
                         /\ \A q \in (offset'[k] + 1)..Len(file) :
                               Overlapped(file[q][1], k)
                         /\ offset'[k] > 0 =>
                               \/ EndsLine(file[offset'[k]])
                               \/ pc'[file[offset'[k]][1]] = "cut"
                               \/ NearShell(k)
      BY <1>1, <1>3 DEF SeekInv, Ends, EndsLine, Overlapped
    <2>1. CASE k = l
      <3>1. offset'[k] = Len(file)
        BY <1>2, <2>1 DEF InFile, TypeOK
      <3>2. Len(file) > 0 => file # <<>>
        OBVIOUS
      <3>3. Len(file) \in Nat
        BY DEF TypeOK
      <3>4. FileEndsALine'
        BY <1>1, <1>14, FileEndStays
      <3>5. file # <<>> =>
               EndsLine(file[Len(file)]) \/ pc'[file[Len(file)][1]] = "cut"
        BY <1>1, <3>4 DEF FileEndsALine, EndsLine
      <3>. QED  BY <3>1, <3>2, <3>3, <3>5
    <2>2. CASE k # l
      <3>1. InFile(k) /\ offset'[k] = offset[k]
        BY <1>1, <1>2, <2>2 DEF InFile, TypeOK
      <3>2. /\ offset[k] \in Nat /\ offset[k] <= Len(file)
            /\ \A q \in (offset[k] + 1)..Len(file) : Overlapped(file[q][1], k)
            /\ offset[k] > 0 => Ends(file[offset[k]]) \/ NearShell(k)
        BY <3>1 DEF SeekInv, TypeOK
      <3>3. offset[k] > 0 => file[offset[k]] \in Cell
        BY <3>2 DEF TypeOK
      <3>. QED  BY <1>14, <3>1, <3>2, <3>3, EndsStay
    <2>. QED  BY <2>1, <2>2
  <1>8. ReplacedInv'
    BY <1>1, <1>2, <1>3 DEF ReplacedInv, TypeOK
  <1>9. FileEndsALine'
    BY <1>1, <1>14, FileEndStays
  <1>10. Damaged'
    <2>1. ASSUME NEW k \in Line, pc'[k] = "written"
          PROVE  pc[k] = "written" /\ (Sound(k) => Sound(k)')
      BY <1>1, <1>2, <1>14, <2>1, SoundStays DEF TypeOK
    <2>. QED  BY <1>3, <2>1 DEF Damaged
  <1>. QED  BY <1>4, <1>5, <1>6, <1>7, <1>8, <1>9, <1>10

-----------------------------------------------------------------------------
(***************************************************************************)
(* The steps that write.                                                   *)
(***************************************************************************)
\* The first n cells of the line are in the file from a place on, and nothing else has changed.
WrittenAt(l, n, at) ==
    /\ file' \in Seq(Cell)
    /\ Len(file') = IF Len(file) > at + n THEN Len(file) ELSE at + n
    /\ \A q \in 1..Len(file') :
          IF at < q /\ q <= at + n
          THEN file'[q] = <<l, q - at>>
          ELSE q \in 1..Len(file) /\ file'[q] = file[q]

LEMMA OverwriteWrites ==
    ASSUME NEW l \in Line, NEW n \in 1..Length[l], NEW at \in 0..Len(file),
           file \in Seq(Cell), file' = Overwrite(FirstCells(l, n), at)
    PROVE  WrittenAt(l, n, at)
  <1> DEFINE f == Overwrite(FirstCells(l, n), at)
  <1>1. n \in Nat \ {0} /\ Len(file) \in Nat /\ at \in Nat /\ at <= Len(file)
    BY CellsFacts
  <1>2. /\ f \in Seq(Cell)
        /\ Len(f) = IF Len(file) > at + n THEN Len(file) ELSE at + n
        /\ \A i \in 1..at : f[i] = file[i]
        /\ \A i \in 1..n : f[at + i] = <<l, i>>
        /\ \A i \in (at + n + 1)..Len(file) : f[i] = file[i]
    BY OverwriteFacts
  <1>3. file' = f
    OBVIOUS
  <1>. HIDE DEF f
  <1>4. ASSUME NEW q \in 1..Len(f)
        PROVE  IF at < q /\ q <= at + n
               THEN f[q] = <<l, q - at>>
               ELSE q \in 1..Len(file) /\ f[q] = file[q]
    <2>1. CASE q <= at
      BY <1>1, <1>2, <2>1
    <2>2. CASE at < q /\ q <= at + n
      <3>1. q - at \in 1..n /\ at + (q - at) = q
        BY <1>1, <1>2, <2>2
      <3>. QED  BY <1>2, <2>2, <3>1
    <2>3. CASE at + n < q
      <3>1. q \in (at + n + 1)..Len(file) /\ q \in 1..Len(file)
        BY <1>1, <1>2, <2>3
      <3>. QED  BY <1>1, <1>2, <2>3, <3>1
    <2>. QED  BY <1>1, <2>1, <2>2, <2>3
  <1>. QED  BY <1>2, <1>3, <1>4 DEF WrittenAt

\* A line goes into the file: at its end, or where the shell has sought.
LEMMA WrittenInv ==
    ASSUME LogInv, NEW l \in Line, pc[l] \in {"open", "seek"}, handle[l] = inode,
           NEW n \in 1..Length[l], NEW to \in {"written", "cut"},
           to = "written" => n = Length[l],
           pc' = [pc EXCEPT ![l] = to],
           UNCHANGED <<inode, handle, offset, overlap>>,
           NEW at \in 0..Len(file), WrittenAt(l, n, at),
           at = Len(file) \/ (InFile(l) /\ at = offset[l])
    PROVE  LogInv'
  <1>. USE DEF LogInv
  <1>1. /\ n \in Nat \ {0} /\ Len(file) \in Nat
        /\ at \in Nat /\ at <= Len(file)
    <2>1. Len(file) \in Nat
      BY DEF TypeOK
    <2>2. at \in Nat /\ at <= Len(file)
      BY <2>1
    <2>. QED  BY <2>1, <2>2, CellsFacts
  <1>2. /\ file' \in Seq(Cell)
        /\ Len(file') =
              IF Len(file) > at + n THEN Len(file) ELSE at + n
    BY DEF WrittenAt
  <1>3. ASSUME NEW q \in 1..Len(file')
        PROVE  IF at < q /\ q <= at + n
               THEN file'[q] = <<l, q - at>>
               ELSE q \in 1..Len(file) /\ file'[q] = file[q]
    BY DEF WrittenAt
  <1>4. Len(file') \in Nat /\ Len(file) <= Len(file') /\ at + n <= Len(file')
    BY <1>1, <1>2
  <1>5. l \in AtWork /\ AtWork' = AtWork \ {l}
    BY DEF AtWork, TypeOK
  <1>6. at # Len(file) => l \in ShellLine /\ InFile(l) /\ at = offset[l]
    BY DEF InFile, WritersInv
  <1>7. /\ \A k, m \in Line : Overlapped(k, m)' <=> Overlapped(k, m)
        /\ \A k \in Line : NearShell(k)' <=> NearShell(k)
    BY DEF Overlapped, NearShell
  <1>8. TypeOK'
    BY <1>2 DEF TypeOK
  <1>9. WritersInv'
    <2>1. inode # 0
      BY DEF WritersInv, TypeOK
    <2>. QED  BY <2>1 DEF WritersInv, TypeOK
  <1>10. OverlapInv'
    <2>1. ASSUME NEW m \in Line, pc'[m] = "create" PROVE Overlapped(l, m) /\ m # l
      BY <1>5, <2>1 DEF OverlapInv, AtWork, TypeOK
    <2>2. ASSUME NEW k \in Line, NEW m \in Line, pc'[k] = "written", pc'[m] = "create"
          PROVE  Overlapped(k, m)'
      <3>1. m # l /\ pc[m] = "create"
        BY <2>2 DEF TypeOK
      <3>2. CASE k = l
        BY <1>7, <2>1, <2>2, <3>2
      <3>3. CASE k # l
        BY <1>7, <2>2, <3>1, <3>3 DEF OverlapInv, TypeOK
      <3>. QED  BY <3>2, <3>3
    <2>3. ASSUME NEW k \in AtWork', NEW m \in AtWork', k # m
          PROVE  Overlapped(k, m)'
      <3>1. k \in AtWork /\ m \in AtWork /\ k \in Line /\ m \in Line
        BY <1>5 DEF AtWork
      <3>. QED  BY <1>7, <2>3, <3>1 DEF OverlapInv
    <2>. QED  BY <2>2, <2>3 DEF OverlapInv
  <1>11. SeekInv'
    <2>. SUFFICES ASSUME NEW k \in Line, InFile(k)'
                  PROVE  /\ offset[k] <= Len(file')
                         /\ \A q \in (offset[k] + 1)..Len(file') :
                               {file'[q][1], k} \in overlap
                         /\ offset[k] > 0 =>
                               \/ EndsLine(file'[offset[k]])
                               \/ pc'[file'[offset[k]][1]] = "cut"
                               \/ NearShell(k)
      BY <1>7 DEF SeekInv, Ends, EndsLine, Overlapped
    <2>1. k # l /\ InFile(k) /\ k \in AtWork
      BY DEF InFile, TypeOK, AtWork
    <2>2. /\ offset[k] \in Nat /\ offset[k] <= Len(file)
          /\ \A q \in (offset[k] + 1)..Len(file) : {file[q][1], k} \in overlap
          /\ offset[k] > 0 => Ends(file[offset[k]]) \/ NearShell(k)
      BY <2>1 DEF SeekInv, Overlapped, TypeOK
    <2>3. {l, k} \in overlap
      BY <1>5, <2>1 DEF OverlapInv, Overlapped
    <2>4. ASSUME NEW q \in (offset[k] + 1)..Len(file')
          PROVE  {file'[q][1], k} \in overlap
      <3>1. q \in 1..Len(file')
        BY <1>4, <2>2
      <3>2. CASE at < q /\ q <= at + n
        <4>1. file'[q] = <<l, q - at>>
          BY <1>3, <3>1, <3>2
        <4>2. file'[q][1] = l
          BY <4>1
        <4>. QED  BY <2>3, <4>2
      <3>3. CASE ~(at < q /\ q <= at + n)
        <4>1. q \in 1..Len(file) /\ file'[q] = file[q]
          BY <1>3, <3>1, <3>3
        <4>. QED  BY <2>2, <4>1
      <3>. QED  BY <3>2, <3>3
    <2>5. ASSUME offset[k] > 0
          PROVE  \/ EndsLine(file'[offset[k]])
                 \/ pc'[file'[offset[k]][1]] = "cut"
                 \/ NearShell(k)
      <3>1. offset[k] \in 1..Len(file')
        BY <1>4, <2>2, <2>5
      <3>2. CASE at < offset[k]
        <4>1. l \in ShellLine
          BY <1>1, <1>6, <2>2, <3>2
        <4>. QED  BY <1>5, <2>1, <4>1, ShellAtWork
      <3>3. CASE ~(at < offset[k])
        <4>1. offset[k] \in 1..Len(file) /\ file'[offset[k]] = file[offset[k]]
          BY <1>3, <3>1, <3>3
        <4>2. file[offset[k]] \in Cell
          BY <4>1 DEF TypeOK
        <4>. QED  BY <2>2, <2>5, <4>1, <4>2, EndsStay
      <3>. QED  BY <3>2, <3>3
    <2>. QED  BY <1>4, <2>2, <2>4, <2>5
  <1>12. ReplacedInv'
    BY <1>7 DEF ReplacedInv, TypeOK
  <1>13. FileEndsALine'
    <2>1. Len(file') \in 1..Len(file')
      BY <1>1, <1>4
    <2>2. CASE Len(file) > at + n
      <3>1. Len(file') = Len(file) /\ file # <<>>
        BY <1>1, <1>2, <2>2
      <3>2. file'[Len(file')] = file[Len(file)]
        BY <1>1, <1>3, <2>1, <2>2, <3>1
      <3>3. file[Len(file)] \in Cell /\ Ends(file[Len(file)])
        BY <1>1, <3>1 DEF TypeOK, FileEndsALine, Ends
      <3>. QED  BY <3>2, <3>3, EndsStay DEF FileEndsALine, EndsLine
    <2>3. CASE ~(Len(file) > at + n)
      <3>1. Len(file') = at + n
        BY <1>2, <2>3
      <3>2. file'[Len(file')] = <<l, n>>
        BY <1>1, <1>3, <2>1, <3>1
      <3>3. n = Length[l] \/ pc'[l] = "cut"
        BY DEF TypeOK
      <3>. QED  BY <3>2, <3>3 DEF FileEndsALine, EndsLine
    <2>. QED  BY <2>2, <2>3
  <1>14. Damaged'
    <2>. SUFFICES ASSUME NEW k \in Line, pc'[k] = "written"
                  PROVE  Sound(k)' \/ NearShell(k)
      BY <1>7 DEF Damaged
    <2>1. CASE k = l
      <3>0. n = Length[l]
        BY <2>1 DEF TypeOK
      <3>1. CASE at > 0 => Ends(file[at])
        <4>1. at \in 0..Len(file')
          BY <1>1, <1>4
        <4>2. \A i \in 1..n : file'[at + i] = <<l, i>>
          <5>. SUFFICES ASSUME NEW i \in 1..n
                        PROVE  file'[at + i] = <<l, i>>
            OBVIOUS
          <5>1. /\ at + i \in 1..Len(file') /\ at < at + i
                /\ at + i <= at + n /\ (at + i) - at = i
            BY <1>1, <1>4
          <5>. QED  BY <1>3, <5>1
        <4>3. at > 0 => EndsLine(file'[at]) \/ pc'[file'[at][1]] = "cut"
          <5>. SUFFICES ASSUME at > 0
                        PROVE  EndsLine(file'[at]) \/ pc'[file'[at][1]] = "cut"
            OBVIOUS
          <5>1. at \in 1..Len(file') /\ ~(at < at)
            BY <1>1, <1>4
          <5>2. file'[at] = file[at] /\ file[at] \in Cell
            BY <1>1, <1>3, <5>1 DEF TypeOK
          <5>. QED  BY <3>1, <5>2, EndsStay
        <4>. QED
          BY <1>4, <2>1, <3>0, <4>1, <4>2, <4>3 DEF Sound, SoundAt, Ends, EndsLine
      <3>2. CASE ~(at > 0 => Ends(file[at]))
        <4>1. at # Len(file)
          BY <1>1, <3>2 DEF FileEndsALine, Ends
        <4>. QED  BY <1>6, <2>1, <3>2, <4>1 DEF SeekInv
      <3>. QED  BY <3>1, <3>2
    <2>2. CASE k # l /\ Sound(k)
      <3>1. PICK p \in 0..Len(file) : SoundAt(k, p)
        BY <2>2 DEF Sound
      <3>2. /\ p \in Nat /\ Length[k] \in Nat \ {0} /\ p + Length[k] <= Len(file)
            /\ file[p + Length[k]] = <<k, Length[k]>>
        <4>1. Length[k] \in Nat \ {0} /\ Length[k] \in 1..Length[k]
          BY LengthAssumption
        <4>. QED  BY <1>1, <3>1, <4>1 DEF SoundAt
      <3>3. CASE p + Length[k] <= at
        <4>1. \A i \in 1..(p + Length[k]) : file'[i] = file[i]
          <5>. SUFFICES ASSUME NEW i \in 1..(p + Length[k])
                        PROVE  file'[i] = file[i]
            OBVIOUS
          <5>1. i \in 1..Len(file') /\ ~(at < i)
            BY <1>1, <1>4, <3>2, <3>3
          <5>. QED  BY <1>3, <5>1
        <4>2. p + Length[k] <= Len(file')
          BY <1>4, <3>2, <1>1
        <4>. QED  BY <1>2, <3>1, <4>1, <4>2, StillSound
      <3>4. CASE ~(p + Length[k] <= at)
        <4>1. l \in ShellLine /\ InFile(l) /\ at = offset[l]
          BY <1>1, <1>6, <3>2, <3>4
        <4>2. p + Length[k] \in (offset[l] + 1)..Len(file)
          BY <1>1, <3>2, <3>4, <4>1
        <4>3. Overlapped(k, l)
          BY <3>2, <4>1, <4>2 DEF SeekInv
        <4>. QED  BY <2>2, <4>1, <4>3 DEF NearShell
      <3>. QED  BY <3>3, <3>4
    <2>3. CASE k # l /\ ~Sound(k)
      BY <2>3 DEF Damaged, TypeOK
    <2>. QED  BY <2>1, <2>2, <2>3
  <1>. QED  BY <1>8, <1>9, <1>10, <1>11, <1>12, <1>13, <1>14

\* A line goes to a file that has been replaced: the one of that name keeps.
LEMMA LostInv ==
    ASSUME LogInv, NEW l \in Line, pc[l] \in {"open", "seek"}, handle[l] # inode,
           NEW to \in {"written", "cut"}, pc' = [pc EXCEPT ![l] = to],
           UNCHANGED <<file, inode, handle, offset, overlap>>
    PROVE  LogInv'
  <1>. USE DEF LogInv
  <1>1. /\ \A k, m \in Line : Overlapped(k, m)' <=> Overlapped(k, m)
        /\ \A k \in Line : NearShell(k)' <=> NearShell(k)
    BY DEF Overlapped, NearShell
  <1>2. l \in AtWork /\ AtWork' = AtWork \ {l}
    BY DEF AtWork, TypeOK
  <1>3. TypeOK'
    BY DEF TypeOK
  <1>4. WritersInv'
    <2>1. inode # 0
      BY DEF WritersInv, TypeOK
    <2>. QED  BY <2>1 DEF WritersInv, TypeOK
  <1>5. OverlapInv'
    <2>1. ASSUME NEW k \in Line, NEW m \in Line, pc'[k] = "written", pc'[m] = "create"
          PROVE  Overlapped(k, m)'
      <3>1. m # l /\ pc[m] = "create" /\ m \in AtWork
        BY <2>1 DEF TypeOK, AtWork
      <3>2. CASE k = l
        BY <1>1, <1>2, <3>1, <3>2 DEF OverlapInv
      <3>3. CASE k # l
        BY <1>1, <2>1, <3>1, <3>3 DEF OverlapInv, TypeOK
      <3>. QED  BY <3>2, <3>3
    <2>2. ASSUME NEW k \in AtWork', NEW m \in AtWork', k # m
          PROVE  Overlapped(k, m)'
      <3>1. k \in AtWork /\ m \in AtWork /\ k \in Line /\ m \in Line
        BY <1>2 DEF AtWork
      <3>. QED  BY <1>1, <2>2, <3>1 DEF OverlapInv
    <2>. QED  BY <2>1, <2>2 DEF OverlapInv
  <1>6. SeekInv'
    <2>. SUFFICES ASSUME NEW k \in Line, InFile(k)'
                  PROVE  /\ offset[k] <= Len(file)
                         /\ \A q \in (offset[k] + 1)..Len(file) :
                               Overlapped(file[q][1], k)
                         /\ offset[k] > 0 =>
                               \/ EndsLine(file[offset[k]])
                               \/ pc'[file[offset[k]][1]] = "cut"
                               \/ NearShell(k)
      BY <1>1 DEF SeekInv, Ends, EndsLine, Overlapped
    <2>1. InFile(k)
      BY DEF InFile, TypeOK
    <2>2. /\ offset[k] \in Nat /\ offset[k] <= Len(file)
          /\ \A q \in (offset[k] + 1)..Len(file) : Overlapped(file[q][1], k)
          /\ offset[k] > 0 => Ends(file[offset[k]]) \/ NearShell(k)
      BY <2>1 DEF SeekInv, TypeOK
    <2>3. offset[k] > 0 => file[offset[k]] \in Cell
      BY <2>2 DEF TypeOK
    <2>. QED  BY <2>2, <2>3, EndsStay
  <1>7. ReplacedInv'
    BY <1>1 DEF ReplacedInv, TypeOK
  <1>8. FileEndsALine'
    BY FileEndStays
  <1>9. Damaged'
    <2>1. ASSUME NEW k \in Line, pc'[k] = "written"
          PROVE  Sound(k)' \/ NearShell(k)
      <3>1. Sound(k) => Sound(k)'
        BY SoundStays
      <3>2. CASE k = l
        BY <3>2 DEF ReplacedInv
      <3>3. CASE k # l
        BY <2>1, <3>1, <3>3 DEF Damaged, TypeOK
      <3>. QED  BY <3>2, <3>3
    <2>. QED  BY <1>1, <2>1 DEF Damaged
  <1>. QED  BY <1>3, <1>4, <1>5, <1>6, <1>7, <1>8, <1>9

\* A writer puts a part of its line, or all of it, into the file it has opened.
LEMMA PutInv ==
    ASSUME LogInv, NEW l \in Line,
           (pc[l] = "open" /\ l \in ToolLine) \/ pc[l] = "seek",
           NEW n \in 1..Length[l], Put(l, n), NEW to \in {"written", "cut"},
           to = "written" => n = Length[l], pc' = [pc EXCEPT ![l] = to],
           UNCHANGED <<inode, handle, offset, overlap>>
    PROVE  LogInv'
  <1>1. TypeOK /\ Len(file) \in Nat
    BY DEF LogInv, TypeOK
  <1>2. CASE handle[l] = inode
    <2>1. Place(l) = Len(file) \/ (InFile(l) /\ Place(l) = offset[l])
      BY <1>2 DEF Place, InFile
    <2>2. Place(l) \in 0..Len(file)
      BY <1>1, <2>1 DEF LogInv, SeekInv, TypeOK
    <2>3. WrittenAt(l, n, Place(l))
      BY <1>1, <1>2, <2>2, OverwriteWrites DEF Put, TypeOK
    <2>. QED  BY <1>2, <2>1, <2>2, <2>3, WrittenInv
  <1>3. CASE handle[l] # inode
    BY <1>3, LostInv DEF Put
  <1>. QED  BY <1>2, <1>3

\* The shell puts its file in place: every line written so far is gone, and
\* overlapped with it.
LEMMA CreateInv ==
    ASSUME LogInv, NEW l \in Line, CreateFile(l)
    PROVE  LogInv'
  <1>. USE DEF LogInv
  <1>1. /\ pc[l] = "create" /\ pc' = [pc EXCEPT ![l] = "written"]
        /\ file' = FirstCells(l, Length[l]) /\ inode' = inode + 1
        /\ handle' = handle /\ offset' = offset /\ overlap' = overlap
    BY DEF CreateFile, Goto
  <1>2. /\ Length[l] \in Nat \ {0} /\ file' \in Seq(Cell) /\ Len(file') = Length[l]
        /\ \A i \in 1..Length[l] : file'[i] = <<l, i>>
    <2>1. Length[l] \in 1..Length[l]
      BY LengthAssumption
    <2>. QED  BY <1>1, <2>1, CellsFacts
  <1>3. /\ \A k, m \in Line : Overlapped(k, m)' <=> Overlapped(k, m)
        /\ \A k \in Line : NearShell(k)' <=> NearShell(k)
    BY <1>1 DEF Overlapped, NearShell
  <1>4. l \in AtWork /\ AtWork' = AtWork \ {l} /\ l \in ShellLine
    BY <1>1 DEF AtWork, TypeOK, WritersInv
  <1>5. ASSUME NEW k \in Line, pc'[k] \in {"open", "seek"}
        PROVE  /\ k # l /\ pc[k] = pc'[k] /\ k \in AtWork /\ NearShell(k)
               /\ handle[k] \in 1..inode /\ handle[k] # inode'
    <2>1. k # l /\ pc[k] = pc'[k] /\ k \in AtWork
      BY <1>1, <1>5 DEF TypeOK, AtWork
    <2>2. handle[k] \in 1..inode /\ handle[k] # inode'
      BY <1>1, <1>5, <2>1 DEF WritersInv, TypeOK
    <2>. QED  BY <1>4, <2>1, <2>2, ShellAtWork
  <1>6. TypeOK'
    BY <1>1, <1>2 DEF TypeOK
  <1>7. WritersInv'
    <2>1. \A k \in Line : pc'[k] \in {"open", "seek"} => handle'[k] \in 1..inode'
      BY <1>1, <1>5 DEF TypeOK
    <2>2. \A k \in Line : pc'[k] \in {"create", "seek"} => k \in ShellLine
      BY <1>1 DEF WritersInv, TypeOK
    <2>3. inode' # 0
      BY <1>1 DEF TypeOK
    <2>. QED  BY <2>1, <2>2, <2>3 DEF WritersInv
  <1>8. OverlapInv'
    <2>1. ASSUME NEW k \in Line, NEW m \in Line, pc'[k] = "written", pc'[m] = "create"
          PROVE  Overlapped(k, m)'
      <3>1. m # l /\ pc[m] = "create" /\ m \in AtWork
        BY <1>1, <2>1 DEF TypeOK, AtWork
      <3>2. CASE k = l
        BY <1>3, <1>4, <3>1, <3>2 DEF OverlapInv
      <3>3. CASE k # l
        BY <1>1, <1>3, <2>1, <3>1, <3>3 DEF OverlapInv, TypeOK
      <3>. QED  BY <3>2, <3>3
    <2>2. ASSUME NEW k \in AtWork', NEW m \in AtWork', k # m
          PROVE  Overlapped(k, m)'
      <3>1. k \in AtWork /\ m \in AtWork /\ k \in Line /\ m \in Line
        BY <1>4 DEF AtWork
      <3>. QED  BY <1>3, <2>2, <3>1 DEF OverlapInv
    <2>. QED  BY <2>1, <2>2 DEF OverlapInv
  <1>9. SeekInv'
    BY <1>1, <1>5 DEF SeekInv, InFile
  <1>10. ReplacedInv'
    BY <1>3, <1>5 DEF ReplacedInv
  <1>11. FileEndsALine'
    BY <1>2 DEF FileEndsALine, EndsLine
  <1>12. Damaged'
    <2>1. ASSUME NEW k \in Line, pc'[k] = "written"
          PROVE  Sound(k)' \/ NearShell(k)
      <3>1. CASE k = l
        <4>1. 0 \in 0..Len(file')
          BY <1>2
        <4>. QED  BY <1>2, <3>1, <4>1 DEF Sound, SoundAt
      <3>2. CASE k # l
        <4>1. Overlapped(k, l)
          BY <1>1, <2>1, <3>2 DEF OverlapInv, TypeOK
        <4>. QED  BY <1>4, <3>2, <4>1 DEF NearShell
      <3>. QED  BY <3>1, <3>2
    <2>. QED  BY <1>3, <2>1 DEF Damaged
  <1>. QED  BY <1>6, <1>7, <1>8, <1>9, <1>10, <1>11, <1>12

-----------------------------------------------------------------------------
LEMMA NextInv == LogInv /\ [Next]_vars => LogInv'
  <1>. SUFFICES ASSUME LogInv, [Next]_vars PROVE LogInv'
    OBVIOUS
  <1>1. TypeOK /\ Len(file) \in Nat
    BY DEF LogInv, TypeOK
  <1>2. ASSUME NEW l \in Line, OpenAppend(l) \/ OpenForWriting(l) \/ FindNoFile(l)
        PROVE  LogInv'
    BY <1>2, BeginInv
  <1>3. ASSUME NEW l \in Line, SeekEnd(l) \/ GiveUp(l) PROVE LogInv'
    BY <1>3, WaitInv
  <1>4. ASSUME NEW l \in Line, CreateFile(l) PROVE LogInv'
    BY <1>4, CreateInv
  <1>5. ASSUME NEW l \in Line, AppendLine(l) PROVE LogInv'
    <2>1. /\ Length[l] \in 1..Length[l] /\ l \in ToolLine /\ Put(l, Length[l])
          /\ pc[l] = "open" /\ pc' = [pc EXCEPT ![l] = "written"]
          /\ UNCHANGED <<inode, handle, offset, overlap>>
      BY <1>5, LengthAssumption DEF AppendLine, Goto
    <2>. QED  BY <2>1, PutInv
  <1>6. ASSUME NEW l \in Line, WriteLine(l) PROVE LogInv'
    <2>1. /\ Length[l] \in 1..Length[l] /\ Put(l, Length[l])
          /\ pc[l] = "seek" /\ pc' = [pc EXCEPT ![l] = "written"]
          /\ UNCHANGED <<inode, handle, offset, overlap>>
      BY <1>6, LengthAssumption DEF WriteLine, Goto
    <2>. QED  BY <2>1, PutInv
  <1>8. ASSUME NEW l \in Line, CutShort(l) PROVE LogInv'
    <2>1. /\ (pc[l] = "open" /\ l \in ToolLine) \/ pc[l] = "seek"
          /\ pc' = [pc EXCEPT ![l] = "cut"]
          /\ UNCHANGED <<inode, handle, offset, overlap>>
      BY <1>8 DEF CutShort
    <2>2. PICK n \in 1..Length[l] - 1 : Put(l, n)
      BY <1>8 DEF CutShort
    <2>3. n \in 1..Length[l]
      BY LengthAssumption
    <2>. QED  BY <2>1, <2>2, <2>3, PutInv
  <1>7. CASE UNCHANGED vars
    <2>. USE <1>7 DEF vars, LogInv
    <2>1. TypeOK' /\ WritersInv' /\ FileEndsALine'
      BY DEF TypeOK, WritersInv, FileEndsALine, EndsLine
    <2>2. OverlapInv' /\ ReplacedInv'
      BY DEF OverlapInv, AtWork, Overlapped, ReplacedInv, NearShell
    <2>3. SeekInv'
      BY DEF SeekInv, InFile, Overlapped, NearShell, Ends, EndsLine
    <2>4. Damaged'
      BY DEF Damaged, Sound, SoundAt, NearShell, Overlapped, Ends, EndsLine
    <2>. QED  BY <2>1, <2>2, <2>3, <2>4
  <1>. QED
    BY <1>2, <1>3, <1>4, <1>5, <1>6, <1>7, <1>8 DEF Next, Write

LEMMA InvHolds == Spec => []LogInv
  BY InitInv, NextInv, PTL DEF Spec

\* Type correctness: whatever is written over what, the file is cells of lines.
THEOREM FileIsCells == Spec => []TypeOK
  <1>1. LogInv => TypeOK
    BY DEF LogInv
  <1>. QED  BY <1>1, InvHolds, PTL

\* However the tools and the shell overwrite each other, the log ends with a
\* newline or with a write that was cut short, whatever the lines and lengths.
THEOREM LogEndsALine == Spec => []FileEndsALine
  <1>1. LogInv => FileEndsALine
    BY DEF LogInv
  <1>. QED  BY <1>1, InvHolds, PTL

\* A written line is unreadable only behind a write that was cut short, or if
\* it was written while another was, and one of the two is the shell's.
THEOREM DamageIsConfined == Spec => []DamageHasACause
  <1>1. LogInv => DamageHasACause
    BY SoundIsReadableOrGlued
    DEF LogInv, Damaged, DamageHasACause, NearShell, Overlapped
  <1>. QED  BY <1>1, InvHolds, PTL

\* With no shell at work, whatever writes fail: a line that was written is
\* there, whole, and is read unless it stands right behind a write cut short.
THEOREM ToolsLoseOnlyBehindACut ==
    ShellLine = {} =>
        (Spec => [](\A l \in Line : pc[l] = "written" => Readable(l) \/ Glued(l)))
  <1>. SUFFICES ASSUME ShellLine = {}
                PROVE  Spec => [](\A l \in Line :
                                     pc[l] = "written" => Readable(l) \/ Glued(l))
    OBVIOUS
  <1>1. LogInv => \A l \in Line : pc[l] = "written" => Readable(l) \/ Glued(l)
    BY SoundIsReadableOrGlued DEF LogInv, Damaged, NearShell
  <1>. QED  BY <1>1, InvHolds, PTL
=============================================================================
