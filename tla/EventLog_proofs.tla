-------------------------- MODULE EventLog_proofs --------------------------
(***************************************************************************)
(* EventLog for any writers, inode numbers and size limit: the inductive   *)
(* invariant IInv, that rotation keeps the newest events, and that a tail  *)
(* whose scans are not broken announces each event once.                   *)
(***************************************************************************)
EXTENDS EventLog, Integers, TLAPS

-----------------------------------------------------------------------------
\* Sequences

\* A sequence over a set is one over a larger set.
LEMMA SeqGrows ==
    ASSUME NEW n \in Nat, NEW s \in Seq(1..n)
    PROVE  s \in Seq(1..(n + 1)) /\ s \in Seq(Nat)
OBVIOUS

\* The end of a sequence.
LEMMA EndOf ==
    ASSUME NEW n \in Nat, NEW s \in Seq(1..n), NEW o \in 0..Len(s)
    PROVE  /\ SubSeq(s, o + 1, Len(s)) \in Seq(1..n)
           /\ Len(SubSeq(s, o + 1, Len(s))) = Len(s) - o
           /\ \A k \in 1..(Len(s) - o) : SubSeq(s, o + 1, Len(s))[k] = s[o + k]
OBVIOUS

\* Lines that count up to n, and the next one.
LEMMA CountsOn ==
    ASSUME NEW n \in Nat, NEW s \in Seq(1..n), \A k \in 1..Len(s) : s[k] = n - Len(s) + k
    PROVE  /\ Len(Append(s, n + 1)) = Len(s) + 1
           /\ \A k \in 1..Len(Append(s, n + 1)) :
                Append(s, n + 1)[k] = (n + 1) - Len(Append(s, n + 1)) + k
<1>1. Len(s) \in Nat /\ s \in Seq(Nat)
  BY SeqGrows
<1>2. /\ Len(Append(s, n + 1)) = Len(s) + 1
      /\ \A k \in 1..Len(s) : Append(s, n + 1)[k] = s[k]
      /\ Append(s, n + 1)[Len(s) + 1] = n + 1
  BY <1>1
<1>3. ASSUME NEW k \in 1..(Len(s) + 1) PROVE Append(s, n + 1)[k] = (n + 1) - (Len(s) + 1) + k
  <2>1. CASE k = Len(s) + 1
    BY <1>1, <1>2, <2>1
  <2>2. CASE k \in 1..Len(s)
    <3>1. s[k] = n - Len(s) + k
      BY <2>2
    <3>2. QED
      BY <1>1, <1>2, <2>2, <3>1
  <2>3. QED
    BY <1>1, <2>1, <2>2
<1>4. QED
  BY <1>2, <1>3

-----------------------------------------------------------------------------
\* Writers

States == [pc : Places, file : Inodes \cup {NoFile}]

\* A writer that moves on in its file.
LEMMA Gone ==
    ASSUME Cells, NEW w \in Writers, NEW pc \in Places, Goto(w, pc)
    PROVE  /\ writer' \in [Writers -> States]
           /\ writer'[w].pc = pc /\ writer'[w].file = writer[w].file
           /\ \A v \in Writers \ {w} : writer'[v] = writer[v]
<1>1. writer \in [Writers -> States] /\ writer[w] \in States
  BY DEF Cells, States
<1>2. [writer[w] EXCEPT !.pc = pc] \in States /\ [writer[w] EXCEPT !.pc = pc].pc = pc
      /\ [writer[w] EXCEPT !.pc = pc].file = writer[w].file
  BY <1>1 DEF States
<1>3. writer' = [writer EXCEPT ![w] = [writer[w] EXCEPT !.pc = pc]]
  BY DEF Goto
<1>4. QED
  BY <1>1, <1>2, <1>3

\* A writer that closes its file.
LEMMA Closed ==
    ASSUME Cells, Flocks, NEW w \in Writers, NEW pc \in {"idle", "open"}, CloseTo(w, pc)
    PROVE  /\ writer' \in [Writers -> States] /\ locked' \in [Inodes -> Writers \cup {NoFile}]
           /\ writer'[w].pc = pc /\ writer'[w].file = NoFile
           /\ \A v \in Writers \ {w} : writer'[v] = writer[v]
           /\ Flocks'
<1>1. writer \in [Writers -> States] /\ locked \in [Inodes -> Writers \cup {NoFile}]
  BY DEF Cells, States
<1>2. [pc |-> pc, file |-> NoFile] \in States
  BY DEF States, Places
<1>3. /\ writer' \in [Writers -> States] /\ writer'[w] = [pc |-> pc, file |-> NoFile]
      /\ \A v \in Writers \ {w} : writer'[v] = writer[v]
  BY <1>1, <1>2 DEF CloseTo
<1>4. /\ locked' \in [Inodes -> Writers \cup {NoFile}]
      /\ \A i \in Inodes : locked'[i] = IF locked[i] = w THEN NoFile ELSE locked[i]
  BY <1>1 DEF CloseTo
<1>5. Flocks'
  <2>1. \A v \in Writers : writer'[v].file = NoFile <=> writer'[v].pc \in {"idle", "open"}
    BY <1>3 DEF Flocks
  <2>2. \A i \in Inodes, v \in Writers :
            locked'[i] = v <=> writer'[v].file = i /\ writer'[v].pc \in {"flocked", "full", "fits"}
    BY <1>3, <1>4, EventLogConstants DEF Flocks
  <2>3. QED
    BY <2>1, <2>2 DEF Flocks
<1>6. QED
  BY <1>3, <1>4, <1>5

\* Only one writer is past the check.
LEMMA OnePast ==
    ASSUME IInv, NEW v \in Writers, NEW w \in Writers,
           writer[v].pc \in {"full", "fits"}, writer[w].pc \in {"full", "fits"}
    PROVE  v = w /\ path \in Inodes /\ path = writer[w].file
<1>1. writer[v].file = path /\ writer[w].file = path
  BY DEF IInv, CheckHolds
<1>2. path # NoFile
  BY <1>1 DEF IInv, Flocks
<1>3. path \in Inodes
  BY <1>2 DEF IInv, Cells
<1>4. QED
  BY <1>1, <1>3 DEF IInv, Flocks

\* The lines of the two files.
LEMMA FilesAre ==
    ASSUME Cells
    PROVE  /\ OfPath \in Seq(1..written) /\ OfOld \in Seq(1..written)
           /\ Len(OfPath) \in Nat /\ Len(OfOld) \in Nat /\ written \in Nat
           /\ path # NoFile => OfPath = lines[path]
           /\ old # NoFile => OfOld = lines[old]
           /\ path = NoFile => OfPath = <<>> /\ Len(OfPath) = 0
<1>1. <<>> \in Seq(1..written) /\ Len(<<>>) = 0 /\ written \in Nat
  BY DEF Cells
<1>2. OfPath \in Seq(1..written) /\ OfOld \in Seq(1..written)
  BY <1>1 DEF Cells, OfPath, OfOld
<1>3. QED
  BY <1>1, <1>2 DEF OfPath, OfOld

-----------------------------------------------------------------------------
\* The actions that move a writer only

\* What a step of the writers must leave alone.
LEMMA SameFiles ==
    ASSUME IInv, UNCHANGED <<path, old, lines, written, reader>>,
           writer' \in [Writers -> States], locked' \in [Inodes -> Writers \cup {NoFile}], Flocks',
           \A w \in Writers : /\ writer'[w].pc \in {"full", "fits"} => path = writer'[w].file
                              /\ writer'[w].pc = "full" => Len(lines[path]) > MaxLines
    PROVE  IInv'
<1>1. Cells'
  BY DEF IInv, Cells, States
<1>2. CheckHolds'
  BY DEF CheckHolds
<1>3. Newest'
  BY DEF IInv, Newest, OfPath, OfOld
<1>4. QED
  BY <1>1, <1>2, <1>3 DEF IInv

\* An append begins: no file is open yet.
LEMMA BeginKeeps ==
    ASSUME IInv, NEW w \in Writers, Begin(w)
    PROVE  IInv'
<1>1. /\ writer' \in [Writers -> States] /\ writer'[w].pc = "open" /\ writer'[w].file = writer[w].file
      /\ \A v \in Writers \ {w} : writer'[v] = writer[v]
  BY Gone DEF IInv, Begin, Places
<1>2. writer[w].pc = "idle" /\ UNCHANGED <<path, old, lines, locked, written, reader>>
  BY DEF Begin, files, tail
<1>3. Flocks'
  BY <1>1, <1>2 DEF IInv, Flocks
<1>4. QED
  BY <1>1, <1>2, <1>3, SameFiles DEF IInv, Cells, CheckHolds

\* The flock is taken on the file that is open, which nobody had.
LEMMA FlockKeeps ==
    ASSUME IInv, NEW w \in Writers, Flock(w)
    PROVE  IInv'
<1>1. /\ writer' \in [Writers -> States] /\ writer'[w].pc = "flocked" /\ writer'[w].file = writer[w].file
      /\ \A v \in Writers \ {w} : writer'[v] = writer[v]
  BY Gone DEF IInv, Flock, Places
<1>2. writer[w].pc = "opened" /\ UNCHANGED <<path, old, lines, written, reader>>
  BY DEF Flock, tail
<1>3. writer[w].file \in Inodes
  <2>1. writer[w].file \in Inodes \cup {NoFile} /\ writer[w].file # NoFile
    BY <1>2 DEF IInv, Cells, Flocks
  <2>2. QED
    BY <2>1
<1>4. /\ locked' \in [Inodes -> Writers \cup {NoFile}] /\ locked'[writer[w].file] = w
      /\ locked[writer[w].file] = NoFile
      /\ \A i \in Inodes \ {writer[w].file} : locked'[i] = locked[i]
  BY <1>3 DEF IInv, Cells, Flock
<1>5. Flocks'
  <2>1. \A v \in Writers : writer'[v].file = NoFile <=> writer'[v].pc \in {"idle", "open"}
    BY <1>1, <1>2 DEF IInv, Flocks
  <2>2. \A i \in Inodes, v \in Writers :
            locked'[i] = v <=> writer'[v].file = i /\ writer'[v].pc \in {"flocked", "full", "fits"}
    BY <1>1, <1>2, <1>3, <1>4, EventLogConstants DEF IInv, Flocks
  <2>3. QED
    BY <2>1, <2>2 DEF Flocks
<1>6. QED
  BY <1>1, <1>2, <1>4, <1>5, SameFiles DEF IInv, CheckHolds

\* The check under the flock: the path names the file.
LEMMA CheckKeeps ==
    ASSUME IInv, NEW w \in Writers, Check(w)
    PROVE  IInv'
<1>1. PICK pc \in {"full", "fits"} : Goto(w, pc) /\ (pc = "full" => Len(lines[path]) > MaxLines)
  BY DEF Check
<1>2. pc \in Places
  BY DEF Places
<1>3. /\ writer' \in [Writers -> States] /\ writer'[w].pc = pc /\ writer'[w].file = writer[w].file
      /\ \A v \in Writers \ {w} : writer'[v] = writer[v]
  BY <1>1, <1>2, Gone DEF IInv
<1>4. writer[w].pc = "flocked" /\ UNCHANGED <<path, old, lines, locked, written, reader>>
  BY DEF Check, files, tail
<1>5. Flocks'
  BY <1>3, <1>4 DEF IInv, Flocks
<1>6. QED
  BY <1>1, <1>3, <1>4, <1>5, SameFiles DEF IInv, Cells, CheckHolds, Check

\* A file is closed, to open another or after a failure; its flock goes.
LEMMA CloseKeeps ==
    ASSUME IInv, NEW w \in Writers, Reopen(w) \/ Fail(w)
    PROVE  IInv'
<1>1. PICK pc \in {"idle", "open"} : CloseTo(w, pc)
  BY DEF Reopen, Fail
<1>2. UNCHANGED <<path, old, lines, written, reader>>
  BY DEF Reopen, Fail, tail
<1>3. QED
  BY <1>1, <1>2, Closed, SameFiles DEF IInv, CheckHolds

\* The registry writes nothing to the log.
LEMMA ScanKeeps ==
    ASSUME IInv, Stat \/ Read
    PROVE  IInv'
<1>1. UNCHANGED <<path, old, lines, locked, writer, written>>
  BY DEF Stat, Read, files
<1>2. reader' \in [pc : {"idle", "read"}, cursor : [ino : Inodes \cup {NoFile}, offset : Nat]]
  <2>1. PICK c \in [ino : Inodes \cup {NoFile}, offset : Nat], p \in {"idle", "read"} :
          reader = [pc |-> p, cursor |-> c]
    BY DEF IInv, Cells
  <2>2. CASE Stat
    <3>1. PICK d \in [ino : Inodes \cup {NoFile}, offset : Nat] : reader' = [pc |-> "read", cursor |-> d]
      BY <2>1, <2>2 DEF IInv, Cells, Stat
    <3>2. QED
      BY <3>1
  <2>3. CASE Read
    <3>1. PICK n \in Nat : n = IF path = NoFile THEN 0 ELSE Len(lines[path])
      BY DEF IInv, Cells
    <3>2. [c EXCEPT !.offset = n] \in [ino : Inodes \cup {NoFile}, offset : Nat]
      BY <2>1
    <3>3. reader' = [pc |-> "idle", cursor |-> [c EXCEPT !.offset = n]]
      BY <2>1, <2>3, <3>1 DEF Read
    <3>4. QED
      BY <3>2, <3>3
  <2>4. QED
    BY <2>2, <2>3
<1>3. Cells'
  BY <1>1, <1>2 DEF IInv, Cells
<1>4. Flocks' /\ CheckHolds'
  BY <1>1 DEF IInv, Flocks, CheckHolds
<1>5. Newest'
  BY <1>1 DEF IInv, Newest, OfPath, OfOld
<1>6. QED
  BY <1>3, <1>4, <1>5 DEF IInv

-----------------------------------------------------------------------------
\* The actions that change the files

\* A new file has an inode that nobody has open, so no flock is on it.
LEMMA OpenKeeps ==
    ASSUME IInv, NEW w \in Writers, Open(w)
    PROVE  IInv'
<1>1. writer \in [Writers -> States] /\ writer[w].pc = "open" /\ UNCHANGED <<old, locked, written, reader>>
  BY DEF IInv, Cells, States, Open
<1>2. ASSUME NEW i \in Inodes, writer' = [writer EXCEPT ![w] = [pc |-> "opened", file |-> i]]
      PROVE  /\ writer' \in [Writers -> States] /\ writer'[w].pc = "opened" /\ writer'[w].file = i
             /\ \A v \in Writers \ {w} : writer'[v] = writer[v]
             /\ Flocks'
  <2>1. [pc |-> "opened", file |-> i] \in States
    BY DEF States, Places
  <2>2. /\ writer' \in [Writers -> States] /\ writer'[w].pc = "opened" /\ writer'[w].file = i
        /\ \A v \in Writers \ {w} : writer'[v] = writer[v]
    BY <1>1, <1>2, <2>1
  <2>3. \A v \in Writers : writer'[v].file = NoFile <=> writer'[v].pc \in {"idle", "open"}
    BY <2>2, EventLogConstants DEF IInv, Flocks
  <2>4. \A j \in Inodes, v \in Writers :
            locked'[j] = v <=> writer'[v].file = j /\ writer'[v].pc \in {"flocked", "full", "fits"}
    BY <1>1, <2>2 DEF IInv, Flocks
  <2>5. QED
    BY <2>2, <2>3, <2>4 DEF Flocks
<1>3. CASE path # NoFile
  <2>1. path \in Inodes /\ UNCHANGED <<path, lines>>
        /\ writer' = [writer EXCEPT ![w] = [pc |-> "opened", file |-> path]]
    BY <1>3 DEF IInv, Cells, Open
  <2>2. QED
    BY <1>1, <1>2, <2>1, SameFiles DEF IInv, Cells, CheckHolds
<1>4. CASE path = NoFile
  <2>1. PICK i \in Inodes : /\ Unused(i) /\ path' = i /\ lines' = [lines EXCEPT ![i] = <<>>]
                            /\ writer' = [writer EXCEPT ![w] = [pc |-> "opened", file |-> i]]
    BY <1>4 DEF Open
  <2>2. i # old /\ i # NoFile /\ \A v \in Writers : writer[v].file # i
    BY <2>1, EventLogConstants DEF Unused
  <2>3. <<>> \in Seq(1..written) /\ Len(<<>>) = 0
    OBVIOUS
  <2>4. /\ lines' \in [Inodes -> Seq(1..written)] /\ lines'[i] = <<>>
        /\ \A j \in Inodes \ {i} : lines'[j] = lines[j]
    BY <2>1, <2>3 DEF IInv, Cells
  <2>5. Cells'
    BY <1>1, <1>2, <2>1, <2>2, <2>4 DEF IInv, Cells, States
  <2>6. CheckHolds'
    <3>1. \A v \in Writers : writer[v].pc \notin {"full", "fits"}
      BY <1>4, OnePast, EventLogConstants
    <3>2. QED
      BY <1>2, <2>1, <3>1 DEF CheckHolds
  <2>7. Newest'
    <3>1. OfPath' = <<>> /\ Len(OfPath) = 0 /\ OfOld' = OfOld /\ Len(OfPath') = 0
          /\ (old # NoFile => lines'[old] = lines[old])
      BY <1>1, <1>4, <2>1, <2>2, <2>3, <2>4 DEF IInv, Cells, OfPath, OfOld
    <3>2. QED
      BY <1>1, <3>1 DEF IInv, Newest
  <2>8. QED
    BY <1>2, <2>1, <2>5, <2>6, <2>7 DEF IInv
<1>5. QED
  BY <1>3, <1>4

\* The rename: nobody else is past the check, so nobody writes to events.1.
LEMMA RotateKeeps ==
    ASSUME IInv, NEW w \in Writers, Rotate(w)
    PROVE  IInv'
<1>1. writer[w].pc = "full" /\ old' = path /\ path' = NoFile /\ UNCHANGED <<lines, written, reader>>
  BY DEF Rotate
<1>2. path \in Inodes /\ path # NoFile /\ Len(lines[path]) > MaxLines
  BY <1>1, OnePast, EventLogConstants DEF IInv, CheckHolds
<1>3. /\ writer' \in [Writers -> States] /\ locked' \in [Inodes -> Writers \cup {NoFile}]
      /\ writer'[w].pc = "open"
      /\ \A v \in Writers \ {w} : writer'[v] = writer[v]
      /\ Flocks'
  BY Closed DEF IInv, Rotate
<1>4. Cells'
  BY <1>1, <1>2, <1>3 DEF IInv, Cells, States
<1>5. CheckHolds'
  <2>1. \A v \in Writers : writer'[v].pc \notin {"full", "fits"}
    BY <1>1, <1>3, OnePast
  <2>2. QED
    BY <2>1 DEF CheckHolds
<1>6. Newest'
  <2>1. OfPath' = <<>> /\ Len(OfPath') = 0 /\ OfOld' = OfPath /\ Len(OfPath) \in Nat /\ written \in Nat
    BY <1>1, <1>2, FilesAre DEF IInv, OfPath, OfOld
  <2>2. QED
    BY <1>1, <1>2, <2>1 DEF IInv, Newest
<1>7. QED
  BY <1>3, <1>4, <1>5, <1>6 DEF IInv

\* The line goes to the end of the file that the path names.
LEMMA WriteKeeps ==
    ASSUME IInv, NEW w \in Writers, Write(w)
    PROVE  IInv' /\ path \in Inodes /\ path' = path /\ lines'[path] = Append(lines[path], written + 1)
<1>1. writer[w].pc = "fits" /\ UNCHANGED <<path, old, reader>> /\ written' = written + 1 /\ written \in Nat
  BY DEF IInv, Cells, Write, tail
<1>2. path \in Inodes /\ path = writer[w].file /\ path # NoFile /\ path # old
  BY <1>1, OnePast, EventLogConstants DEF IInv, Cells
<1>3. /\ writer' \in [Writers -> States] /\ locked' \in [Inodes -> Writers \cup {NoFile}]
      /\ writer'[w].pc = "idle"
      /\ \A v \in Writers \ {w} : writer'[v] = writer[v]
      /\ Flocks'
  BY Closed DEF IInv, Write
<1>4. PICK n \in Nat : n = written + 1
  BY <1>1
<1>5. \A i \in Inodes : lines[i] \in Seq(1..n)
  BY <1>1, <1>4, SeqGrows DEF IInv, Cells
<1>6. Append(lines[path], n) \in Seq(1..n)
  <2>1. n \in 1..n
    BY <1>1, <1>4
  <2>2. QED
    BY <1>2, <1>5, <2>1
<1>7. /\ lines' \in [Inodes -> Seq(1..n)] /\ lines'[path] = Append(lines[path], n)
      /\ \A i \in Inodes \ {path} : lines'[i] = lines[i]
  <2>1. lines' = [lines EXCEPT ![path] = Append(lines[path], n)]
    BY <1>2, <1>4 DEF Write
  <2>2. DOMAIN lines = Inodes
    BY DEF IInv, Cells
  <2>3. QED
    BY <1>2, <1>5, <1>6, <2>1, <2>2
<1>8. Cells'
  BY <1>1, <1>3, <1>4, <1>7 DEF IInv, Cells, States
<1>9. CheckHolds'
  <2>1. \A v \in Writers : writer'[v].pc \notin {"full", "fits"}
    BY <1>1, <1>3, OnePast
  <2>2. QED
    BY <2>1 DEF CheckHolds
<1>10. Newest'
  <2>1. OfPath' = Append(OfPath, n) /\ OfOld' = OfOld /\ OfPath \in Seq(1..written)
    BY <1>1, <1>2, <1>7, FilesAre DEF IInv, Cells, OfPath, OfOld
  <2>2. Len(OfPath) \in Nat /\ Len(OfOld) \in Nat
    BY FilesAre DEF IInv
  <2>3. /\ Len(OfPath') = Len(OfPath) + 1
        /\ \A k \in 1..Len(OfPath) : OfPath'[k] = OfPath[k]
        /\ OfPath'[Len(OfPath) + 1] = n
    BY <2>1, <2>2
  <2>4. \A k \in 1..Len(OfPath') : OfPath'[k] = written' - Len(OfPath') + k
    BY <1>1, <1>4, <2>1, CountsOn DEF IInv, Newest
  <2>5. \A k \in 1..Len(OfOld') : OfOld'[k] = written' - Len(OfPath') - Len(OfOld') + k
    BY <1>1, <2>1, <2>2, <2>3 DEF IInv, Newest
  <2>6. old' # NoFile => Len(lines'[old']) > MaxLines
    BY <1>1, <1>2, <1>7 DEF IInv, Newest, Cells
  <2>7. QED
    BY <2>4, <2>5, <2>6 DEF Newest
<1>11. QED
  BY <1>1, <1>2, <1>3, <1>4, <1>7, <1>8, <1>9, <1>10 DEF IInv

\* The inductive invariant of the log, for any writers: who passed the check
\* under its flock has the file the path names, and is alone; and the two
\* files' lines count up to the last event written.
THEOREM LogInvariant == Spec => []IInv
<1>1. Init => IInv
  <2>1. SUFFICES ASSUME Init PROVE IInv
    OBVIOUS
  <2>2. <<>> \in Seq(1..written) /\ Len(<<>>) = 0
    OBVIOUS
  <2>3. [pc |-> "idle", file |-> NoFile] \in [pc : Places, file : Inodes \cup {NoFile}]
    BY DEF Places
  <2>4. [pc |-> "idle", cursor |-> NoCursor]
          \in [pc : {"idle", "read"}, cursor : [ino : Inodes \cup {NoFile}, offset : Nat]]
    BY DEF NoCursor
  <2>5. Cells
    BY <2>1, <2>2, <2>3, <2>4 DEF Init, Cells
  <2>6. Flocks /\ CheckHolds
    BY <2>1, EventLogConstants DEF Init, Flocks, CheckHolds
  <2>7. Newest
    BY <2>1, <2>2 DEF Init, Newest, OfPath, OfOld
  <2>8. QED
    BY <2>5, <2>6, <2>7 DEF IInv
<1>2. IInv /\ [Next]_vars => IInv'
  <2>1. SUFFICES ASSUME IInv, [Next]_vars PROVE IInv'
    OBVIOUS
  <2>2. CASE UNCHANGED vars
    <3>1. UNCHANGED <<path, old, lines, locked, writer, written, reader>>
      BY <2>2 DEF vars
    <3>2. Flocks'
      BY <2>1, <3>1 DEF IInv, Flocks
    <3>3. QED
      BY <2>1, <3>1, <3>2, SameFiles DEF IInv, Cells, CheckHolds, States
  <2>3. CASE Next
    BY <2>1, <2>3, BeginKeeps, OpenKeeps, FlockKeeps, CheckKeeps, CloseKeeps, RotateKeeps, WriteKeeps,
       ScanKeeps DEF Next, Step
  <2>4. QED
    BY <2>1, <2>2, <2>3
<1>3. QED
  BY <1>1, <1>2, PTL DEF Spec

\* Two counting sequences, one after the other, count.
LEMMA CountsThrough ==
    ASSUME NEW n \in Nat, NEW s \in Seq(1..n), NEW t \in Seq(1..n),
           \A k \in 1..Len(t) : t[k] = n - Len(t) + k,
           \A k \in 1..Len(s) : s[k] = n - Len(t) - Len(s) + k
    PROVE  s \o t = [k \in 1..Len(s \o t) |-> n - Len(s \o t) + k]
<1>1. /\ s \o t \in Seq(1..n) /\ Len(s \o t) = Len(s) + Len(t) /\ Len(s) \in Nat /\ Len(t) \in Nat
      /\ \A k \in 1..(Len(s) + Len(t)) : (s \o t)[k] = IF k <= Len(s) THEN s[k] ELSE t[k - Len(s)]
  OBVIOUS
<1>2. ASSUME NEW k \in 1..(Len(s) + Len(t)) PROVE (s \o t)[k] = n - (Len(s) + Len(t)) + k
  <2>1. CASE k <= Len(s)
    <3>1. k \in 1..Len(s)
      BY <1>1, <2>1
    <3>2. s[k] = n - Len(t) - Len(s) + k
      BY <3>1
    <3>3. QED
      BY <1>1, <2>1, <3>2
  <2>2. CASE ~(k <= Len(s))
    <3>1. PICK j \in 1..Len(t) : j = k - Len(s)
      BY <1>1, <2>2
    <3>2. t[j] = n - Len(t) + j
      OBVIOUS
    <3>3. QED
      BY <1>1, <2>2, <3>1, <3>2
  <2>3. QED
    BY <2>1, <2>2
<1>3. s \o t = [k \in 1..(Len(s) + Len(t)) |-> (s \o t)[k]]
  <2>1. ASSUME NEW q \in Seq(1..n) PROVE q = [k \in 1..Len(q) |-> q[k]]
    OBVIOUS
  <2>2. QED
    BY <1>1, <2>1
<1>4. QED
  BY <1>1, <1>2, <1>3

\* Rotation loses nothing that is not a whole generation old (LogKept).
THEOREM LogIsKept == Spec => []LogKept
<1>1. IInv => LogKept
  <2>1. SUFFICES ASSUME IInv PROVE LogKept
    OBVIOUS
  <2>2. TypeOK
    BY <2>1 DEF IInv, Cells, Flocks, TypeOK
  <2>3. Kept = [k \in 1..Len(Kept) |-> written - Len(Kept) + k]
    BY <2>1, FilesAre, CountsThrough DEF IInv, Newest, Kept
  <2>4. QED
    BY <2>1, <2>2, <2>3 DEF LogKept, IInv, Newest
<1>2. QED
  BY <1>1, LogInvariant, PTL

-----------------------------------------------------------------------------
\* The tail

Increasing(s) == \A k, m \in DOMAIN s : k < m => s[k] < s[m]

CountsUp(s, n) == \A k \in 1..Len(s) : s[k] = n - Len(s) + k

\* The end of lines that count up to n.
LEMMA CountedEnd ==
    ASSUME NEW n \in Nat, NEW s \in Seq(1..n), CountsUp(s, n),
           NEW o \in 0..Len(s), NEW e \in Seq(1..n), e = SubSeq(s, o + 1, Len(s))
    PROVE  /\ Len(s) \in 0..n
           /\ e \in Seq(Nat) /\ Increasing(e)
           /\ Elements(e) = (n - Len(s) + o + 1)..n
<1>1. /\ e \in Seq(1..n) /\ Len(e) = Len(s) - o /\ Len(s) \in Nat
      /\ \A k \in 1..(Len(s) - o) : e[k] = s[o + k]
  <2>1. /\ Len(SubSeq(s, o + 1, Len(s))) = Len(s) - o
        /\ \A k \in 1..(Len(s) - o) : SubSeq(s, o + 1, Len(s))[k] = s[o + k]
    BY EndOf
  <2>2. Len(s) \in Nat
    OBVIOUS
  <2>3. QED
    BY <2>1, <2>2, Zenon
<1>2. \A k \in 1..(Len(s) - o) : e[k] = n - Len(s) + o + k
  BY <1>1 DEF CountsUp
<1>3. e \in Seq(Nat) /\ DOMAIN e = 1..(Len(s) - o)
  <2>1. e \in Seq(1..n) /\ Len(e) = Len(s) - o
    BY <1>1
  <2>2. DOMAIN e = 1..Len(e) /\ e \in Seq(Nat)
    BY <2>1, SeqGrows
  <2>3. QED
    BY <2>1, <2>2
<1>4. Len(s) \in 0..n
  <2>1. CASE Len(s) # 0
    <3>1. 1 \in 1..Len(s) /\ s[1] = n - Len(s) + 1 /\ s[1] \in 1..n
      BY <1>1, <2>1 DEF CountsUp
    <3>2. QED
      BY <1>1, <3>1
  <2>2. QED
    BY <1>1, <2>1
<1>5. Increasing(e)
  <2>1. SUFFICES ASSUME NEW k \in 1..(Len(s) - o), NEW m \in 1..(Len(s) - o), k < m
                 PROVE  e[k] < e[m]
    BY <1>3 DEF Increasing
  <2>2. e[k] = n - Len(s) + o + k /\ e[m] = n - Len(s) + o + m
    BY <1>2
  <2>3. QED
    BY <1>1, <2>1, <2>2
<1>6. Elements(e) = (n - Len(s) + o + 1)..n
  <2>1. ASSUME NEW x \in Elements(e) PROVE x \in (n - Len(s) + o + 1)..n
    <3>1. PICK k \in 1..(Len(s) - o) : x = e[k]
      BY <1>3, <2>1 DEF Elements
    <3>2. x = n - Len(s) + o + k
      BY <1>2, <3>1
    <3>3. QED
      BY <1>1, <3>2
  <2>2. ASSUME NEW x \in (n - Len(s) + o + 1)..n PROVE x \in Elements(e)
    <3>1. PICK k \in 1..(Len(s) - o) : x = n - Len(s) + o + k
      <4>1. PICK l \in Nat : l = Len(s) /\ o \in 0..l /\ x \in (n - l + o + 1)..n
        BY <1>1, <2>2
      <4>2. PICK k \in Int : k = x - (n - l + o)
        <5>1. x \in Int /\ x - (n - l + o) \in Int
          BY <4>1
        <5>2. QED
          BY <5>1
      <4>3. k \in 1..(l - o) /\ x = n - l + o + k
        BY <4>1, <4>2
      <4>4. QED
        BY <4>1, <4>3
    <3>2. x = e[k]
      BY <1>2, <3>1
    <3>3. QED
      BY <1>3, <3>2 DEF Elements
  <2>3. QED
    BY <2>1, <2>2
<1>7. QED
  BY <1>3, <1>4, <1>5, <1>6

\* What joining two sequences makes of their elements and their order.
LEMMA Joined ==
    ASSUME NEW s \in Seq(Nat), NEW t \in Seq(Nat)
    PROVE  /\ s \o t \in Seq(Nat)
           /\ Elements(s \o t) = Elements(s) \cup Elements(t)
           /\ Increasing(s) /\ Increasing(t) /\ (\A x \in Elements(s), y \in Elements(t) : x < y)
                => Increasing(s \o t)
<1>1. /\ s \o t \in Seq(Nat) /\ Len(s) \in Nat /\ Len(t) \in Nat
      /\ DOMAIN (s \o t) = 1..(Len(s) + Len(t)) /\ DOMAIN s = 1..Len(s) /\ DOMAIN t = 1..Len(t)
      /\ \A k \in 1..(Len(s) + Len(t)) : (s \o t)[k] = IF k <= Len(s) THEN s[k] ELSE t[k - Len(s)]
  OBVIOUS
<1>2. \A k \in 1..Len(s) : k \in DOMAIN (s \o t) /\ (s \o t)[k] = s[k]
  BY <1>1
<1>3. \A k \in 1..Len(t) : Len(s) + k \in DOMAIN (s \o t) /\ (s \o t)[Len(s) + k] = t[k]
  <2>1. SUFFICES ASSUME NEW k \in 1..Len(t)
                 PROVE  Len(s) + k \in DOMAIN (s \o t) /\ (s \o t)[Len(s) + k] = t[k]
    OBVIOUS
  <2>2. Len(s) + k \in 1..(Len(s) + Len(t)) /\ ~(Len(s) + k <= Len(s)) /\ (Len(s) + k) - Len(s) = k
    BY <1>1
  <2>3. QED
    BY <1>1, <2>2
<1>4. \A j \in DOMAIN (s \o t) : j \in 1..Len(s) \/ \E k \in 1..Len(t) : j = Len(s) + k
  <2>1. SUFFICES ASSUME NEW j \in 1..(Len(s) + Len(t)), j \notin 1..Len(s)
                 PROVE  \E k \in 1..Len(t) : j = Len(s) + k
    BY <1>1
  <2>2. j - Len(s) \in 1..Len(t) /\ j = Len(s) + (j - Len(s))
    BY <1>1, <2>1
  <2>3. QED
    BY <2>2
<1>5. Elements(s \o t) = Elements(s) \cup Elements(t)
  <2>1. ASSUME NEW x \in Elements(s \o t) PROVE x \in Elements(s) \cup Elements(t)
    <3>1. PICK j \in DOMAIN (s \o t) : x = (s \o t)[j]
      BY <2>1 DEF Elements
    <3>2. QED
      BY <1>1, <1>2, <1>3, <1>4, <3>1 DEF Elements
  <2>2. ASSUME NEW x \in Elements(s) PROVE x \in Elements(s \o t)
    BY <1>1, <1>2, <2>2 DEF Elements
  <2>3. ASSUME NEW x \in Elements(t) PROVE x \in Elements(s \o t)
    <3>1. PICK k \in 1..Len(t) : x = t[k]
      BY <1>1, <2>3 DEF Elements
    <3>2. PICK j \in DOMAIN (s \o t) : x = (s \o t)[j]
      BY <1>3, <3>1
    <3>3. QED
      BY <3>2 DEF Elements
  <2>4. QED
    BY <2>1, <2>2, <2>3
<1>6. ASSUME Increasing(s), Increasing(t), \A x \in Elements(s), y \in Elements(t) : x < y
      PROVE  Increasing(s \o t)
  <2>1. SUFFICES ASSUME NEW i \in DOMAIN (s \o t), NEW j \in DOMAIN (s \o t), i < j
                 PROVE  (s \o t)[i] < (s \o t)[j]
    BY DEF Increasing
  <2>2. CASE j \in 1..Len(s)
    <3>1. i \in 1..Len(s)
      BY <1>1, <2>1, <2>2
    <3>2. QED
      BY <1>1, <1>2, <1>6, <2>1, <2>2, <3>1 DEF Increasing
  <2>3. CASE j \notin 1..Len(s)
    <3>1. PICK k \in 1..Len(t) : j = Len(s) + k
      BY <1>4, <2>1, <2>3
    <3>2. (s \o t)[j] = t[k]
      BY <1>3, <3>1
    <3>3. CASE i \in 1..Len(s)
      <4>1. (s \o t)[i] = s[i] /\ s[i] \in Elements(s) /\ t[k] \in Elements(t)
        BY <1>1, <1>2, <3>3 DEF Elements
      <4>2. QED
        BY <1>6, <3>2, <4>1
    <3>4. CASE i \notin 1..Len(s)
      <4>1. PICK m \in 1..Len(t) : i = Len(s) + m
        BY <1>4, <2>1, <3>4
      <4>2. (s \o t)[i] = t[m] /\ m < k
        BY <1>1, <1>3, <2>1, <3>1, <4>1
      <4>3. t[m] < t[k]
        BY <1>1, <1>6, <4>2 DEF Increasing
      <4>4. QED
        BY <3>2, <4>2, <4>3
    <3>5. QED
      BY <3>3, <3>4
  <2>4. QED
    BY <2>2, <2>3
<1>7. QED
  BY <1>1, <1>5, <1>6

\* All of a sequence.
LEMMA WholeOf ==
    ASSUME NEW n \in Nat, NEW s \in Seq(1..n)
    PROVE  s = SubSeq(s, 1, Len(s))
OBVIOUS

\* The events that are ahead of an unbroken tail are those after Behind.
LEMMA AheadIs ==
    ASSUME IInv, Tailed, ~broken
    PROVE  /\ Behind \in 0..written
           /\ Ahead = (Behind + 1)..written
           /\ path = NoFile => Behind = written
           /\ path # NoFile /\ path = reader.cursor.ino =>
                /\ reader.cursor.offset \in 0..Len(lines[path])
                /\ After(path, reader.cursor.offset) \in Seq(Nat)
                /\ Increasing(After(path, reader.cursor.offset))
                /\ Ahead = Elements(After(path, reader.cursor.offset))
<1>1. written \in Nat /\ OfPath \in Seq(1..written) /\ Len(OfPath) \in Nat /\ reader.cursor.offset \in Nat
      /\ (path = NoFile => Len(OfPath) = 0) /\ (path # NoFile => OfPath = lines[path])
  BY FilesAre DEF IInv, Cells
<1>2. CASE path = NoFile
  <2>1. Behind = written
    BY <1>1, <1>2 DEF Behind
  <2>2. Ahead = {}
    BY <1>2 DEF Ahead
  <2>3. QED
    BY <1>1, <1>2, <2>1, <2>2
<1>3. CASE path # NoFile
  <2>1. PICK n \in Nat : n = written
    BY <1>1
  <2>2. PICK s \in Seq(1..n) : s = lines[path] /\ CountsUp(s, n)
    BY <1>1, <1>3, <2>1 DEF IInv, Newest, CountsUp
  <2>3. PICK o \in 0..Len(s) :
          /\ Behind = n - Len(s) + o
          /\ reader.cursor.ino = path => o = reader.cursor.offset
          /\ reader.cursor.ino # path => o = 0
    <3>1. CASE reader.cursor.ino = path
      <4>1. reader.cursor.offset \in 0..Len(s)
        BY <1>1, <1>3, <2>2, <3>1 DEF Tailed
      <4>2. QED
        BY <1>1, <1>3, <2>1, <2>2, <3>1, <4>1 DEF Behind
    <3>2. CASE reader.cursor.ino # path
      <4>1. 0 \in 0..Len(s) /\ Behind = n - Len(s) + 0
        BY <1>1, <1>3, <2>1, <2>2, <3>2 DEF Behind
      <4>2. QED
        BY <3>2, <4>1
    <3>3. QED
      BY <3>1, <3>2
  <2>4. PICK e \in Seq(1..n) : e = SubSeq(s, o + 1, Len(s))
    BY EndOf
  <2>5. Len(s) \in 0..n /\ e \in Seq(Nat) /\ Increasing(e) /\ Elements(e) = (n - Len(s) + o + 1)..n
    BY <2>2, <2>4, CountedEnd, Zenon
  <2>6. Behind \in 0..written /\ Elements(e) = (Behind + 1)..written
    BY <2>1, <2>3, <2>5
  <2>7. CASE reader.cursor.ino = path
    <3>1. After(path, reader.cursor.offset) = e
      <4>1. Len(s) \in Nat /\ ~(o > Len(s)) /\ o = reader.cursor.offset
        BY <2>3, <2>7
      <4>2. QED
        BY <2>2, <2>4, <4>1 DEF After
    <3>2. Ahead = Elements(e)
      BY <1>3, <2>7, <3>1 DEF Ahead, Missed
    <3>3. QED
      BY <1>3, <2>2, <2>3, <2>5, <2>6, <2>7, <3>1, <3>2
  <2>8. CASE reader.cursor.ino # path
    <3>1. e = s
      BY <2>3, <2>4, <2>8, WholeOf
    <3>2. Ahead = Elements(e)
      BY <1>3, <2>2, <2>8, <3>1 DEF Ahead, Missed
    <3>3. QED
      BY <1>3, <2>6, <2>8, <3>2
  <2>9. QED
    BY <2>7, <2>8
<1>4. QED
  BY <1>2, <1>3

\* What the tail's history needs of a step that does not touch the tail.
LEMMA TailStays ==
    ASSUME Tailed, UNCHANGED <<path, lines, written, reader, published, lost, broken>>
    PROVE  Tailed'
BY DEF Tailed, Behind, OfPath

\* A new file is empty: nothing is ahead of the tail.
LEMMA OpenTails ==
    ASSUME IInv, Tailed, NEW w \in Writers, Open(w)
    PROVE  Tailed'
<1>1. UNCHANGED <<written, reader, published, lost>>
  BY DEF Open
<1>2. CASE path # NoFile
  BY <1>1, <1>2, TailStays DEF Open
<1>3. CASE path = NoFile
  <2>1. PICK i \in Inodes : /\ path' = i /\ lines' = [lines EXCEPT ![i] = <<>>]
                            /\ broken' = (broken \/ reader.pc = "read" \/ i = reader.cursor.ino)
    BY <1>3 DEF Open
  <2>2. SUFFICES ASSUME ~broken' PROVE Tailed'
    BY DEF Tailed
  <2>3. ~broken /\ reader.pc # "read" /\ i # reader.cursor.ino /\ i # NoFile
    BY <2>1, <2>2, EventLogConstants
  <2>4. lines'[i] = <<>> /\ OfPath' = <<>> /\ Len(<<>>) = 0 /\ written \in Nat
    BY <2>1, <2>3 DEF IInv, Cells, OfPath
  <2>5. Behind' = written
    BY <1>1, <2>1, <2>3, <2>4 DEF Behind
  <2>6. Behind = written
    BY <1>3, <2>3, AheadIs
  <2>7. QED
    BY <1>1, <2>1, <2>3, <2>5, <2>6 DEF Tailed
<1>4. QED
  BY <1>2, <1>3

\* The rename takes what was ahead of the tail with it.
LEMMA RotateTails ==
    ASSUME IInv, Tailed, NEW w \in Writers, Rotate(w)
    PROVE  Tailed'
<1>1. SUFFICES ASSUME ~broken' PROVE Tailed'
  BY DEF Tailed
<1>2. ~broken /\ reader.pc # "read" /\ path' = NoFile /\ UNCHANGED <<written, reader, published>>
  BY <1>1 DEF Rotate
<1>3. path # NoFile
  BY OnePast, EventLogConstants DEF Rotate
<1>4. lost' = lost \cup Ahead
  BY <1>3 DEF Rotate, Ahead
<1>5. PICK n \in Nat, b \in Nat : b <= n /\ n = written /\ b = Behind /\ Ahead = (b + 1)..n
  <2>1. written \in Nat
    BY DEF IInv, Cells
  <2>2. Behind \in 0..written /\ Ahead = (Behind + 1)..written
    BY <1>2, AheadIs
  <2>3. QED
    BY <2>1, <2>2
<1>6. Behind' = n
  <2>1. OfPath' = <<>> /\ Len(<<>>) = 0
    BY <1>2 DEF OfPath
  <2>2. QED
    BY <1>2, <1>5, <2>1 DEF Behind
<1>7. Elements(published) \cup lost = 1..b /\ Elements(published) \cap lost = {}
  BY <1>2, <1>5 DEF Tailed
<1>8. Elements(published) \cup lost' = 1..n /\ Elements(published) \cap lost' = {}
  <2>1. (1..b) \cup ((b + 1)..n) = 1..n /\ (1..b) \cap ((b + 1)..n) = {}
    BY <1>5
  <2>2. QED
    BY <1>4, <1>5, <1>7, <2>1
<1>9. Elements(published)' = Elements(published)
  BY <1>2 DEF Elements
<1>10. QED
  BY <1>2, <1>6, <1>8, <1>9 DEF Tailed

\* The new line is ahead of the tail.
LEMMA WriteTails ==
    ASSUME IInv, Tailed, NEW w \in Writers, Write(w)
    PROVE  Tailed'
<1>1. UNCHANGED <<reader, published, lost, broken>> /\ written' = written + 1
  BY DEF Write, tail
<1>2. path \in Inodes /\ path' = path /\ lines'[path] = Append(lines[path], written + 1)
  BY WriteKeeps
<1>3. path # NoFile
  BY <1>2, EventLogConstants
<1>4. written \in Nat /\ lines[path] \in Seq(1..written) /\ reader.cursor.offset \in Nat
  BY <1>2 DEF IInv, Cells
<1>5. Len(lines'[path]) = Len(lines[path]) + 1 /\ Len(lines[path]) \in Nat
  BY <1>2, <1>4
<1>6. Behind' = Behind
  <2>1. PICK n \in Nat, l \in Nat, o \in Nat : n = written /\ l = Len(lines[path]) /\ o = reader.cursor.offset
    BY <1>4, <1>5
  <2>2. Behind = n - l + (IF reader.cursor.ino = path THEN o ELSE 0)
    BY <1>3, <2>1 DEF Behind, OfPath
  <2>3. Behind' = (n + 1) - (l + 1) + (IF reader.cursor.ino = path THEN o ELSE 0)
    BY <1>1, <1>2, <1>3, <1>5, <2>1 DEF Behind, OfPath
  <2>4. QED
    BY <2>2, <2>3
<1>7. QED
  BY <1>1, <1>2, <1>3, <1>4, <1>5, <1>6 DEF Tailed

\* Another inode starts at 0, and nothing of it was read.
LEMMA StatTails ==
    ASSUME IInv, Tailed, Stat
    PROVE  Tailed'
<1>1. UNCHANGED <<path, lines, written, published, lost, broken>>
  BY DEF Stat, files
<1>2. CASE reader.cursor.ino = path
  <2>1. reader'.cursor = reader.cursor
    BY <1>2 DEF Stat
  <2>2. Behind' = Behind
    BY <1>1, <2>1 DEF Behind, OfPath
  <2>3. QED
    BY <1>1, <1>2, <2>1, <2>2 DEF Tailed
<1>3. CASE reader.cursor.ino # path
  <2>1. reader'.cursor.ino = path /\ reader'.cursor.offset = 0
    BY <1>3 DEF Stat
  <2>2. Behind' = Behind
    BY <1>1, <1>3, <2>1 DEF Behind, OfPath
  <2>3. path # NoFile => Len(lines[path]) \in Nat
    BY DEF IInv, Cells
  <2>4. QED
    BY <1>1, <2>1, <2>2, <2>3 DEF Tailed
<1>4. QED
  BY <1>2, <1>3

\* What was ahead is announced, after all that was before it.
LEMMA ReadTails ==
    ASSUME IInv, Tailed, Read
    PROVE  Tailed'
<1>1. UNCHANGED <<path, lines, written, lost, broken>> /\ reader.pc = "read"
  BY DEF Read, files
<1>2. SUFFICES ASSUME ~broken PROVE Tailed'
  BY <1>1 DEF Tailed
<1>3. reader.cursor.ino = path
  BY <1>1, <1>2 DEF Tailed
<1>4. PICK c \in [ino : Inodes \cup {NoFile}, offset : Nat], p \in {"idle", "read"} :
        reader = [pc |-> p, cursor |-> c]
  BY DEF IInv, Cells
<1>5. PICK l \in Nat : l = IF path = NoFile THEN 0 ELSE Len(lines[path])
  BY DEF IInv, Cells
<1>6. reader'.pc = "idle" /\ reader'.cursor.ino = path /\ reader'.cursor.offset = l
  <2>1. reader' = [pc |-> "idle", cursor |-> [c EXCEPT !.offset = l]]
    BY <1>4, <1>5 DEF Read
  <2>2. [c EXCEPT !.offset = l].ino = c.ino /\ [c EXCEPT !.offset = l].offset = l
    BY <1>4
  <2>3. QED
    BY <1>3, <1>4, <2>1, <2>2
<1>7. PICK n \in Nat, b \in Nat : b <= n /\
        n = written /\ b = Behind /\ Ahead = (b + 1)..n /\ (path = NoFile => b = n)
  <2>1. written \in Nat
    BY DEF IInv, Cells
  <2>2. Behind \in 0..written /\ Ahead = (Behind + 1)..written /\ (path = NoFile => Behind = written)
    BY <1>2, AheadIs
  <2>3. QED
    BY <2>1, <2>2
<1>8. Behind' = n
  <2>1. Len(<<>>) = 0
    OBVIOUS
  <2>2. QED
    BY <1>1, <1>5, <1>6, <1>7, <2>1 DEF Behind, OfPath
<1>9. /\ published \in Seq(Nat) /\ Increasing(published)
      /\ Elements(published) \cup lost = 1..b /\ Elements(published) \cap lost = {}
  BY <1>2, <1>7 DEF Tailed, Increasing
<1>10. CASE path = NoFile
  <2>1. published' = published
    BY <1>10 DEF Read
  <2>2. QED
    BY <1>1, <1>2, <1>6, <1>7, <1>8, <1>9, <1>10, <2>1 DEF Tailed, Increasing
<1>11. CASE path # NoFile
  <2>1. PICK e \in Seq(Nat) : e = After(path, reader.cursor.offset) /\ Increasing(e) /\ Elements(e) = (b + 1)..n
    BY <1>2, <1>3, <1>7, <1>11, AheadIs
  <2>2. PICK q \in Seq(Nat) : q = published
    BY <1>9
  <2>3. published' = q \o e
    BY <1>11, <2>1, <2>2 DEF Read
  <2>4. \A x \in Elements(q), y \in Elements(e) : x < y
    <3>1. Elements(q) \subseteq 1..b
      BY <1>9, <2>2
    <3>2. QED
      BY <2>1, <3>1
  <2>5. q \o e \in Seq(Nat) /\ Elements(q \o e) = Elements(q) \cup Elements(e) /\ Increasing(q \o e)
    BY <1>9, <2>1, <2>2, <2>4, Joined
  <2>6. Elements(q \o e) \cup lost = 1..n /\ Elements(q \o e) \cap lost = {}
    <3>1. (1..b) \cup ((b + 1)..n) = 1..n /\ (1..b) \cap ((b + 1)..n) = {}
      BY <1>7
    <3>2. QED
      BY <1>9, <2>1, <2>2, <2>5, <3>1
  <2>7. published' \in Seq(Nat) /\ Increasing(published') /\ Elements(published') \cup lost = 1..n
        /\ Elements(published') \cap lost = {}
    BY <2>3, <2>5, <2>6
  <2>8. QED
    BY <1>1, <1>5, <1>6, <1>8, <1>11, <2>7 DEF Tailed, Increasing
<1>12. QED
  BY <1>10, <1>11

\* An unbroken tail announces every event once and in order (TailIsExact):
\* the events up to Behind are announced or lost, those after it are ahead.
THEOREM TailAnnouncesOnce == Spec => []TailIsExact
<1>1. Init => Tailed
  <2>1. SUFFICES ASSUME Init PROVE Tailed
    OBVIOUS
  <2>2. <<>> \in Seq(Nat) /\ Len(<<>>) = 0 /\ DOMAIN <<>> = {} /\ Elements(<<>>) = {}
    BY DEF Elements
  <2>3. Behind = 0 /\ 1..0 = {}
    <3>1. path = NoFile /\ written = 0 /\ Len(OfPath) = 0
      BY <2>1, <2>2 DEF Init, OfPath
    <3>2. QED
      BY <3>1 DEF Behind
  <2>4. QED
    BY <2>1, <2>2, <2>3 DEF Init, Tailed
<1>2. IInv /\ Tailed /\ [Next]_vars => Tailed'
  <2>1. SUFFICES ASSUME IInv, Tailed, [Next]_vars PROVE Tailed'
    OBVIOUS
  <2>2. CASE UNCHANGED vars
    BY <2>1, <2>2, TailStays DEF vars
  <2>3. ASSUME NEW w \in Writers, Begin(w) \/ Flock(w) \/ Check(w) \/ Reopen(w) \/ Fail(w) PROVE Tailed'
    <3>1. UNCHANGED <<path, lines, written, reader, published, lost, broken>>
      BY <2>3 DEF Begin, Flock, Check, Reopen, Fail, files, tail
    <3>2. QED
      BY <2>1, <3>1, TailStays
  <2>4. CASE Next
    BY <2>1, <2>3, <2>4, OpenTails, RotateTails, WriteTails, StatTails, ReadTails DEF Next, Step
  <2>5. QED
    BY <2>1, <2>2, <2>4
<1>3. IInv /\ Tailed => TailIsExact
  <2>1. SUFFICES ASSUME IInv, Tailed, ~broken PROVE TailIsExact
    BY DEF TailIsExact
  <2>2. PICK n \in Nat, b \in Nat : b <= n /\ n = written /\ b = Behind /\ Ahead = (b + 1)..n
    <3>1. written \in Nat
      BY <2>1 DEF IInv, Cells
    <3>2. Behind \in 0..written /\ Ahead = (Behind + 1)..written
      BY <2>1, AheadIs
    <3>3. QED
      BY <3>1, <3>2
  <2>3. Elements(published) \cup lost = 1..b
    BY <2>1, <2>2 DEF Tailed
  <2>4. (1..b) \cup ((b + 1)..n) = 1..n /\ (1..b) \cap ((b + 1)..n) = {}
    BY <2>2
  <2>5. Elements(published) \cup lost \cup Ahead = 1..written /\ (Elements(published) \cup lost) \cap Ahead = {}
    BY <2>2, <2>3, <2>4
  <2>6. QED
    BY <2>1, <2>5 DEF Tailed, TailIsExact
<1>4. QED
  BY <1>1, <1>2, <1>3, LogInvariant, PTL DEF Spec
=============================================================================
