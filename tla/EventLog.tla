------------------------------ MODULE EventLog ------------------------------
(***************************************************************************)
(* A lab's lifecycle event log and who tails it.  Every process that       *)
(* changes the lab appends a line to events.ndjson (events.rs append),     *)
(* which is rotated to events.1.ndjson when it is over MAX_BYTES; the      *)
(* daemon's registry (hub.rs scan) reads it from where the last scan left  *)
(* it, known by inode and offset.                                          *)
(*                                                                         *)
(* Writers agree by an flock on the file they opened and a look at what    *)
(* the path names now; the reader takes no lock.  Inode numbers are used   *)
(* again once nothing names the inode.  A line is the number of the event, *)
(* in the order of the writes; a file is its lines, and MaxLines stands    *)
(* for MAX_BYTES.  The lab lives throughout.                               *)
(***************************************************************************)
EXTENDS Naturals, Sequences, FiniteSets

CONSTANTS Writers,   \* processes that append
          Inodes,    \* inode numbers
          NoFile,    \* no inode: nothing there
          MaxLines,  \* MAX_BYTES, in lines: a longer file is rotated
          MaxEvents  \* bound: events appended

ASSUME EventLogConstants ==
    /\ NoFile \notin Inodes \cup Writers
    /\ MaxLines \in Nat /\ MaxEvents \in Nat

VARIABLES path,      \* the inode of events.ndjson
          old,       \* the inode of events.1.ndjson
          lines,     \* inode -> its lines
          locked,    \* inode -> the writer that has its flock, or NoFile
          writer,    \* writer -> its place and the inode it has open
          written,   \* how many events were written
          reader,    \* the registry: its place, the cursor, what it stat'ed
          published, \* the events it announced, in order (history)
          lost,      \* events rotated away before they were read (history)
          broken     \* the path changed under a scan, or an inode came back (history)

vars == <<path, old, lines, locked, writer, written, reader, published, lost, broken>>
files == <<path, old, lines, locked>>
tail  == <<reader, published, broken>>

Places == {"idle", "open", "opened", "flocked", "full", "fits"}

NoCursor == [ino |-> NoFile, offset |-> 0]

\* The daemon starts on a lab that has no events yet: its first scan, from
\* the end, leaves the cursor at the start.
Init ==
    /\ path = NoFile /\ old = NoFile
    /\ lines = [i \in Inodes |-> <<>>]
    /\ locked = [i \in Inodes |-> NoFile]
    /\ writer = [w \in Writers |-> [pc |-> "idle", file |-> NoFile]]
    /\ written = 0
    /\ reader = [pc |-> "idle", cursor |-> NoCursor]
    /\ published = <<>> /\ lost = {} /\ broken = FALSE

-----------------------------------------------------------------------------
\* Helpers

Unused(i) == i # path /\ i # old /\ \A w \in Writers : writer[w].file # i

Goto(w, pc) == writer' = [writer EXCEPT ![w].pc = pc]

\* Mutant: the file stays open, and so does its flock.
CloseToLeaky(w, pc) ==
    /\ writer' = [writer EXCEPT ![w] = [pc |-> pc, file |-> NoFile]]
    /\ UNCHANGED locked

\* The writer closes its file, and its flock goes.
CloseTo(w, pc) ==
    /\ writer' = [writer EXCEPT ![w] = [pc |-> pc, file |-> NoFile]]
    /\ locked' = [i \in Inodes |-> IF locked[i] = w THEN NoFile ELSE locked[i]]

\* The lines of file i after the first n; all of them when it has fewer.
After(i, n) == SubSeq(lines[i], (IF n > Len(lines[i]) THEN 0 ELSE n) + 1, Len(lines[i]))

Elements(s) == {s[k] : k \in DOMAIN s}

-----------------------------------------------------------------------------
\* events::append

Begin(w) ==
    /\ writer[w].pc = "idle"
    /\ written + Cardinality({v \in Writers : writer[v].pc # "idle"}) < MaxEvents
    /\ Goto(w, "open")
    /\ UNCHANGED <<files, written, tail, lost>>

\* O_CREAT | O_APPEND: what the path names, or a new file.
Open(w) ==
    /\ writer[w].pc = "open"
    /\ \/ /\ path # NoFile
          /\ writer' = [writer EXCEPT ![w] = [pc |-> "opened", file |-> path]]
          /\ UNCHANGED <<path, lines, broken>>
       \/ /\ path = NoFile
          /\ \E i \in Inodes :
                /\ Unused(i)
                /\ path' = i
                /\ lines' = [lines EXCEPT ![i] = <<>>]
                /\ writer' = [writer EXCEPT ![w] = [pc |-> "opened", file |-> i]]
                /\ broken' = (broken \/ reader.pc = "read" \/ i = reader.cursor.ino)
    /\ UNCHANGED <<old, locked, written, reader, published, lost>>

\* flock(LOCK_EX) waits for the file's other writers.
Flock(w) ==
    /\ writer[w].pc = "opened" /\ locked[writer[w].file] = NoFile
    /\ locked' = [locked EXCEPT ![writer[w].file] = w]
    /\ Goto(w, "flocked")
    /\ UNCHANGED <<path, old, lines, written, tail, lost>>

\* Mutant: whatever the path names now.
CheckBlind(w) ==
    /\ writer[w].pc = "flocked"
    /\ Goto(w, IF Len(lines[writer[w].file]) > MaxLines THEN "full" ELSE "fits")
    /\ UNCHANGED <<files, written, tail, lost>>

\* The path still names the file: it takes the line, or is to be rotated.
Check(w) ==
    /\ writer[w].pc = "flocked" /\ path = writer[w].file
    /\ Goto(w, IF Len(lines[path]) > MaxLines THEN "full" ELSE "fits")
    /\ UNCHANGED <<files, written, tail, lost>>

\* Another writer rotated it under us: open the new file.
Reopen(w) ==
    /\ writer[w].pc = "flocked" /\ path # writer[w].file
    /\ CloseTo(w, "open")
    /\ UNCHANGED <<path, old, lines, written, tail, lost>>

\* What a rename of the file to events.1 does to a tail that follows it.
Missed(i) ==
    IF reader.cursor.ino = i THEN Elements(After(i, reader.cursor.offset)) ELSE Elements(lines[i])

\* rename, over the generation before; then open the new file.
Rotate(w) ==
    /\ writer[w].pc = "full"
    /\ old' = path
    /\ path' = NoFile
    /\ CloseTo(w, "open")
    /\ lost' = IF path = NoFile THEN lost ELSE lost \cup Missed(path)
    /\ broken' = (broken \/ reader.pc = "read")
    /\ UNCHANGED <<lines, written, reader, published>>

Write(w) ==
    /\ writer[w].pc = "fits"
    /\ lines' = [lines EXCEPT ![writer[w].file] = Append(@, written + 1)]
    /\ written' = written + 1
    /\ CloseTo(w, "idle")
    /\ UNCHANGED <<path, old, tail, lost>>

\* A call of append fails, which record only logs, or the process is
\* killed: no line, and the file is closed.
Fail(w) ==
    /\ writer[w].pc # "idle"
    /\ CloseTo(w, "idle")
    /\ UNCHANGED <<path, old, lines, written, tail, lost>>

-----------------------------------------------------------------------------
\* hub.rs scan and view::read_events

\* Mutant: an offset is an offset, in whichever file.
StatOffsetOnly ==
    /\ reader.pc = "idle"
    /\ reader' = [pc |-> "read", cursor |-> [reader.cursor EXCEPT !.ino = path]]
    /\ UNCHANGED <<files, writer, written, published, lost, broken>>

\* metadata: another inode is another file, read from its start.
Stat ==
    /\ reader.pc = "idle"
    /\ reader' = [pc |-> "read",
                  cursor |-> IF reader.cursor.ino = path THEN reader.cursor
                             ELSE [ino |-> path, offset |-> 0]]
    /\ UNCHANGED <<files, writer, written, published, lost, broken>>

\* Mutant: the offset of the last line instead of the one after it.
ReadAgain ==
    /\ reader.pc = "read"
    /\ LET new == IF path = NoFile THEN <<>> ELSE After(path, reader.cursor.offset)
       IN  /\ published' = published \o new
           /\ reader' = [reader EXCEPT !.pc = "idle",
                            !.cursor.offset = IF path = NoFile THEN 0
                                              ELSE Len(lines[path]) - (IF new = <<>> THEN 0 ELSE 1)]
    /\ UNCHANGED <<files, writer, written, lost, broken>>

\* read_events: the whole lines after the offset of what the path names
\* now; an offset past its end starts over.  A missing file has no lines.
Read ==
    /\ reader.pc = "read"
    /\ published' = IF path = NoFile THEN published
                    ELSE published \o After(path, reader.cursor.offset)
    /\ reader' = [reader EXCEPT !.pc = "idle",
                                !.cursor.offset = IF path = NoFile THEN 0 ELSE Len(lines[path])]
    /\ UNCHANGED <<files, writer, written, lost, broken>>

-----------------------------------------------------------------------------

Step(w) == Open(w) \/ Flock(w) \/ Check(w) \/ Reopen(w) \/ Rotate(w) \/ Write(w)

Next == (\E w \in Writers : Begin(w) \/ Step(w) \/ Fail(w)) \/ Stat \/ Read

Spec == Init /\ [][Next]_vars

\* A writer that began goes on; the registry scans again and again.  (An
\* flock is given to one of those who wait, each in the end.)
FairSpec ==
    /\ Spec
    /\ \A w \in Writers : WF_vars(Step(w)) /\ SF_vars(Flock(w))
    /\ WF_vars(Stat) /\ WF_vars(Read)

-----------------------------------------------------------------------------
\* Properties

\* Every variable has its type, and a flock is held by a writer that has
\* the file open.
TypeOK ==
    /\ path \in Inodes \cup {NoFile} /\ old \in Inodes \cup {NoFile}
    /\ \A i \in Inodes : lines[i] \in Seq(1..written)
    /\ \A i \in Inodes : locked[i] # NoFile =>
            writer[locked[i]].file = i /\ writer[locked[i]].pc \in {"flocked", "full", "fits"}
    /\ \A w \in Writers : writer[w].pc \in Places
    /\ reader.pc \in {"idle", "read"} /\ reader.cursor.ino \in Inodes \cup {NoFile}

\* The lines of the two files, and what can still be read, oldest first.
OfPath == IF path = NoFile THEN <<>> ELSE lines[path]
OfOld  == IF old = NoFile THEN <<>> ELSE lines[old]
Kept   == OfOld \o OfPath

\* Writers that rotate at once lose nothing that is not a whole generation
\* old (#210): what is in events.1 was full, and the two files hold the
\* newest events, each once and in order.
LogKept ==
    /\ TypeOK
    /\ old # NoFile => Len(lines[old]) > MaxLines
    /\ Kept = [k \in 1..Len(Kept) |-> written - Len(Kept) + k]

\* What the tail has not read yet of the file it will read next.
Ahead == IF path = NoFile THEN {} ELSE Missed(path)

\* The registry announces every event once and in order, but for those a
\* rotation takes away unread; this needs that the path names the same
\* file at a scan's metadata and at its read, and that no new file gets the
\* inode number the cursor remembers (after two rotations it may).
TailIsExact ==
    ~broken =>
        /\ \A k, m \in DOMAIN published : k < m => published[k] < published[m]
        /\ Elements(published) \cup lost \cup Ahead = 1..written
        /\ Elements(published) \cap lost = {}
        /\ (Elements(published) \cup lost) \cap Ahead = {}

\* Parts of the inductive invariants.
Cells ==
    /\ path \in Inodes \cup {NoFile} /\ old \in Inodes \cup {NoFile}
    /\ path # NoFile => path # old
    /\ written \in Nat
    /\ lines \in [Inodes -> Seq(1..written)]
    /\ locked \in [Inodes -> Writers \cup {NoFile}]
    /\ writer \in [Writers -> [pc : Places, file : Inodes \cup {NoFile}]]
    /\ reader \in [pc : {"idle", "read"},
                   cursor : [ino : Inodes \cup {NoFile}, offset : Nat]]

\* A writer has a file open from Open to the line it writes, and the flock
\* from Flock on.
Flocks ==
    /\ \A w \in Writers : writer[w].file = NoFile <=> writer[w].pc \in {"idle", "open"}
    /\ \A i \in Inodes, w \in Writers :
            locked[i] = w <=> writer[w].file = i /\ writer[w].pc \in {"flocked", "full", "fits"}

\* Who passed the check under the flock has the file that the path names:
\* only it may rotate or write.
CheckHolds ==
    \A w \in Writers :
        /\ writer[w].pc \in {"full", "fits"} => path = writer[w].file
        /\ writer[w].pc = "full" => Len(lines[path]) > MaxLines

\* The two files' lines count up to the last event.
Newest ==
    /\ old # NoFile => Len(lines[old]) > MaxLines
    /\ \A k \in 1..Len(OfPath) : OfPath[k] = written - Len(OfPath) + k
    /\ \A k \in 1..Len(OfOld) : OfOld[k] = written - Len(OfPath) - Len(OfOld) + k

IInv == Cells /\ Flocks /\ CheckHolds /\ Newest

\* The events that are no longer ahead of the tail.
Behind ==
    written - Len(OfPath)
        + (IF path # NoFile /\ reader.cursor.ino = path THEN reader.cursor.offset ELSE 0)

\* The tail's history, as long as no scan was broken: those events, each
\* announced in order or lost, and the cursor within its file.
Tailed ==
    ~broken =>
        /\ published \in Seq(Nat)
        /\ \A k, m \in DOMAIN published : k < m => published[k] < published[m]
        /\ Elements(published) \cup lost = 1..Behind
        /\ Elements(published) \cap lost = {}
        /\ path # NoFile /\ reader.cursor.ino = path => reader.cursor.offset <= Len(lines[path])
        /\ reader.pc = "read" => reader.cursor.ino = path

\* An append that began ends: a writer does not chase rotations for ever,
\* nor wait for a flock nobody lets go.
EveryAppendReturns ==
    \A w \in Writers : writer[w].pc # "idle" ~> writer[w].pc = "idle"

\* Every event is announced in the end, or was rotated away unread.
EveryEventSeen ==
    \A e \in 1..MaxEvents :
        written >= e ~> broken \/ e \in Elements(published) \cup lost
=============================================================================
