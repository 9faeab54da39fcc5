------------------------------ MODULE LabLock -------------------------------
(***************************************************************************)
(* The lock of one lab (crates/nlink-lab/src/state.rs): flock(2) on        *)
(* .locks/<lab>.lock, a file its holder may unlink (destroy, sweep_locks). *)
(*                                                                         *)
(* flock belongs to an inode and to an open file description.  A task that *)
(* opened the file before the unlink can lock an inode that is no longer   *)
(* at the path, so acquire_with compares the two after the flock; and a    *)
(* child forked by another thread shares the description, and with it the  *)
(* flock, until its exec closes the copy.  The file's content is the       *)
(* record of who holds it, which a waiter that gives up reads.             *)
(*                                                                         *)
(* A task is a thread or process that calls lock, lock_for or lock_wait    *)
(* (lock_wait_blocking and lock_blocking are the same loop).  All of them  *)
(* poll with LOCK_NB: no caller asks acquire_with to wait in flock.        *)
(* The deadlines (LOCKED_GRACE, lock_timeout) are a clock that may expire  *)
(* at any moment of an attempt.                                            *)
(***************************************************************************)
EXTENDS Naturals

CONSTANTS Tasks,            \* callers of the lock
          Inodes,           \* the inodes the file system has for the file
          Nobody,           \* no task: a free flock, an empty record
          Child,            \* a forked child's copy, the only one left
          NoFile,           \* no inode: nothing at the path, nothing open
          AcquireAttempts   \* ACQUIRE_ATTEMPTS (8 in the code)

ASSUME LockConstants ==
    /\ Nobody \notin Tasks /\ Child \notin Tasks /\ Nobody # Child
    /\ NoFile \notin Inodes
    /\ AcquireAttempts \in Nat \ {0}

VARIABLES path,     \* the inode .locks/<lab>.lock names, or NoFile
          owner,    \* inode -> who has its flock
          rec,      \* inode -> the task its holder record names
          pc,       \* task -> where it is
          mode,     \* task -> the entry point it called
          file,     \* task -> the inode it has open, or NoFile
          shared,   \* task -> a forked child has a copy of what it has open
          attempts, \* task -> acquire_with's count
          expired   \* task -> its deadline has passed

vars == <<path, owner, rec, pc, mode, file, shared, attempts, expired>>

Modes == {"lock", "lock_for", "lock_wait"}

\* idle -> open -> opened -> flocked -> acquired -> held [-> unlinked]
\*      -> closing -> idle; "waited" reads the record of who it waited for.
Attempting == {"open", "opened", "flocked", "waited"}
Guarded    == {"acquired", "held"}              \* the caller has a LabLock
Flocking   == {"flocked", "acquired", "held", "unlinked", "closing"}
Places     == {"idle", "dead"} \cup Attempting \cup Flocking

Init ==
    /\ path = NoFile
    /\ owner = [i \in Inodes |-> Nobody]
    /\ rec = [i \in Inodes |-> Nobody]
    /\ pc = [t \in Tasks |-> "idle"]
    /\ mode = [t \in Tasks |-> "lock"]
    /\ file = [t \in Tasks |-> NoFile]
    /\ shared = [t \in Tasks |-> FALSE]
    /\ attempts = [t \in Tasks |-> 0]
    /\ expired = [t \in Tasks |-> FALSE]

-----------------------------------------------------------------------------
\* Helpers

\* An inode number the file system may hand out: an inode lives while the
\* path names it, a task has it open or a child's copy holds its flock.
Unused(i) == i # path /\ owner[i] = Nobody /\ \A t \in Tasks : file[t] # i

\* The flock of task t's file after its descriptor is closed: a child that
\* shares the description keeps it (#339).
FlockAfterClose(t) ==
    IF file[t] # NoFile /\ owner[file[t]] = t
    THEN [owner EXCEPT ![file[t]] = IF shared[t] THEN Child ELSE Nobody]
    ELSE owner

Goto(t, place) == pc' = [pc EXCEPT ![t] = place]

\* Close the descriptor and go to `place`.
CloseTo(t, place) ==
    /\ owner' = FlockAfterClose(t)
    /\ file' = [file EXCEPT ![t] = NoFile]
    /\ shared' = [shared EXCEPT ![t] = FALSE]
    /\ Goto(t, place)

\* acquire_with's locals start (and, on return, end) as these.
FreshLocals(t) ==
    /\ attempts' = [attempts EXCEPT ![t] = 0]
    /\ expired' = [expired EXCEPT ![t] = FALSE]

\* The call is over and the task has nothing of it.
Forget(t) ==
    /\ FreshLocals(t)
    /\ mode' = [mode EXCEPT ![t] = "lock"]

\* Whom lock_holder and busy() name for the lock file i: the writer of its
\* record, unless /proc says that the writer is gone.
Blamed(i) == IF rec[i] \in Tasks /\ pc[rec[i]] # "dead" THEN rec[i] ELSE Nobody

\* Mutant: only asks whether some lock file is there.
SameFileExists(t) == path # NoFile

\* same_file: is what the task has open what the path names now?
SameFile(t) == file[t] = path

-----------------------------------------------------------------------------
\* Acquiring: acquire_with, and the polling loops around it

Call(t) ==
    /\ pc[t] = "idle"
    /\ \E m \in Modes : mode' = [mode EXCEPT ![t] = m]
    /\ Goto(t, "open")
    /\ FreshLocals(t)
    /\ UNCHANGED <<path, owner, rec, file, shared>>

\* open_lock_file: O_CREAT without O_TRUNC.  A new inode has no record.
OpenLockFile(t) ==
    /\ pc[t] = "open"
    /\ \/ /\ path # NoFile
          /\ file' = [file EXCEPT ![t] = path]
          /\ UNCHANGED <<path, rec>>
       \/ /\ path = NoFile
          /\ \E i \in Inodes :
                /\ Unused(i)
                /\ path' = i
                /\ file' = [file EXCEPT ![t] = i]
                /\ rec' = [rec EXCEPT ![i] = Nobody]
    /\ Goto(t, "opened")
    /\ UNCHANGED <<owner, mode, shared, attempts, expired>>

\* The directory or the file cannot be opened: the caller gets the error.
OpenFails(t) ==
    /\ pc[t] = "open"
    /\ Goto(t, "idle")
    /\ Forget(t)
    /\ UNCHANGED <<path, owner, rec, file, shared>>

\* Mutant: a shared flock, which any number of descriptions may hold.
FlockShared(t) ==
    /\ pc[t] = "opened"
    /\ owner' = [owner EXCEPT ![file[t]] = t]
    /\ attempts' = [attempts EXCEPT ![t] = @ + 1]
    /\ Goto(t, "flocked")
    /\ UNCHANGED <<path, rec, mode, file, shared, expired>>

\* flock(LOCK_EX | LOCK_NB) succeeds.
Flock(t) ==
    /\ pc[t] = "opened"
    /\ owner[file[t]] = Nobody
    /\ owner' = [owner EXCEPT ![file[t]] = t]
    /\ attempts' = [attempts EXCEPT ![t] = @ + 1]
    /\ Goto(t, "flocked")
    /\ UNCHANGED <<path, rec, mode, file, shared, expired>>

\* Mutant: retried whatever the time.
FlockRetryForever(t) ==
    /\ pc[t] = "opened"
    /\ owner[file[t]] # Nobody
    /\ CloseTo(t, "open")
    /\ attempts' = [attempts EXCEPT ![t] = IF mode[t] = "lock_wait" THEN 0 ELSE @]
    /\ UNCHANGED <<path, rec, mode, expired>>

\* EWOULDBLOCK before the deadline: close, sleep, open again.  lock_wait
\* calls acquire_now anew, so its count starts over; it makes no difference
\* between the errors of flock.
FlockRetry(t) ==
    /\ pc[t] = "opened"
    /\ owner[file[t]] # Nobody \/ mode[t] = "lock_wait"
    /\ ~expired[t]
    /\ CloseTo(t, "open")
    /\ attempts' = [attempts EXCEPT ![t] = IF mode[t] = "lock_wait" THEN 0 ELSE @]
    /\ UNCHANGED <<path, rec, mode, expired>>

\* EWOULDBLOCK after it, or another error: the caller gets Locked, which
\* lock_wait, when its own time is up, makes Busy.
FlockRefused(t) ==
    /\ pc[t] = "opened"
    /\ expired[t] \/ mode[t] # "lock_wait"
    /\ CloseTo(t, IF mode[t] = "lock_wait" THEN "waited" ELSE "idle")
    /\ Forget(t)
    /\ UNCHANGED <<path, rec>>

\* lock_wait gives up: busy() reads at the path whom to name (see Blamed).
Busy(t) ==
    /\ pc[t] = "waited"
    /\ Goto(t, "idle")
    /\ UNCHANGED <<path, owner, rec, mode, file, shared, attempts, expired>>

\* Mutant: no revalidation after the flock.
RevalidateSkipped(t) ==
    /\ pc[t] = "flocked"
    /\ Goto(t, "acquired")
    /\ FreshLocals(t)
    /\ UNCHANGED <<path, owner, rec, mode, file, shared>>

\* The flock is ours; the file is still the lab's lock file: Ok(LabLock).
Revalidate(t) ==
    /\ pc[t] = "flocked"
    /\ SameFile(t)
    /\ Goto(t, "acquired")
    /\ FreshLocals(t)
    /\ UNCHANGED <<path, owner, rec, mode, file, shared>>

\* Mutant: one attempt too many.
RevalidateFailsLate(t) ==
    /\ pc[t] = "flocked"
    /\ ~SameFile(t)
    /\ \/ /\ attempts[t] <= AcquireAttempts
          /\ CloseTo(t, "open")
          /\ UNCHANGED <<mode, attempts, expired>>
       \/ /\ attempts[t] > AcquireAttempts
          /\ CloseTo(t, "idle")
          /\ Forget(t)
    /\ UNCHANGED <<path, rec>>

\* It was removed or replaced: lock what is there now, or after
\* ACQUIRE_ATTEMPTS of them fail ("lock file kept changing under us").
RevalidateFails(t) ==
    /\ pc[t] = "flocked"
    /\ ~SameFile(t)
    /\ \/ /\ attempts[t] < AcquireAttempts
          /\ CloseTo(t, "open")
          /\ UNCHANGED <<mode, attempts, expired>>
       \/ /\ attempts[t] >= AcquireAttempts
          /\ CloseTo(t, "idle")
          /\ Forget(t)
    /\ UNCHANGED <<path, rec>>

\* LabLock::record: lock_for and lock_wait write who they are; the plain
\* lock does not.
Record(t) ==
    /\ pc[t] = "acquired"
    /\ rec' = IF mode[t] = "lock" THEN rec ELSE [rec EXCEPT ![file[t]] = t]
    /\ Goto(t, "held")
    /\ Forget(t)
    /\ UNCHANGED <<path, owner, file, shared>>

-----------------------------------------------------------------------------
\* Releasing

\* remove_file: unlink the path while the flock is still ours.  A failed
\* unlink is only logged.
RemoveFile(t) ==
    /\ pc[t] = "held"
    /\ path' \in {path, NoFile}
    /\ Goto(t, "unlinked")
    /\ UNCHANGED <<owner, rec, mode, file, shared, attempts, expired>>

\* Mutant: the record is left in the file.
KeepRecord(t) ==
    /\ pc[t] \in {"held", "unlinked"}
    /\ Goto(t, "closing")
    /\ UNCHANGED <<path, owner, rec, mode, file, shared, attempts, expired>>

\* Drop for LabLock clears the record, then the file closes.
ClearRecord(t) ==
    /\ pc[t] \in {"held", "unlinked"}
    /\ rec' = [rec EXCEPT ![file[t]] = Nobody]
    /\ Goto(t, "closing")
    /\ UNCHANGED <<path, owner, mode, file, shared, attempts, expired>>

Close(t) ==
    /\ pc[t] = "closing"
    /\ CloseTo(t, "idle")
    /\ UNCHANGED <<path, rec, mode, attempts, expired>>

-----------------------------------------------------------------------------
\* The environment: the clock, other threads' forks, SIGKILL

Expire(t) ==
    /\ pc[t] \in {"open", "opened", "flocked"}
    /\ ~expired[t]
    /\ expired' = [expired EXCEPT ![t] = TRUE]
    /\ UNCHANGED <<path, owner, rec, pc, mode, file, shared, attempts>>

\* Another thread of the task's process forks: the child has the file too.
Fork(t) ==
    /\ file[t] # NoFile
    /\ ~shared[t]
    /\ shared' = [shared EXCEPT ![t] = TRUE]
    /\ UNCHANGED <<path, owner, rec, pc, mode, file, attempts, expired>>

\* The child execs and its O_CLOEXEC copy closes, before or after the
\* task's own.
ChildExec ==
    /\ \/ \E t \in Tasks :
            /\ shared[t]
            /\ shared' = [shared EXCEPT ![t] = FALSE]
            /\ UNCHANGED owner
       \/ \E i \in Inodes :
            /\ owner[i] = Child
            /\ owner' = [owner EXCEPT ![i] = Nobody]
            /\ UNCHANGED shared
    /\ UNCHANGED <<path, rec, pc, mode, file, attempts, expired>>

\* A kill runs no destructor: the record stays, the kernel closes the file.
\* A pid is not used again.  (A task that dies idle is one that never calls.)
Kill(t) ==
    /\ pc[t] \notin {"idle", "dead"}
    /\ CloseTo(t, "dead")
    /\ Forget(t)
    /\ UNCHANGED <<path, rec>>

-----------------------------------------------------------------------------

Attempt(t) ==
    \/ OpenLockFile(t) \/ OpenFails(t)
    \/ Flock(t) \/ FlockRetry(t) \/ FlockRefused(t) \/ Busy(t)
    \/ Revalidate(t) \/ RevalidateFails(t)

Holding(t) == Record(t) \/ RemoveFile(t) \/ ClearRecord(t) \/ Close(t)

Next ==
    \/ \E t \in Tasks : Call(t) \/ Attempt(t) \/ Holding(t)
                        \/ Expire(t) \/ Fork(t) \/ Kill(t)
    \/ ChildExec

Spec == Init /\ [][Next]_vars

\* A task that is trying is scheduled and its clock runs.  Nobody is forced
\* to call the lock, to let go of it, to fork or to die.
Fairness == \A t \in Tasks : WF_vars(Attempt(t)) /\ WF_vars(Expire(t))

FairSpec == Spec /\ Fairness

-----------------------------------------------------------------------------
\* Properties

\* Every variable has its type, and acquire_with never makes more than
\* ACQUIRE_ATTEMPTS flocks in one call.
TypeOK ==
    /\ path \in Inodes \cup {NoFile}
    /\ owner \in [Inodes -> Tasks \cup {Nobody, Child}]
    /\ rec \in [Inodes -> Tasks \cup {Nobody}]
    /\ pc \in [Tasks -> Places]
    /\ mode \in [Tasks -> Modes]
    /\ file \in [Tasks -> Inodes \cup {NoFile}]
    /\ shared \in [Tasks -> BOOLEAN]
    /\ attempts \in [Tasks -> 0..AcquireAttempts]
    /\ expired \in [Tasks -> BOOLEAN]

\* Two tasks never have the lab's LabLock at once, whatever the lock file is
\* unlinked and created under them (acquire_with's revalidation, and
\* remove_file's unlink before the drop).
MutualExclusion ==
    \A t, u \in Tasks : pc[t] \in Guarded /\ pc[u] \in Guarded => t = u

\* The file a holder has flocked is the one the path names: whoever comes
\* next meets its flock, and the holder's unlink removes its own file and
\* never another task's (LabLock::remove_file).
HolderOwnsPath ==
    \A t \in Tasks : pc[t] \in Guarded => file[t] = path /\ owner[file[t]] = t

\* A record whose writer lives names the task that has the file's flock:
\* what busy() prints is never a holder that let go (Drop clears the record
\* while the lock is held) nor, after a kill, the dead one.
RecordNamesHolder ==
    \A i \in Inodes : Blamed(i) # Nobody => owner[i] = Blamed(i)

\* The inductive invariant behind the three (LabLock_proofs): the flock and
\* the program counters agree, a guard's file is at the path, a living
\* writer's record is in the file it still holds, and a new attempt has
\* attempts left.
FlockAgrees ==
    /\ \A t \in Tasks : pc[t] = "opened" => file[t] \in Inodes
    /\ \A t \in Tasks :
        pc[t] \in Flocking => file[t] \in Inodes /\ owner[file[t]] = t
    /\ \A i \in Inodes :
        owner[i] \in Tasks => pc[owner[i]] \in Flocking /\ file[owner[i]] = i

GuardAtPath == \A t \in Tasks : pc[t] \in Guarded => file[t] = path

RecordFresh ==
    \A i \in Inodes :
        Blamed(i) # Nobody =>
            /\ pc[Blamed(i)] \in {"held", "unlinked"}
            /\ file[Blamed(i)] = i

AttemptsLeft ==
    \A t \in Tasks :
        pc[t] \in {"open", "opened"} => attempts[t] < AcquireAttempts

IInv == TypeOK /\ FlockAgrees /\ GuardAtPath /\ RecordFresh /\ AttemptsLeft

\* Who holds the lab, as LabMutex sees it.
holder == IF \E t \in Tasks : pc[t] \in Guarded
          THEN CHOOSE t \in Tasks : pc[t] \in Guarded
          ELSE Nobody

Mutex == INSTANCE LabMutex WITH Tasks <- Tasks, Nobody <- Nobody, holder <- holder

\* The whole protocol implements the lock the rest of the library is written
\* against: taken only when nobody has it.
ImplementsMutex == Mutex!Spec

\* Every call returns: a lock that leaks, or a file that keeps changing,
\* makes it fail and never hang (#332).
EveryCallReturns ==
    \A t \in Tasks : pc[t] \in Attempting ~> pc[t] \notin Attempting
=============================================================================
