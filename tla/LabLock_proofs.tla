--------------------------- MODULE LabLock_proofs ---------------------------
(***************************************************************************)
(* LabLock for any number of tasks, inodes and attempts: the inductive     *)
(* invariant IInv, mutual exclusion, what a waiter may be told, and the    *)
(* refinement of LabMutex.                                                 *)
(***************************************************************************)
EXTENDS LabLock, TLAPS

\* The actions of one task, as the case split of every proof below.
TaskStep(t) == Call(t) \/ Attempt(t) \/ Holding(t) \/ Expire(t) \/ Fork(t) \/ Kill(t)

\* Nobody holds the lock at first.
LEMMA InitIInv == Init => IInv
BY LockConstants DEF Init, IInv, TypeOK, FlockAgrees, GuardAtPath, RecordFresh,
    AttemptsLeft, Blamed, Places, Attempting, Flocking, Guarded, Modes

\* What a close of one descriptor leaves in order.
Closed ==
    /\ owner' \in [Inodes -> Tasks \cup {Nobody, Child}]
    /\ file' \in [Tasks -> Inodes \cup {NoFile}]
    /\ shared' \in [Tasks -> BOOLEAN]
    /\ pc' \in [Tasks -> Places]
    /\ FlockAgrees' /\ GuardAtPath' /\ RecordFresh'

\* Closing a descriptor gives up the task's own flock and no other's, and
\* takes nothing from a guard or a record.
LEMMA CloseKeeps ==
    ASSUME IInv, NEW t \in Tasks, NEW place \in {"idle", "open", "waited", "dead"},
           CloseTo(t, place), UNCHANGED <<path, rec>>,
           pc[t] \notin {"held", "unlinked", "dead"} \/ place = "dead"
    PROVE  Closed
<1> USE LockConstants
<1>1. TypeOK /\ FlockAgrees /\ GuardAtPath /\ RecordFresh
  BY DEF IInv
<1>2. file' \in [Tasks -> Inodes \cup {NoFile}] /\ shared' \in [Tasks -> BOOLEAN]
  BY <1>1 DEF TypeOK, CloseTo
<1>3. pc' = [pc EXCEPT ![t] = place] /\ pc' \in [Tasks -> Places]
  BY <1>1 DEF TypeOK, CloseTo, Goto, Places, Attempting, Flocking
<1>4. owner' \in [Inodes -> Tasks \cup {Nobody, Child}]
  BY <1>1 DEF TypeOK, CloseTo, FlockAfterClose
<1>5. \A i \in Inodes : owner'[i] # t /\ (owner[i] # t => owner'[i] = owner[i])
  BY <1>1 DEF TypeOK, FlockAgrees, CloseTo, FlockAfterClose
<1>6. FlockAgrees'
  <2>1. \A u \in Tasks : u # t => pc'[u] = pc[u] /\ file'[u] = file[u]
    BY <1>1, <1>3 DEF TypeOK, CloseTo
  <2>2. pc'[t] \notin Flocking \cup {"opened"}
    BY <1>1, <1>3 DEF TypeOK, Flocking
  <2>3. ASSUME NEW u \in Tasks, pc'[u] = "opened" PROVE file'[u] \in Inodes
    BY <1>1, <2>1, <2>2, <2>3 DEF FlockAgrees
  <2>4. ASSUME NEW u \in Tasks, pc'[u] \in Flocking
        PROVE  file'[u] \in Inodes /\ owner'[file'[u]] = u
    BY <1>1, <1>5, <2>1, <2>2, <2>4 DEF FlockAgrees
  <2>5. ASSUME NEW i \in Inodes, owner'[i] \in Tasks
        PROVE  pc'[owner'[i]] \in Flocking /\ file'[owner'[i]] = i
    <3>1. owner[i] # t
      BY <1>1, <2>5 DEF TypeOK, FlockAgrees, CloseTo, FlockAfterClose
    <3>2. QED
      BY <1>1, <1>5, <2>1, <2>5, <3>1 DEF FlockAgrees
  <2>6. QED
    BY <2>3, <2>4, <2>5 DEF FlockAgrees
<1>7. GuardAtPath'
  BY <1>1, <1>3 DEF TypeOK, GuardAtPath, CloseTo, Guarded
<1>8. RecordFresh'
  <2> SUFFICES ASSUME NEW i \in Inodes, (Blamed(i) # Nobody)'
               PROVE  (pc[Blamed(i)] \in {"held", "unlinked"} /\ file[Blamed(i)] = i)'
    BY DEF RecordFresh
  <2>1. rec[i] \in Tasks /\ pc'[rec[i]] # "dead"
    BY DEF Blamed
  <2>2. rec[i] # t
    BY <1>1, <1>3, <2>1 DEF TypeOK, RecordFresh, Blamed
  <2>3. pc'[rec[i]] = pc[rec[i]] /\ file'[rec[i]] = file[rec[i]]
    BY <1>1, <1>3, <2>1, <2>2 DEF TypeOK, CloseTo
  <2>4. QED
    BY <1>1, <2>1, <2>3 DEF RecordFresh, Blamed
<1>9. QED
  BY <1>2, <1>3, <1>4, <1>6, <1>7, <1>8 DEF Closed

\* A step of one task preserves the invariant.
LEMMA TaskStepIInv ==
    ASSUME IInv, NEW t \in Tasks, TaskStep(t)
    PROVE  IInv'
<1> USE LockConstants DEF Blamed
<1>0. TypeOK /\ FlockAgrees /\ GuardAtPath /\ RecordFresh /\ AttemptsLeft
  BY DEF IInv
<1>1. CASE Call(t)
  BY <1>0, <1>1 DEF IInv, TypeOK, FlockAgrees, GuardAtPath, RecordFresh, AttemptsLeft,
     Call, Goto, FreshLocals, Places, Attempting, Flocking, Guarded, Modes
<1>2. CASE OpenLockFile(t)
  BY <1>0, <1>2 DEF IInv, TypeOK, FlockAgrees, GuardAtPath, RecordFresh, AttemptsLeft,
     OpenLockFile, Unused, Goto, Places, Attempting, Flocking, Guarded
<1>3. CASE OpenFails(t)
  BY <1>0, <1>3 DEF IInv, TypeOK, FlockAgrees, GuardAtPath, RecordFresh, AttemptsLeft,
     OpenFails, Goto, Forget, FreshLocals, Places, Attempting, Flocking, Guarded, Modes
<1>4. CASE Flock(t)
  BY <1>0, <1>4 DEF IInv, TypeOK, FlockAgrees, GuardAtPath, RecordFresh, AttemptsLeft,
     Flock, Goto, Places, Attempting, Flocking, Guarded
<1>5. CASE FlockRetry(t)
  <2>1. CloseTo(t, "open") /\ UNCHANGED <<path, rec>> /\ pc[t] = "opened"
    BY <1>5 DEF FlockRetry
  <2>2. Closed
    BY <2>1, CloseKeeps
  <2>3. QED
    BY <1>0, <1>5, <2>2 DEF Closed, IInv, TypeOK, AttemptsLeft, FlockRetry, CloseTo, Goto
<1>6. CASE FlockRefused(t)
  <2> DEFINE place == IF mode[t] = "lock_wait" THEN "waited" ELSE "idle"
  <2>1. place \in {"idle", "open", "waited", "dead"} /\ place # "open"
    OBVIOUS
  <2>2. CloseTo(t, place) /\ UNCHANGED <<path, rec>> /\ pc[t] = "opened"
    BY <1>6 DEF FlockRefused
  <2> HIDE DEF place
  <2>3. Closed
    BY <2>1, <2>2, CloseKeeps
  <2>4. QED
    BY <1>0, <1>6, <2>1, <2>2, <2>3 DEF Closed, IInv, TypeOK, AttemptsLeft, FlockRefused,
       Forget, FreshLocals, CloseTo, Goto, Modes
<1>7. CASE Busy(t)
  BY <1>0, <1>7 DEF IInv, TypeOK, FlockAgrees, GuardAtPath, RecordFresh, AttemptsLeft,
     Busy, Goto, Places, Attempting, Flocking, Guarded
<1>8. CASE Revalidate(t)
  BY <1>0, <1>8 DEF IInv, TypeOK, FlockAgrees, GuardAtPath, RecordFresh, AttemptsLeft,
     Revalidate, SameFile, Goto, FreshLocals, Places, Attempting, Flocking, Guarded
<1>9. CASE RevalidateFails(t)
  <2>0. UNCHANGED <<path, rec>> /\ pc[t] = "flocked"
    BY <1>9 DEF RevalidateFails
  <2>1. CASE attempts[t] < AcquireAttempts /\ CloseTo(t, "open")
             /\ UNCHANGED <<mode, attempts, expired>>
    <3>1. Closed
      BY <2>0, <2>1, CloseKeeps
    <3>2. QED
      BY <1>0, <2>0, <2>1, <3>1 DEF Closed, IInv, TypeOK, AttemptsLeft, CloseTo, Goto
  <2>2. CASE CloseTo(t, "idle") /\ Forget(t)
    <3>1. Closed
      BY <2>0, <2>2, CloseKeeps
    <3>2. QED
      BY <1>0, <2>0, <2>2, <3>1 DEF Closed, IInv, TypeOK, AttemptsLeft, Forget,
         FreshLocals, CloseTo, Goto, Modes
  <2>3. QED
    BY <1>9, <2>1, <2>2 DEF RevalidateFails
<1>10. CASE Record(t)
  BY <1>0, <1>10 DEF IInv, TypeOK, FlockAgrees, GuardAtPath, RecordFresh, AttemptsLeft,
     Record, Goto, Forget, FreshLocals, Places, Attempting, Flocking, Guarded, Modes
<1>11. CASE RemoveFile(t)
  \* The path is this task's own file, and nobody else's guard is on it.
  <2>1. \A u \in Tasks : pc[u] \in Guarded => u = t
    BY <1>0, <1>11 DEF FlockAgrees, GuardAtPath, RemoveFile, Guarded, Flocking
  <2>2. QED
    BY <1>0, <1>11, <2>1 DEF IInv, TypeOK, FlockAgrees, GuardAtPath, RecordFresh,
       AttemptsLeft, RemoveFile, Goto, Places, Attempting, Flocking, Guarded
<1>12. CASE ClearRecord(t)
  BY <1>0, <1>12 DEF IInv, TypeOK, FlockAgrees, GuardAtPath, RecordFresh, AttemptsLeft,
     ClearRecord, Goto, Places, Attempting, Flocking, Guarded
<1>13. CASE Close(t)
  <2>1. CloseTo(t, "idle") /\ UNCHANGED <<path, rec>> /\ pc[t] = "closing"
    BY <1>13 DEF Close
  <2>2. Closed
    BY <2>1, CloseKeeps
  <2>3. QED
    BY <1>0, <1>13, <2>2 DEF Closed, IInv, TypeOK, AttemptsLeft, Close, CloseTo, Goto
<1>14. CASE Expire(t)
  BY <1>0, <1>14 DEF IInv, TypeOK, FlockAgrees, GuardAtPath, RecordFresh, AttemptsLeft,
     Expire
<1>15. CASE Fork(t)
  BY <1>0, <1>15 DEF IInv, TypeOK, FlockAgrees, GuardAtPath, RecordFresh, AttemptsLeft,
     Fork
<1>16. CASE Kill(t)
  <2>1. CloseTo(t, "dead") /\ UNCHANGED <<path, rec>>
    BY <1>16 DEF Kill
  <2>2. Closed
    BY <2>1, CloseKeeps
  <2>3. QED
    BY <1>0, <1>16, <2>2 DEF Closed, IInv, TypeOK, AttemptsLeft, Kill, Forget,
       FreshLocals, CloseTo, Goto, Modes
<1>17. QED
  BY <1>1, <1>2, <1>3, <1>4, <1>5, <1>6, <1>7, <1>8, <1>9, <1>10, <1>11, <1>12, <1>13,
     <1>14, <1>15, <1>16 DEF TaskStep, Attempt, Holding

\* exec closes the descriptor the child inherited.
LEMMA ChildExecIInv == IInv /\ ChildExec => IInv'
<1> SUFFICES ASSUME IInv, ChildExec PROVE IInv'
  OBVIOUS
<1>1. shared' \in [Tasks -> BOOLEAN]
  BY DEF IInv, TypeOK, ChildExec
<1>2. \A i \in Inodes : owner'[i] \in Tasks \cup {Nobody, Child}
                        /\ (owner[i] \in Tasks => owner'[i] = owner[i])
                        /\ (owner'[i] \in Tasks => owner'[i] = owner[i])
  BY LockConstants DEF IInv, TypeOK, ChildExec
<1>3. owner' \in [Inodes -> Tasks \cup {Nobody, Child}]
  BY <1>2 DEF IInv, TypeOK, ChildExec
<1>4. UNCHANGED <<path, rec, pc, mode, file, attempts, expired>>
  BY DEF ChildExec
<1>5. QED
  BY <1>1, <1>2, <1>3, <1>4 DEF IInv, TypeOK, FlockAgrees, GuardAtPath, RecordFresh,
     AttemptsLeft, Blamed

\* Every step keeps the inductive invariant.
LEMMA NextIInv == IInv /\ [Next]_vars => IInv'
<1> SUFFICES ASSUME IInv, [Next]_vars PROVE IInv'
  OBVIOUS
<1>1. CASE \E t \in Tasks : TaskStep(t)
  BY <1>1, TaskStepIInv
<1>2. CASE ChildExec
  BY <1>2, ChildExecIInv
<1>3. CASE UNCHANGED vars
  BY <1>3 DEF vars, IInv, TypeOK, FlockAgrees, GuardAtPath, RecordFresh, AttemptsLeft, Blamed
<1>4. QED
  BY <1>1, <1>2, <1>3 DEF Next, TaskStep

\* The lock's state keeps its type and its inductive invariant.
THEOREM LockInvariant == Spec => []IInv
BY InitIInv, NextIInv, PTL DEF Spec

\* The lock's state has its type; in particular acquire_with never goes
\* past ACQUIRE_ATTEMPTS.
THEOREM LockTypeOK == Spec => []TypeOK
<1>1. IInv => TypeOK
  BY DEF IInv
<1>2. QED
  BY <1>1, LockInvariant, PTL

\* The guard's own file is at the path and flocked by it.
LEMMA IInvHolderOwnsPath == IInv => HolderOwnsPath
BY DEF IInv, FlockAgrees, GuardAtPath, HolderOwnsPath, Guarded, Flocking

\* The inductive invariant gives mutual exclusion.
LEMMA IInvMutualExclusion == IInv => MutualExclusion
BY IInvHolderOwnsPath DEF HolderOwnsPath, MutualExclusion

\* At most one LabLock of the lab exists (acquire_with, remove_file).
THEOREM LockMutualExclusion == Spec => []MutualExclusion
BY LockInvariant, IInvMutualExclusion, PTL

\* A holder's flock is on the file at the path, so its unlink takes only
\* its own file away.
THEOREM LockHolderOwnsPath == Spec => []HolderOwnsPath
BY LockInvariant, IInvHolderOwnsPath, PTL

\* A waiter is never told of a task that has let go or that is dead.
THEOREM LockRecordNamesHolder == Spec => []RecordNamesHolder
<1>1. IInv => RecordNamesHolder
  BY LockConstants DEF IInv, TypeOK, FlockAgrees, RecordFresh, RecordNamesHolder, Blamed, Flocking
<1>2. QED
  BY <1>1, LockInvariant, PTL

-----------------------------------------------------------------------------
\* Refinement

\* With one guard at most, `holder` is it.
LEMMA HolderIs ==
    ASSUME MutualExclusion, NEW t \in Tasks, pc[t] \in Guarded
    PROVE  holder = t
BY DEF MutualExclusion, holder

\* The same of the next state.
LEMMA HolderIsPrime ==
    ASSUME MutualExclusion', NEW t \in Tasks, pc'[t] \in Guarded
    PROVE  holder' = t
BY DEF MutualExclusion, holder

\* Nobody is in: the abstract lock is free.
LEMMA NoHolder ==
    ASSUME \A t \in Tasks : pc[t] \notin Guarded
    PROVE  holder = Nobody
BY DEF holder

\* The same of the next state.
LEMMA NoHolderPrime ==
    ASSUME \A t \in Tasks : pc'[t] \notin Guarded
    PROVE  holder' = Nobody
BY DEF holder

\* A task that moves without entering or leaving the guard is a stutter.
LEMMA SameGuardStutters ==
    ASSUME MutualExclusion, MutualExclusion',
           \A u \in Tasks : (pc'[u] \in Guarded) <=> (pc[u] \in Guarded)
    PROVE  holder' = holder
<1>1. CASE \E u \in Tasks : pc[u] \in Guarded
  BY <1>1, HolderIs, HolderIsPrime
<1>2. CASE \A u \in Tasks : pc[u] \notin Guarded
  BY <1>2, NoHolder, NoHolderPrime
<1>3. QED
  BY <1>1, <1>2

\* One that enters it found nobody there; one that leaves it leaves nobody.
LEMMA EnterGuard ==
    ASSUME MutualExclusion', NEW t \in Tasks, pc'[t] \in Guarded, pc[t] \notin Guarded,
           \A u \in Tasks \ {t} : pc'[u] = pc[u]
    PROVE  Mutex!Acquire(t)
<1>1. \A u \in Tasks : pc[u] \notin Guarded
  BY DEF MutualExclusion
<1>2. QED
  BY <1>1, NoHolder, HolderIsPrime DEF Mutex!Acquire

\* Who leaves is the one the abstract lock names.
LEMMA LeaveGuard ==
    ASSUME MutualExclusion, NEW t \in Tasks, pc[t] \in Guarded, pc'[t] \notin Guarded,
           \A u \in Tasks \ {t} : pc'[u] = pc[u]
    PROVE  Mutex!Release(t)
<1>1. \A u \in Tasks : pc'[u] \notin Guarded
  BY DEF MutualExclusion
<1>2. QED
  BY <1>1, HolderIs, NoHolderPrime DEF Mutex!Release

\* A step is a step of the abstract lock, or none of it.
LEMMA StepRefines ==
    ASSUME IInv, IInv', [Next]_vars
    PROVE  [Mutex!Next]_holder
<1>1. MutualExclusion /\ MutualExclusion'
  <2>1. MutualExclusion
    BY IInvMutualExclusion
  <2>2. MutualExclusion'
    BY IInvMutualExclusion, PTL
  <2>3. QED
    BY <2>1, <2>2
<1>2. CASE \E t \in Tasks : TaskStep(t)
  <2>1. PICK t \in Tasks : TaskStep(t)
    BY <1>2
  <2>2. \A u \in Tasks \ {t} : pc'[u] = pc[u]
    BY <2>1 DEF IInv, TypeOK, TaskStep, Attempt, Holding, Call, OpenLockFile, OpenFails,
       Flock, FlockRetry, FlockRefused, Busy, Revalidate, RevalidateFails, Record,
       RemoveFile, ClearRecord, Close, Expire, Fork, Kill, CloseTo, Goto
  <2>3. CASE (pc'[t] \in Guarded) <=> (pc[t] \in Guarded)
    <3>1. \A u \in Tasks : (pc'[u] \in Guarded) <=> (pc[u] \in Guarded)
      BY <2>2, <2>3
    <3>2. QED
      BY <1>1, <3>1, SameGuardStutters
  <2>4. CASE pc'[t] \in Guarded /\ pc[t] \notin Guarded
    BY <1>1, <2>2, <2>4, EnterGuard DEF Mutex!Next
  <2>5. CASE pc'[t] \notin Guarded /\ pc[t] \in Guarded
    BY <1>1, <2>2, <2>5, LeaveGuard DEF Mutex!Next
  <2>6. QED
    BY <2>3, <2>4, <2>5
<1>3. CASE ChildExec \/ UNCHANGED vars
  <2>1. pc' = pc
    BY <1>3 DEF ChildExec, vars
  <2>2. QED
    BY <1>1, <2>1, SameGuardStutters
<1>4. QED
  BY <1>2, <1>3 DEF Next, TaskStep

\* The lock-file protocol implements the mutex: a task gets the lab only
\* when no task has it, and every step of the protocol is a step of the
\* mutex or invisible to it.
THEOREM LockImplementsMutex == Spec => ImplementsMutex
<1>1. Init => Mutex!Init
  BY NoHolder DEF Init, Mutex!Init, Guarded
<1>2. IInv /\ IInv' /\ [Next]_vars => [Mutex!Next]_holder
  BY StepRefines
<1>3. QED
  BY <1>1, <1>2, LockInvariant, PTL DEF Spec, ImplementsMutex, Mutex!Spec
=============================================================================
