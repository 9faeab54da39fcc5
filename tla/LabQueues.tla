----------------------------- MODULE LabQueues ------------------------------
(***************************************************************************)
(* The daemon's change queues (bins/nlink-labd/src/jobs.rs): one per lab,  *)
(* worked by a thread of its own, one change at a time.  The thread leaves *)
(* after IDLE without work, may fail to start, and dies when a change      *)
(* panics in it; enqueue starts another.                                   *)
(*                                                                         *)
(* A change (a Work) is its job's number.  enqueue and the idle thread's   *)
(* last look run under the `queues` mutex, so each is one step; what a     *)
(* thread receives, does and answers are steps of their own.  The changes  *)
(* that are operations are listed while they run and for a while after     *)
(* (list_ops, attach_op); what one reports, and who follows it, is Jobs.   *)
(***************************************************************************)
EXTENDS Naturals, Sequences, FiniteSets

CONSTANTS Labs,      \* whose changes are queued
          MaxChanges, \* bound: the changes clients ask for
          Keep,      \* KEEP: finished operations kept (200)
          Queues,    \* bound: the queues spawn_queue makes, numbered from 1
          None       \* no queue, no change

ASSUME QueuesConstants ==
    /\ Queues \in Nat /\ MaxChanges \in Nat /\ Keep \in Nat
    /\ None \notin Nat /\ None \notin Labs
    /\ None \notin {"answered", "refused", "dropped"}

VARIABLES queues,   \* lab -> the queue in the map, or None
          made,     \* how many queues were made
          queue,    \* queue -> its lab, its thread's place, its channel,
                    \*          `pending` and the change being worked
          reply,    \* change -> what its oneshot brought, or None
          arrived,  \* lab -> its accepted changes, in order (history)
          next,     \* the last job number given
          jobs,     \* the operations that are listed
          ended     \* the jobs whose end is recorded

vars == <<queues, made, queue, reply, arrived, next, jobs, ended>>
lists == <<next, jobs, ended>>

Ids     == 1..Queues
Changes == 1..MaxChanges
Threads == {"starting", "waiting", "idle", "working", "left", "dead"}
Replies == {"answered", "refused", "dropped"}

\* A thread that has the queue's receiver: a send to it succeeds.
Alive(q) == queue[q].thread \in {"starting", "waiting", "idle", "working"}

NoQueue == [lab |-> None, thread |-> "left", rx |-> <<>>, pending |-> 0, work |-> None]

Init ==
    /\ queues = [l \in Labs |-> None]
    /\ made = 0
    /\ queue = [q \in Ids |-> NoQueue]
    /\ reply = [w \in Changes |-> None]
    /\ arrived = [l \in Labs |-> <<>>]
    /\ next = 0
    /\ jobs = {}
    /\ ended = {}

-----------------------------------------------------------------------------
\* Helpers

InChannel(q) == {queue[q].rx[i] : i \in DOMAIN queue[q].rx}

Accepted == {w \in Changes : \E l \in Labs : \E i \in DOMAIN arrived[l] : arrived[l][i] = w}

\* The lab's queue is in the map and its thread takes work.
Live(l) == queues[l] # None /\ Alive(queues[l])

\* The thread ends and its receiver goes, with the work still in it.
ThreadEnds(q, how) ==
    /\ queue' = [queue EXCEPT ![q].thread = how, ![q].rx = <<>>, ![q].work = None]
    /\ reply' = [w \in Changes |-> IF w \in InChannel(q) \cup {queue[q].work}
                                   THEN "dropped" ELSE reply[w]]

Accept(l, w) == arrived' = [arrived EXCEPT ![l] = Append(@, w)]

\* It has its job and is not queued yet.
New(w) == w <= next /\ reply[w] = None /\ w \notin Accepted

-----------------------------------------------------------------------------
\* Jobs::job, and the task that finishes a job

\* Listed operations that ended, which Jobs::job may forget.
Finished == jobs \cap ended

\* Mutant: the oldest operations, ended or not.
SurplusOldest ==
    {j \in jobs : Cardinality({i \in jobs : i <= j}) + Keep <= Cardinality(jobs)}

\* The oldest of them over Keep.
Surplus ==
    {j \in Finished : Cardinality({i \in Finished : i <= j}) + Keep <= Cardinality(Finished)}

\* A new job; a listed one first forgets the surplus, and what ended more
\* than KEEP_FOR ago.
MakeJob ==
    /\ next < MaxChanges
    /\ next' = next + 1
    /\ \/ \E old \in SUBSET Finished : jobs' = (jobs \ (Surplus \cup old)) \cup {next + 1}
       \/ UNCHANGED jobs
    /\ UNCHANGED <<queues, made, queue, reply, arrived, ended>>

\* The finisher has the reply, or its loss, and records the end.
Finish(w) ==
    /\ reply[w] # None /\ w \notin ended
    /\ ended' = ended \cup {w}
    /\ UNCHANGED <<queues, made, queue, reply, arrived, next, jobs>>

-----------------------------------------------------------------------------
\* Jobs::enqueue

\* Mutant: asks for the map's entry only.
EnqueueBlind(l, w) ==
    /\ New(w) /\ queues[l] # None
    /\ queue' = [queue EXCEPT ![queues[l]].pending = @ + 1,
                              ![queues[l]].rx = Append(@, w)]
    /\ Accept(l, w)
    /\ UNCHANGED <<queues, made, reply, lists>>

\* The map's queue takes it.
Enqueue(l, w) ==
    /\ New(w) /\ Live(l)
    /\ queue' = [queue EXCEPT ![queues[l]].pending = @ + 1,
                              ![queues[l]].rx = Append(@, w)]
    /\ Accept(l, w)
    /\ UNCHANGED <<queues, made, reply, lists>>

\* None in the map, or its thread is gone and the send brings the work
\* back: a new queue and its thread take over, at the first or second try.
EnqueueNew(l, w) ==
    /\ New(w) /\ ~Live(l)
    /\ made < Queues
    /\ made' = made + 1
    /\ queues' = [queues EXCEPT ![l] = made + 1]
    /\ queue' = [queue EXCEPT ![made + 1] = [lab |-> l, thread |-> "starting",
                                rx |-> <<w>>, pending |-> 1, work |-> None]]
    /\ Accept(l, w)
    /\ UNCHANGED <<reply, lists>>

\* No thread can be started, twice: "the lab's queue cannot start".
EnqueueFails(l, w) ==
    /\ New(w) /\ ~Live(l)
    /\ queues' = [queues EXCEPT ![l] = None]
    /\ reply' = [reply EXCEPT ![w] = "refused"]
    /\ UNCHANGED <<made, queue, arrived, lists>>

-----------------------------------------------------------------------------
\* spawn_queue's thread

\* Its runtime is built, or it ends with what was already sent to it.
ThreadStarts(q) ==
    /\ queue[q].thread = "starting"
    /\ queue' = [queue EXCEPT ![q].thread = "waiting"]
    /\ UNCHANGED <<queues, made, reply, arrived, lists>>

ThreadFails(q) ==
    /\ queue[q].thread = "starting"
    /\ ThreadEnds(q, "dead")
    /\ UNCHANGED <<queues, made, arrived, lists>>

\* Mutant: the newest first.
ReceiveLast(q) ==
    /\ queue[q].thread = "waiting" /\ queue[q].rx # <<>>
    /\ queue' = [queue EXCEPT ![q].thread = "working",
                              ![q].work = queue[q].rx[Len(queue[q].rx)],
                              ![q].rx = SubSeq(@, 1, Len(@) - 1)]
    /\ UNCHANGED <<queues, made, reply, arrived, lists>>

Receive(q) ==
    /\ queue[q].thread = "waiting" /\ queue[q].rx # <<>>
    /\ queue' = [queue EXCEPT ![q].thread = "working",
                              ![q].work = Head(queue[q].rx), ![q].rx = Tail(@)]
    /\ UNCHANGED <<queues, made, reply, arrived, lists>>

\* IDLE passes without work; the lock is not taken yet.
Idle(q) ==
    /\ queue[q].thread = "waiting" /\ queue[q].rx = <<>>
    /\ queue' = [queue EXCEPT ![q].thread = "idle"]
    /\ UNCHANGED <<queues, made, reply, arrived, lists>>

\* Mutant: goes out of the map, then works off what came meanwhile.
IdleLeaveFirst(q) ==
    /\ queue[q].thread = "idle"
    /\ queues' = [queues EXCEPT ![queue[q].lab] = None]
    /\ IF queue[q].rx = <<>>
       THEN ThreadEnds(q, "left")
       ELSE queue' = [queue EXCEPT ![q].thread = "waiting"] /\ UNCHANGED reply
    /\ UNCHANGED <<made, arrived, lists>>

\* Under the lock: out of the map and gone, unless work came meanwhile.
IdleLeave(q) ==
    /\ queue[q].thread = "idle" /\ queue[q].rx = <<>>
    /\ queues' = [queues EXCEPT ![queue[q].lab] = None]
    /\ ThreadEnds(q, "left")
    /\ UNCHANGED <<made, arrived, lists>>

\* Mutant: the thread waits for the lock again and again.
IdleStuck(q) ==
    /\ queue[q].thread = "idle" /\ queue[q].rx # <<>>
    /\ UNCHANGED vars

IdleStay(q) ==
    /\ queue[q].thread = "idle" /\ queue[q].rx # <<>>
    /\ queue' = [queue EXCEPT ![q].thread = "waiting"]
    /\ UNCHANGED <<queues, made, reply, arrived, lists>>

\* The change is done: counted off, then answered.
Answer(q) ==
    /\ queue[q].thread = "working"
    /\ reply' = [reply EXCEPT ![queue[q].work] = "answered"]
    /\ queue' = [queue EXCEPT ![q].thread = "waiting", ![q].work = None,
                              ![q].pending = @ - 1]
    /\ UNCHANGED <<queues, made, arrived, lists>>

\* It panics: the thread unwinds; its queue stays in the map, dead.
Panic(q) ==
    /\ queue[q].thread = "working"
    /\ ThreadEnds(q, "dead")
    /\ UNCHANGED <<queues, made, arrived, lists>>

-----------------------------------------------------------------------------

Client == \E l \in Labs, w \in Changes :
    Enqueue(l, w) \/ EnqueueNew(l, w) \/ EnqueueFails(l, w)

Thread(q) ==
    \/ ThreadStarts(q) \/ ThreadFails(q)
    \/ Receive(q) \/ Idle(q) \/ IdleLeave(q) \/ IdleStay(q)
    \/ Answer(q) \/ Panic(q)

Next == MakeJob \/ Client \/ (\E w \in Changes : Finish(w)) \/ \E q \in Ids : Thread(q)

Spec == Init /\ [][Next]_vars

\* The threads are scheduled and a change ends: it returns or it panics.
\* Nobody is forced to ask for a change.
FairSpec ==
    /\ Spec
    /\ \A q \in Ids : WF_vars(Thread(q))
    /\ \A w \in Changes : WF_vars(Finish(w))

-----------------------------------------------------------------------------
\* Properties

QueueCells == [lab : Labs \cup {None}, thread : Threads, rx : Seq(Changes),
               pending : Nat, work : Changes \cup {None}]

\* Every variable has its type.
TypeOK ==
    /\ queues \in [Labs -> Ids \cup {None}]
    /\ made \in 0..Queues
    /\ queue \in [Ids -> QueueCells]
    /\ reply \in [Changes -> Replies \cup {None}]
    /\ arrived \in [Labs -> Seq(Changes)]
    /\ next \in 0..MaxChanges
    /\ jobs \subseteq 1..next /\ ended \subseteq 1..next

\* One for a change that is being worked.
Busy(work) == IF work = None THEN 0 ELSE 1

\* The position a new change is told is the number of changes before it.  (An
\* idle thread that would leave looks at its receiver, not at this count.)
CountIsTrue ==
    \A q \in Ids : Alive(q) =>
        queue[q].pending = Len(queue[q].rx) + Busy(queue[q].work)

\* Parts of the inductive invariant.  A thread that lives works the queue in
\* the map under its lab, so a lab has one at most; the queues not yet made
\* are as they were.
MapAgrees ==
    /\ \A q \in Ids :
        /\ Alive(q) => queue[q].lab \in Labs /\ queues[queue[q].lab] = q
        /\ q > made => queue[q].thread = "left"
    /\ \A l \in Labs : queues[l] # None => queues[l] <= made /\ queue[queues[l]].lab = l

WorkingHasWork ==
    \A q \in Ids : queue[q].work # None <=> queue[q].thread = "working"

\* A change was given its number before it was queued or refused, and was
\* queued once.
AcceptedOnce ==
    /\ \A w \in Changes : reply[w] # None => w <= next
    /\ \A l \in Labs : \A i \in 1..Len(arrived[l]) : arrived[l][i] <= next
    /\ \A l, m \in Labs : \A i \in 1..Len(arrived[l]), k \in 1..Len(arrived[m]) :
        arrived[l][i] = arrived[m][k] => l = m /\ i = k

\* Of the changes `all`, in their order, all but the last are decided: the
\* last are the one being worked, then those in the channel.
LastAre(all, rx, work, answer) ==
    LET n == Len(all) - Len(rx)
    IN  /\ Len(rx) + Busy(work) <= Len(all)
        /\ \A i \in 1..Len(all) : answer[all[i]] = None <=> i > n - Busy(work)
        /\ \A i \in 1..Len(rx) : rx[i] = all[n + i]
        /\ work # None => work = all[n]

AllDecided(all, answer) == \A i \in 1..Len(all) : answer[all[i]] # None

\* What a lab's live queue holds is what arrived last and is not decided;
\* without one all is decided.
LastArrivedOf(l) ==
    IF Live(l) THEN LastAre(arrived[l], queue[queues[l]].rx, queue[queues[l]].work, reply)
               ELSE AllDecided(arrived[l], reply)

LastArrived == \A l \in Labs : LastArrivedOf(l)

\* Work is dropped by a thread that died, not by one that left.
DroppedByDead ==
    (\E w \in Changes : reply[w] = "dropped") => \E q \in Ids : queue[q].thread = "dead"

IInv ==
    /\ TypeOK /\ CountIsTrue /\ MapAgrees /\ WorkingHasWork
    /\ AcceptedOnce /\ LastArrived /\ DroppedByDead

\* No accepted change is forgotten: it is answered, or in the hands of a
\* thread that lives; and a thread that leaves idle drops none.
NoWorkLost ==
    /\ TypeOK /\ CountIsTrue
    /\ \A w \in Accepted : reply[w] = None =>
            \E q \in Ids : Alive(q) /\ w \in InChannel(q) \cup {queue[q].work}
    /\ DroppedByDead

\* A lab's changes are taken in the order they were accepted, by whichever
\* threads: what is not decided comes after all that is.
InOrder ==
    \A l \in Labs : \A i, k \in DOMAIN arrived[l] :
        i < k /\ reply[arrived[l][k]] # None => reply[arrived[l][i]] # None

\* The change that runs on lab l, as LabMutex sees a holder.
Runs(l) ==
    LET busy == {q \in Ids : queue[q].lab = l /\ queue[q].thread = "working"}
    IN  IF busy = {} THEN None ELSE queue[CHOOSE q \in busy : TRUE].work

\* Two labs' queues have nothing in common but the map: one lab stands for
\* every lab.
AnyLab == CHOOSE l \in Labs : TRUE

Serial == INSTANCE LabMutex WITH Tasks <- Changes, Nobody <- None, holder <- Runs(AnyLab)

\* A lab's queue is a lock on it: a change runs only when no other does,
\* across the threads that work the lab one after the other.
ImplementsMutex == Serial!Spec

\* An operation that has not ended can be found again, whatever Jobs::job
\* forgot meanwhile: a client that left it attaches to it.
UnfinishedIsListed ==
    [][jobs \ jobs' \subseteq ended]_vars

\* Every accepted change gets its answer and is recorded as ended, whatever
\* thread dies under it.
EveryChangeEnds ==
    \A w \in Changes : w \in Accepted ~> w \in ended
=============================================================================
