-------------------------- MODULE LabQueues_proofs --------------------------
(***************************************************************************)
(* LabQueues for any labs, changes and queues: the inductive invariant     *)
(* IInv, that no accepted change is lost or overtaken, that an unfinished  *)
(* operation stays listed, and the refinement of LabMutex.                 *)
(***************************************************************************)
EXTENDS LabQueues, Integers, TLAPS

\* None is no queue, no change and no reply.
LEMMA NoneIsNoName == None \notin Ids /\ None \notin Changes /\ None \notin Replies
BY QueuesConstants DEF Ids, Changes, Replies

\* A channel may be empty.
LEMMA EmptyChannel == <<>> \in Seq(Changes)
OBVIOUS

-----------------------------------------------------------------------------
\* What the channel's operations do to the order of a lab's changes

\* No change is there twice.
Distinct(all) == \A i, k \in 1..Len(all) : all[i] = all[k] => i = k

\* Taking the first of the channel to work keeps the order.
LEMMA ReceiveKeepsOrder ==
    ASSUME NEW all \in Seq(Changes), NEW rx \in Seq(Changes), rx # <<>>, NEW answer,
           LastAre(all, rx, None, answer)
    PROVE  LastAre(all, Tail(rx), Head(rx), answer)
<1>1. /\ Head(rx) = rx[1] /\ Head(rx) \in Changes /\ Len(Tail(rx)) = Len(rx) - 1
      /\ Len(rx) \in Nat \ {0} /\ Len(all) \in Nat
      /\ \A i \in 1..Len(Tail(rx)) : Tail(rx)[i] = rx[i + 1]
  OBVIOUS
<1>2. Busy(None) = 0 /\ Busy(Head(rx)) = 1
  BY <1>1, NoneIsNoName DEF Busy
<1>3. QED
  BY <1>1, <1>2 DEF LastAre

\* Answering the change that is worked decides the next in order.
LEMMA AnswerKeepsOrder ==
    ASSUME NEW all \in Seq(Changes), NEW rx \in Seq(Changes), NEW w \in Changes, 
           NEW answer \in [Changes -> Replies \cup {None}],
           LastAre(all, rx, w, answer), Distinct(all)
    PROVE  LastAre(all, rx, None, [answer EXCEPT ![w] = "answered"])
<1>1. Busy(w) = 1 /\ Busy(None) = 0
  BY NoneIsNoName DEF Busy
<1>2. Len(rx) \in Nat /\ Len(all) \in Nat /\ \A i \in 1..Len(all) : all[i] \in Changes
  OBVIOUS
<1>3. QED
  BY <1>1, <1>2, NoneIsNoName DEF LastAre, Distinct, Replies

\* A change queued behind the others is the last that arrived.
LEMMA EnqueueKeepsOrder ==
    ASSUME NEW all \in Seq(Changes), NEW rx \in Seq(Changes), NEW work \in Changes \cup {None},
           NEW answer, NEW w \in Changes, answer[w] = None, LastAre(all, rx, work, answer)
    PROVE  LastAre(Append(all, w), Append(rx, w), work, answer)
<1>1. /\ Len(Append(all, w)) = Len(all) + 1 /\ Len(Append(rx, w)) = Len(rx) + 1
      /\ Len(all) \in Nat /\ Len(rx) \in Nat 
      /\ Append(all, w)[Len(all) + 1] = w /\ \A i \in 1..Len(all) : Append(all, w)[i] = all[i]
      /\ Append(rx, w)[Len(rx) + 1] = w /\ \A i \in 1..Len(rx) : Append(rx, w)[i] = rx[i]
  OBVIOUS
<1>2. Busy(work) \in {0, 1} BY DEF Busy
<1> DEFINE n == Len(all) - Len(rx)
<1>3. n = Len(Append(all, w)) - Len(Append(rx, w)) /\ n \in Int
  BY <1>1
<1>4. Len(Append(rx, w)) + Busy(work) <= Len(Append(all, w))
  BY <1>1, <1>2 DEF LastAre
<1>5. \A i \in 1..Len(Append(all, w)) : answer[Append(all, w)[i]] = None <=> i > n - Busy(work)
  <2> SUFFICES ASSUME NEW i \in 1..Len(Append(all, w))
               PROVE  answer[Append(all, w)[i]] = None <=> i > n - Busy(work)
    OBVIOUS
  <2>1. CASE i = Len(all) + 1
    BY <1>1, <1>2, <2>1 DEF LastAre
  <2>2. CASE i \in 1..Len(all)
    BY <1>1, <1>2, <2>2 DEF LastAre
  <2>3. QED BY <1>1, <2>1, <2>2
<1>6. \A i \in 1..Len(Append(rx, w)) : Append(rx, w)[i] = Append(all, w)[n + i]
  <2> SUFFICES ASSUME NEW i \in 1..Len(Append(rx, w)) PROVE Append(rx, w)[i] = Append(all, w)[n + i]
    OBVIOUS
  <2>1. CASE i = Len(rx) + 1
    BY <1>1, <1>2, <2>1
  <2>2. CASE i \in 1..Len(rx)
    <3>1. rx[i] = all[n + i] /\ n + i \in 1..Len(all)
      BY <1>1, <1>2, <2>2 DEF LastAre
    <3>2. QED BY <1>1, <2>2, <3>1
  <2>3. i = Len(rx) + 1 \/ i \in 1..Len(rx)
    BY <1>1
  <2>4. QED BY <2>1, <2>2, <2>3
<1>7. work # None => work = Append(all, w)[n]
  <2>1. ASSUME work # None PROVE work = Append(all, w)[n]
    <3>1. n \in 1..Len(all) /\ work = all[n]
      BY <1>1, <2>1 DEF LastAre, Busy
    <3>2. QED BY <1>1, <3>1
  <2>2. QED BY <2>1
<1>8. QED
  BY <1>3, <1>4, <1>5, <1>6, <1>7 DEF LastAre

\* In a new queue it is the only one.
LEMMA FirstIsLast ==
    ASSUME NEW all \in Seq(Changes), NEW answer, NEW w \in Changes, answer[w] = None,
           AllDecided(all, answer)
    PROVE  LastAre(Append(all, w), <<w>>, None, answer)
<1>1. /\ Len(Append(all, w)) = Len(all) + 1 /\ Len(<<w>>) = 1 /\ <<w>>[1] = w
      /\ Len(all) \in Nat 
      /\ Append(all, w)[Len(all) + 1] = w /\ \A i \in 1..Len(all) : Append(all, w)[i] = all[i]
  OBVIOUS
<1>2. Busy(None) = 0 BY DEF Busy
<1>3. QED
  BY <1>1, <1>2 DEF LastAre, AllDecided

\* Dropping all that a queue holds leaves nothing undecided.
LEMMA DropDecides ==
    ASSUME NEW all \in Seq(Changes), NEW rx \in Seq(Changes), NEW work \in Changes \cup {None},
           NEW answer, NEW answer2, LastAre(all, rx, work, answer),
           \A i \in 1..Len(rx) : answer2[rx[i]] # None, work # None => answer2[work] # None,
           \A i \in 1..Len(all) : answer[all[i]] # None => answer2[all[i]] # None
    PROVE  AllDecided(all, answer2)
<1>1. Len(rx) \in Nat /\ Len(all) \in Nat /\ Busy(work) \in {0, 1} /\ (Busy(work) = 1 => work # None)
  BY DEF Busy
<1> SUFFICES ASSUME NEW i \in 1..Len(all) PROVE answer2[all[i]] # None
  BY DEF AllDecided
<1>2. CASE i > Len(all) - Len(rx)
  <2>1. i - (Len(all) - Len(rx)) \in 1..Len(rx) /\ (Len(all) - Len(rx)) + (i - (Len(all) - Len(rx))) = i
     BY <1>1, <1>2
  <2>2. QED BY <2>1 DEF LastAre
<1>3. CASE i = Len(all) - Len(rx) /\ work # None
  BY <1>1, <1>3 DEF LastAre
<1>4. CASE i <= Len(all) - Len(rx) - Busy(work)
  BY <1>1, <1>4 DEF LastAre
<1>5. QED BY <1>1, <1>2, <1>3, <1>4

\* The change that is worked is one of those that arrived.
LEMMA WorkArrived ==
    ASSUME NEW all \in Seq(Changes), NEW rx \in Seq(Changes), NEW work, work # None,
           NEW answer, LastAre(all, rx, work, answer)
    PROVE  \E i \in 1..Len(all) : work = all[i]
<1>1. Len(all) \in Nat /\ Len(rx) \in Nat /\ Busy(work) = 1
  BY DEF Busy
<1>2. Len(all) - Len(rx) \in 1..Len(all)
  BY <1>1 DEF LastAre
<1>3. QED
  BY <1>2 DEF LastAre

\* A change that is not decided is worked or in the channel.
LEMMA UndecidedIsHeld ==
    ASSUME NEW all \in Seq(Changes), NEW rx \in Seq(Changes), NEW work, NEW answer,
           LastAre(all, rx, work, answer), NEW i \in 1..Len(all), answer[all[i]] = None
    PROVE  (\E k \in 1..Len(rx) : all[i] = rx[k]) \/ all[i] = work
<1>1. Len(all) \in Nat /\ Len(rx) \in Nat /\ Busy(work) \in {0, 1}
  BY DEF Busy
<1>2. i > Len(all) - Len(rx) - Busy(work)
  BY DEF LastAre
<1>3. CASE i > Len(all) - Len(rx)
  <2>1. PICK k \in 1..Len(rx) : i = Len(all) - Len(rx) + k
    <3>1. i - (Len(all) - Len(rx)) \in 1..Len(rx)
      BY <1>1, <1>3
    <3>2. i = Len(all) - Len(rx) + (i - (Len(all) - Len(rx)))
      BY <1>1
    <3>3. QED
      BY <3>1, <3>2
  <2>2. QED
    BY <2>1 DEF LastAre
<1>4. CASE i <= Len(all) - Len(rx)
  <2>1. Busy(work) = 1 /\ i = Len(all) - Len(rx)
    BY <1>1, <1>2, <1>4
  <2>2. work # None
    BY <2>1 DEF Busy
  <2>3. QED
    BY <2>1, <2>2 DEF LastAre
<1>5. QED
  BY <1>1, <1>3, <1>4

\* What comes before a decided change is decided.
LEMMA DecidedInOrder ==
    ASSUME NEW all \in Seq(Changes), NEW rx \in Seq(Changes), NEW work, NEW answer,
           LastAre(all, rx, work, answer), NEW i \in 1..Len(all), NEW k \in 1..Len(all),
           i < k, answer[all[k]] # None
    PROVE  answer[all[i]] # None
<1>1. Len(all) \in Nat /\ Len(rx) \in Nat /\ Busy(work) \in {0, 1}
  BY DEF Busy
<1>2. ~(k > Len(all) - Len(rx) - Busy(work))
  BY DEF LastAre
<1>3. ~(i > Len(all) - Len(rx) - Busy(work))
  BY <1>1, <1>2
<1>4. QED
  BY <1>3 DEF LastAre

\* So are those in the channel.
LEMMA ChannelArrived ==
    ASSUME NEW all \in Seq(Changes), NEW rx \in Seq(Changes), NEW work, NEW answer,
           LastAre(all, rx, work, answer), NEW k \in 1..Len(rx)
    PROVE  \E i \in 1..Len(all) : rx[k] = all[i]
<1>1. Len(all) \in Nat /\ Len(rx) \in Nat /\ Busy(work) \in {0, 1}
  BY DEF Busy
<1>2. Len(all) - Len(rx) + k \in 1..Len(all)
  BY <1>1 DEF LastAre
<1>3. QED
  BY <1>2 DEF LastAre

\* Answers to other changes do not matter.
LEMMA SameAnswers ==
    ASSUME NEW all, NEW rx, NEW work, NEW answer, NEW later,
           \A i \in 1..Len(all) : later[all[i]] = answer[all[i]]
    PROVE  /\ LastAre(all, rx, work, answer) => LastAre(all, rx, work, later)
           /\ AllDecided(all, answer) => AllDecided(all, later)
BY DEF LastAre, AllDecided

-----------------------------------------------------------------------------
\* The inductive invariant

\* No queue, no change.
LEMMA InitIInv == Init => IInv
<1> SUFFICES ASSUME Init PROVE IInv
  OBVIOUS
<1>1. NoQueue \in QueueCells
  BY DEF NoQueue, QueueCells, Threads
<1>2. TypeOK
  BY <1>1, QueuesConstants DEF Init, TypeOK
<1>3. \A q \in Ids : ~Alive(q) /\ queue[q].thread = "left" /\ queue[q].work = None
  BY DEF Init, Alive, NoQueue
<1>4. \A l \in Labs : ~Live(l) /\ arrived[l] = <<>> /\ queues[l] = None
  BY DEF Init, Live
<1>5. CountIsTrue /\ MapAgrees /\ WorkingHasWork
  BY <1>3, <1>4 DEF CountIsTrue, MapAgrees, WorkingHasWork
<1>6. AcceptedOnce /\ LastArrived /\ DroppedByDead
  BY <1>4, NoneIsNoName DEF Init, AcceptedOnce, LastArrived, LastArrivedOf, AllDecided,
     DroppedByDead, Replies
<1>7. QED
  BY <1>2, <1>5, <1>6 DEF IInv

\* A thread that lives works the queue in the map under its lab.
LEMMA LiveThread ==
    ASSUME IInv, NEW q \in Ids, Alive(q)
    PROVE  /\ queue[q].lab \in Labs /\ queues[queue[q].lab] = q /\ Live(queue[q].lab)
           /\ \A m \in Labs : queues[m] = q => m = queue[q].lab
           /\ queue[q].rx \in Seq(Changes) /\ queue[q].work \in Changes \cup {None}
           /\ arrived[queue[q].lab] \in Seq(Changes)
           /\ LastAre(arrived[queue[q].lab], queue[q].rx, queue[q].work, reply)
<1>1. queue[q].lab \in Labs /\ queues[queue[q].lab] = q /\ q # None
  BY NoneIsNoName DEF IInv, MapAgrees
<1>2. \A m \in Labs : queues[m] = q => m = queue[q].lab
  BY <1>1 DEF IInv, MapAgrees
<1>3. queue[q].rx \in Seq(Changes) /\ queue[q].work \in Changes \cup {None}
  BY DEF IInv, TypeOK, QueueCells
<1>4. arrived[queue[q].lab] \in Seq(Changes)
  BY <1>1 DEF IInv, TypeOK
<1>5. Live(queue[q].lab)
  BY <1>1 DEF Live
<1>6. QED
  BY <1>1, <1>2, <1>3, <1>4, <1>5 DEF IInv, LastArrived, LastArrivedOf

\* A step of a live thread that lives on preserves the invariant if its own
\* queue is in order afterwards and no other lab's change is answered.
LEMMA LiveThreadStep ==
    ASSUME IInv, NEW q \in Ids, Alive(q), Alive(q)',
           queue' \in [Ids -> QueueCells], reply' \in [Changes -> Replies \cup {None}],
           \A p \in Ids \ {q} : queue'[p] = queue[p],
           queue'[q].lab = queue[q].lab,
           queue'[q].work # None <=> queue'[q].thread = "working",
           queue'[q].pending = Len(queue'[q].rx) + Busy(queue'[q].work),
           LastAre(arrived[queue[q].lab], queue'[q].rx, queue'[q].work, reply'),
           \A w \in Changes : w # queue[q].work => reply'[w] = reply[w],
           \A w \in Changes : reply'[w] = "dropped" => reply[w] = "dropped",
           UNCHANGED <<queues, made, arrived, lists>>
    PROVE  IInv'
<1> DEFINE l == queue[q].lab
<1>0. /\ TypeOK /\ CountIsTrue /\ MapAgrees /\ WorkingHasWork
      /\ AcceptedOnce /\ LastArrived /\ DroppedByDead
  BY DEF IInv
<1>1. TypeOK'
  BY <1>0 DEF TypeOK, lists
<1>2. \A p \in Ids : Alive(p)' <=> Alive(p)
  BY DEF Alive
<1>3. \A p \in Ids : queue'[p].lab = queue[p].lab
  OBVIOUS
<1>4. CountIsTrue'
  BY <1>0, <1>2 DEF CountIsTrue
<1>5. MapAgrees'
  <2>1. ASSUME NEW p \in Ids, p > made PROVE queue'[p].thread = "left"
    BY <1>0, <2>1 DEF MapAgrees, Alive
  <2>2. \A m \in Labs : queues[m] \in Ids \cup {None}
    BY <1>0 DEF TypeOK
  <2>3. QED
    BY <1>0, <1>2, <1>3, <2>1, <2>2 DEF MapAgrees
<1>6. WorkingHasWork'
  BY <1>0 DEF WorkingHasWork
<1>7. /\ l \in Labs /\ queues[l] = q /\ Live(l) /\ \A m \in Labs : queues[m] = q => m = l
      /\ LastAre(arrived[l], queue[q].rx, queue[q].work, reply)
      /\ queue[q].work \in Changes \cup {None} /\ queue[q].rx \in Seq(Changes)
      /\ arrived[l] \in Seq(Changes)
  BY LiveThread
<1>8. queue[q].work # None =>
        \E i \in 1..Len(arrived[l]) : queue[q].work = arrived[l][i]
  BY <1>7, WorkArrived
<1>9. AcceptedOnce'
  <2>1. next' = next
    BY DEF lists
  <2>2. ASSUME NEW w \in Changes, reply'[w] # None PROVE w <= next
    <3>1. CASE w = queue[q].work
      <4>1. PICK i \in 1..Len(arrived[l]) : w = arrived[l][i]
        BY <1>8, <3>1, NoneIsNoName
      <4>2. QED
        BY <1>0, <1>7, <4>1 DEF AcceptedOnce
    <3>2. CASE w # queue[q].work
      BY <1>0, <2>2, <3>2 DEF AcceptedOnce
    <3>3. QED
      BY <3>1, <3>2
  <2>3. QED
    BY <1>0, <2>1, <2>2 DEF AcceptedOnce
<1>10. ASSUME NEW m \in Labs PROVE LastArrivedOf(m)'
  <2>1. CASE m = l
    BY <1>2, <1>7, <2>1, NoneIsNoName DEF LastArrivedOf, Live
  <2>2. CASE m # l
    <3>1. \A i \in 1..Len(arrived[m]) : reply'[arrived[m][i]] = reply[arrived[m][i]]
      <4>1. \A i \in 1..Len(arrived[m]) : arrived[m][i] \in Changes
        BY <1>0 DEF TypeOK
      <4>2. \A i \in 1..Len(arrived[m]) : arrived[m][i] # queue[q].work
        BY <1>0, <1>7, <1>8, <2>2, <4>1, NoneIsNoName DEF AcceptedOnce
      <4>3. QED
        BY <4>1, <4>2
    <3>2. queues[m] \in Ids \cup {None} /\ queues[m] # q
      BY <1>0, <1>7, <2>2 DEF TypeOK
    <3>3. Live(m)' <=> Live(m)
      BY <1>2, <3>2 DEF Live
    <3>4. Live(m) => queue'[queues[m]] = queue[queues[m]]
      BY <3>2 DEF Live
    <3>5. LastArrivedOf(m)
      BY <1>0 DEF LastArrived
    <3>6. QED
      BY <3>1, <3>3, <3>4, <3>5, SameAnswers DEF LastArrivedOf
  <2>3. QED
    BY <2>1, <2>2
<1>11. DroppedByDead'
  BY <1>0 DEF DroppedByDead, Alive
<1>12. QED
  BY <1>1, <1>4, <1>5, <1>6, <1>9, <1>10, <1>11 DEF IInv, LastArrived

\* Starting, idling and staying move the thread only.
LEMMA ThreadMovesIInv ==
    ASSUME IInv, NEW q \in Ids, ThreadStarts(q) \/ Idle(q) \/ IdleStay(q)
    PROVE  IInv'
<1>0. TypeOK /\ CountIsTrue /\ WorkingHasWork
  BY DEF IInv
<1>1. PICK t \in {"waiting", "idle"} : queue' = [queue EXCEPT ![q].thread = t]
  BY DEF ThreadStarts, Idle, IdleStay
<1>2. Alive(q) /\ queue[q].work = None
  BY <1>0 DEF ThreadStarts, Idle, IdleStay, Alive, WorkingHasWork
<1>3. queue' \in [Ids -> QueueCells]
  BY <1>0, <1>1, ZenonT(60) DEF TypeOK, QueueCells, Threads
<1>4. /\ \A p \in Ids \ {q} : queue'[p] = queue[p]
      /\ queue'[q].thread = t /\ queue'[q].lab = queue[q].lab /\ queue'[q].rx = queue[q].rx
      /\ queue'[q].work = queue[q].work /\ queue'[q].pending = queue[q].pending
  BY <1>0, <1>1 DEF TypeOK, QueueCells
<1>5. Alive(q)'
  BY <1>4 DEF Alive
<1>6. queue[q].pending = Len(queue[q].rx) + Busy(queue[q].work)
  BY <1>0, <1>2 DEF CountIsTrue
<1>7. UNCHANGED <<queues, made, reply, arrived, lists>>
  BY DEF ThreadStarts, Idle, IdleStay
<1>8. reply' \in [Changes -> Replies \cup {None}]
  BY <1>0, <1>7 DEF TypeOK
<1>9. LastAre(arrived[queue[q].lab], queue'[q].rx, queue'[q].work, reply')
  BY <1>2, <1>4, <1>7, LiveThread
<1>10. QED
  BY <1>2, <1>3, <1>4, <1>5, <1>6, <1>7, <1>8, <1>9, LiveThreadStep

\* The first of the channel goes to the thread.
LEMMA ReceiveIInv ==
    ASSUME IInv, NEW q \in Ids, Receive(q)
    PROVE  IInv'
<1>0. TypeOK /\ CountIsTrue /\ WorkingHasWork
  BY DEF IInv
<1>1. Alive(q) /\ queue[q].work = None /\ queue[q].rx # <<>>
  BY <1>0 DEF Receive, Alive, WorkingHasWork
<1>2. queue[q].rx \in Seq(Changes) /\ arrived[queue[q].lab] \in Seq(Changes)
  BY <1>1, LiveThread
<1>3. /\ Head(queue[q].rx) \in Changes /\ Tail(queue[q].rx) \in Seq(Changes)
      /\ Len(queue[q].rx) = Len(Tail(queue[q].rx)) + 1
  BY <1>1, <1>2
<1>4. queue' \in [Ids -> QueueCells]
  <2>1. PICK h \in Changes, t \in Seq(Changes) :
          queue' = [queue EXCEPT ![q].thread = "working", ![q].work = h, ![q].rx = t]
    BY <1>3 DEF Receive
  <2>2. [queue[q] EXCEPT !.thread = "working", !.work = h, !.rx = t] \in QueueCells
    BY <1>0 DEF TypeOK, QueueCells, Threads
  <2>3. QED
    BY <1>0, <2>1, <2>2 DEF TypeOK
<1>5. /\ \A p \in Ids \ {q} : queue'[p] = queue[p]
      /\ queue'[q].thread = "working" /\ queue'[q].lab = queue[q].lab
      /\ queue'[q].rx = Tail(queue[q].rx) /\ queue'[q].work = Head(queue[q].rx)
      /\ queue'[q].pending = queue[q].pending
  BY <1>0 DEF TypeOK, QueueCells, Receive
<1>6. Alive(q)' /\ queue'[q].work # None
  BY <1>3, <1>5, NoneIsNoName DEF Alive
<1>7. queue'[q].pending = Len(queue'[q].rx) + Busy(queue'[q].work)
  <2>1. queue[q].pending = Len(queue[q].rx) + Busy(None)
    BY <1>0, <1>1 DEF CountIsTrue
  <2>2. Len(Tail(queue[q].rx)) \in Nat
    BY <1>3
  <2>3. QED
    BY <1>3, <1>5, <1>6, <2>1, <2>2 DEF Busy
<1>8. UNCHANGED <<queues, made, reply, arrived, lists>>
  BY DEF Receive
<1>9. reply' \in [Changes -> Replies \cup {None}]
  BY <1>0, <1>8 DEF TypeOK
<1>10. LastAre(arrived[queue[q].lab], queue'[q].rx, queue'[q].work, reply')
  BY <1>1, <1>2, <1>5, <1>8, LiveThread, ReceiveKeepsOrder
<1>11. QED
  BY <1>1, <1>4, <1>5, <1>6, <1>7, <1>8, <1>9, <1>10, LiveThreadStep

\* The change that was worked is decided, and no other.
LEMMA AnswerIInv ==
    ASSUME IInv, NEW q \in Ids, Answer(q)
    PROVE  IInv'
<1> DEFINE w == queue[q].work
<1>0. TypeOK /\ CountIsTrue /\ WorkingHasWork /\ AcceptedOnce
  BY DEF IInv
<1>1. Alive(q) /\ w # None
  BY <1>0 DEF Answer, Alive, WorkingHasWork
<1>2. /\ queue[q].rx \in Seq(Changes) /\ arrived[queue[q].lab] \in Seq(Changes) /\ w \in Changes
      /\ queue[q].lab \in Labs /\ LastAre(arrived[queue[q].lab], queue[q].rx, w, reply)
  BY <1>1, LiveThread
<1>3. queue[q].pending = Len(queue[q].rx) + 1 /\ Len(queue[q].rx) \in Nat
  <2>1. queue[q].pending = Len(queue[q].rx) + Busy(w)
    BY <1>0, <1>1 DEF CountIsTrue
  <2>2. Busy(w) = 1
    BY <1>1 DEF Busy
  <2>3. QED
    BY <1>2, <2>1, <2>2
<1>4. PICK n \in Nat : n = queue[q].pending - 1 /\ n = Len(queue[q].rx)
  BY <1>3
<1>5. queue' = [queue EXCEPT ![q].thread = "waiting", ![q].work = None, ![q].pending = n]
  BY <1>4 DEF Answer
<1>6. queue' \in [Ids -> QueueCells]
  <2>1. [queue[q] EXCEPT !.thread = "waiting", !.work = None, !.pending = n] \in QueueCells
    BY <1>0 DEF TypeOK, QueueCells, Threads
  <2>2. QED
    BY <1>0, <1>5, <2>1 DEF TypeOK
<1>7. /\ \A p \in Ids \ {q} : queue'[p] = queue[p]
      /\ queue'[q].thread = "waiting" /\ queue'[q].lab = queue[q].lab
      /\ queue'[q].rx = queue[q].rx /\ queue'[q].work = None /\ queue'[q].pending = n
  BY <1>0, <1>5 DEF TypeOK, QueueCells
<1>8. Alive(q)'
  BY <1>7 DEF Alive
<1>9. queue'[q].pending = Len(queue'[q].rx) + Busy(queue'[q].work)
  BY <1>4, <1>7 DEF Busy
<1>10. reply' = [reply EXCEPT ![w] = "answered"] /\ UNCHANGED <<queues, made, arrived, lists>>
  BY DEF Answer
<1>11. reply \in [Changes -> Replies \cup {None}] /\ reply' \in [Changes -> Replies \cup {None}]
  BY <1>0, <1>10 DEF TypeOK, Replies
<1>12. Distinct(arrived[queue[q].lab])
  BY <1>0, <1>2 DEF AcceptedOnce, Distinct
<1>13. LastAre(arrived[queue[q].lab], queue'[q].rx, queue'[q].work, reply')
  BY <1>2, <1>7, <1>10, <1>11, <1>12, AnswerKeepsOrder
<1>14. \A v \in Changes : (v # w => reply'[v] = reply[v]) /\ (reply'[v] = "dropped" => reply[v] = "dropped")
  BY <1>10, <1>11
<1>15. QED
  BY <1>1, <1>6, <1>7, <1>8, <1>9, <1>10, <1>11, <1>13, <1>14, LiveThreadStep

\* A thread that ends decides all its lab's changes: what it held is dropped.
LEMMA ThreadEndsIInv ==
    ASSUME IInv, NEW q \in Ids, Alive(q), NEW how \in {"left", "dead"}, ThreadEnds(q, how),
           how = "left" => queue[q].rx = <<>> /\ queue[q].work = None,
           queues' = queues \/ queues' = [queues EXCEPT ![queue[q].lab] = None],
           UNCHANGED <<made, arrived, lists>>
    PROVE  IInv'
<1>0. /\ TypeOK /\ CountIsTrue /\ MapAgrees /\ WorkingHasWork
      /\ AcceptedOnce /\ LastArrived /\ DroppedByDead
  BY DEF IInv
<1>1. PICK l \in Labs :
      /\ l = queue[q].lab /\ queues[l] = q /\ Live(l) /\ \A m \in Labs : queues[m] = q => m = l
      /\ LastAre(arrived[l], queue[q].rx, queue[q].work, reply)
      /\ queue[q].work \in Changes \cup {None} /\ queue[q].rx \in Seq(Changes)
      /\ arrived[l] \in Seq(Changes)
  BY LiveThread
<1>2. queue' \in [Ids -> QueueCells]
  <2>1. PICK none \in Seq(Changes) : none = <<>>
    BY EmptyChannel
  <2>2. queue[q] \in QueueCells /\ how \in Threads
    BY <1>0 DEF TypeOK, Threads
  <2>3. [queue[q] EXCEPT !.thread = how, !.rx = none, !.work = None] \in QueueCells
    BY <2>2 DEF QueueCells
  <2>4. QED
    BY <1>0, <2>1, <2>3 DEF TypeOK, ThreadEnds
<1>3. /\ \A p \in Ids \ {q} : queue'[p] = queue[p]
      /\ queue'[q].thread = how /\ queue'[q].lab = l /\ queue'[q].work = None
  BY <1>0, <1>1 DEF TypeOK, QueueCells, ThreadEnds
<1>4. /\ reply' \in [Changes -> Replies \cup {None}]
      /\ \A w \in Changes : reply'[w] = IF w \in InChannel(q) \cup {queue[q].work}
                                        THEN "dropped" ELSE reply[w]
  BY <1>0 DEF TypeOK, ThreadEnds, Replies
<1>5. queues' \in [Labs -> Ids \cup {None}] /\ \A m \in Labs \ {l} : queues'[m] = queues[m]
  BY <1>0, <1>1 DEF TypeOK
<1>6. TypeOK'
  BY <1>0, <1>2, <1>4, <1>5 DEF TypeOK, lists
<1>7. ~Alive(q)' /\ \A p \in Ids \ {q} : Alive(p)' <=> Alive(p)
  BY <1>3 DEF Alive
<1>8. CountIsTrue'
  BY <1>0, <1>3, <1>7 DEF CountIsTrue
<1>9. WorkingHasWork'
  BY <1>0, <1>3 DEF WorkingHasWork
<1>10. MapAgrees'
  <2>1. ASSUME NEW p \in Ids, Alive(p)' PROVE (queue[p].lab \in Labs /\ queues[queue[p].lab] = p)'
    <3>1. p # q /\ Alive(p)
      BY <1>7, <2>1
    <3>2. queue[p].lab \in Labs /\ queues[queue[p].lab] = p
      BY <1>0, <3>1 DEF MapAgrees
    <3>3. QED
      BY <1>1, <1>3, <1>5, <3>1, <3>2
  <2>2. ASSUME NEW p \in Ids, p > made PROVE queue'[p].thread = "left"
    BY <1>0, <1>3, <2>2 DEF MapAgrees, Alive
  <2>3. ASSUME NEW m \in Labs, queues'[m] # None
        PROVE  queues'[m] <= made /\ queue'[queues'[m]].lab = m
    <3>1. queues'[m] = queues[m] /\ queues[m] \in Ids
      BY <1>0, <1>1, <1>5, <2>3 DEF TypeOK
    <3>2. queues[m] <= made /\ queue[queues[m]].lab = m
      BY <1>0, <2>3, <3>1 DEF MapAgrees
    <3>3. QED
      BY <1>1, <1>3, <3>1, <3>2
  <2>4. QED
    BY <2>1, <2>2, <2>3 DEF MapAgrees
<1>11. \A w \in InChannel(q) \cup {queue[q].work} : w # None =>
            \E i \in 1..Len(arrived[l]) : w = arrived[l][i]
  <2>1. ASSUME NEW w \in InChannel(q) PROVE \E i \in 1..Len(arrived[l]) : w = arrived[l][i]
    <3>1. PICK k \in 1..Len(queue[q].rx) : w = queue[q].rx[k]
      BY <1>1, <2>1 DEF InChannel
    <3>2. QED
      BY <1>1, <3>1, ChannelArrived
  <2>2. QED
    BY <1>1, <2>1, WorkArrived
<1>12. AcceptedOnce'
  <2>1. next' = next
    BY DEF lists
  <2>2. ASSUME NEW w \in Changes, reply'[w] # None PROVE w <= next
    <3>1. CASE w \in InChannel(q) \cup {queue[q].work}
      <4>1. PICK i \in 1..Len(arrived[l]) : w = arrived[l][i]
        BY <1>11, <3>1, NoneIsNoName
      <4>2. QED
        BY <1>0, <1>1, <4>1 DEF AcceptedOnce
    <3>2. CASE w \notin InChannel(q) \cup {queue[q].work}
      BY <1>0, <1>4, <2>2, <3>2 DEF AcceptedOnce
    <3>3. QED
      BY <3>1, <3>2
  <2>3. QED
    BY <1>0, <2>1, <2>2 DEF AcceptedOnce
<1>13. ASSUME NEW m \in Labs PROVE LastArrivedOf(m)'
  <2>0. arrived[m] \in Seq(Changes) /\ \A i \in 1..Len(arrived[m]) : arrived[m][i] \in Changes
    BY <1>0 DEF TypeOK
  <2>1. CASE m = l
    <3>1. ~Live(l)'
      BY <1>1, <1>5, <1>7 DEF Live
    <3>2. \A i \in 1..Len(queue[q].rx) : reply'[queue[q].rx[i]] # None
      <4>1. \A i \in 1..Len(queue[q].rx) : queue[q].rx[i] \in InChannel(q) /\ queue[q].rx[i] \in Changes
        BY <1>1 DEF InChannel
      <4>2. QED
        BY <1>4, <4>1, NoneIsNoName DEF Replies
    <3>3. queue[q].work # None => reply'[queue[q].work] # None
      BY <1>1, <1>4, NoneIsNoName DEF Replies
    <3>4. \A i \in 1..Len(arrived[l]) : reply[arrived[l][i]] # None => reply'[arrived[l][i]] # None
      BY <1>4, <2>0, <2>1, NoneIsNoName DEF Replies
    <3>5. AllDecided(arrived[l], reply')
      <4>1. /\ arrived[l] \in Seq(Changes) /\ queue[q].rx \in Seq(Changes)
            /\ queue[q].work \in Changes \cup {None}
            /\ LastAre(arrived[l], queue[q].rx, queue[q].work, reply)
        BY <1>1
      <4>2. QED
        BY <3>2, <3>3, <3>4, <4>1, DropDecides, Zenon
    <3>6. QED
      BY <2>1, <3>1, <3>5 DEF LastArrivedOf
  <2>2. CASE m # l
    <3>1. \A i \in 1..Len(arrived[m]) : reply'[arrived[m][i]] = reply[arrived[m][i]]
      <4>1. \A i \in 1..Len(arrived[m]) : arrived[m][i] \notin InChannel(q) \cup {queue[q].work}
        <5> SUFFICES ASSUME NEW i \in 1..Len(arrived[m]),
                            arrived[m][i] \in InChannel(q) \cup {queue[q].work}
                     PROVE  FALSE
          OBVIOUS
        <5>1. PICK k \in 1..Len(arrived[l]) : arrived[m][i] = arrived[l][k]
          BY <1>11, <2>0, NoneIsNoName
        <5>2. QED
          BY <1>0, <2>2, <5>1 DEF AcceptedOnce
      <4>2. QED
        BY <1>4, <2>0, <4>1
    <3>2. queues[m] \in Ids \cup {None} /\ queues[m] # q /\ queues'[m] = queues[m]
      BY <1>0, <1>1, <1>5, <2>2 DEF TypeOK
    <3>3. Live(m)' <=> Live(m)
      BY <1>7, <3>2 DEF Live
    <3>4. Live(m) => queue'[queues'[m]] = queue[queues[m]]
      BY <1>3, <3>2 DEF Live
    <3>5. LastArrivedOf(m)
      BY <1>0 DEF LastArrived
    <3>6. QED
      BY <3>1, <3>3, <3>4, <3>5, SameAnswers DEF LastArrivedOf
  <2>3. QED
    BY <2>1, <2>2
<1>14. DroppedByDead'
  <2>1. CASE how = "dead"
    BY <1>3, <2>1 DEF DroppedByDead
  <2>2. CASE how = "left"
    <3>1. \A w \in Changes : reply'[w] = reply[w]
      BY <1>4, <2>2, NoneIsNoName DEF InChannel
    <3>2. QED
      BY <1>0, <1>3, <3>1 DEF DroppedByDead, Alive
  <2>3. QED
    BY <2>1, <2>2
<1>15. QED
  BY <1>6, <1>8, <1>9, <1>10, <1>12, <1>13, <1>14 DEF IInv, LastArrived

\* A thread's step preserves the invariant.
LEMMA ThreadIInv ==
    ASSUME IInv, NEW q \in Ids, Thread(q)
    PROVE  IInv'
<1>1. CASE ThreadStarts(q) \/ Idle(q) \/ IdleStay(q)
  BY <1>1, ThreadMovesIInv
<1>2. CASE Receive(q)
  BY <1>2, ReceiveIInv
<1>3. CASE Answer(q)
  BY <1>3, AnswerIInv
<1>4. CASE ThreadFails(q) \/ Panic(q)
  <2>1. /\ Alive(q) /\ ThreadEnds(q, "dead") /\ queues' = queues
        /\ UNCHANGED <<made, arrived, lists>>
    BY <1>4 DEF ThreadFails, Panic, Alive
  <2>2. QED
    BY <2>1, ThreadEndsIInv
<1>5. CASE IdleLeave(q)
  <2>1. /\ Alive(q) /\ ThreadEnds(q, "left") /\ queue[q].rx = <<>>
        /\ queues' = [queues EXCEPT ![queue[q].lab] = None]
        /\ UNCHANGED <<made, arrived, lists>>
    BY <1>5 DEF IdleLeave, Alive
  <2>2. queue[q].work = None
    BY <1>5 DEF IInv, WorkingHasWork, IdleLeave
  <2>3. QED
    BY <2>1, <2>2, ThreadEndsIInv
<1>6. QED
  BY <1>1, <1>2, <1>3, <1>4, <1>5 DEF Thread

\* A change that is queued was new, and is queued last.
LEMMA AcceptIsOnce ==
    ASSUME IInv, NEW l \in Labs, NEW w \in Changes, New(w), Accept(l, w),
           reply' = reply, next' = next
    PROVE  /\ arrived' \in [Labs -> Seq(Changes)]
           /\ arrived'[l] = Append(arrived[l], w) /\ arrived[l] \in Seq(Changes)
           /\ \A m \in Labs \ {l} : arrived'[m] = arrived[m]
           /\ AcceptedOnce'
<1>0. TypeOK /\ AcceptedOnce
  BY DEF IInv
<1>1. arrived[l] \in Seq(Changes) /\ Append(arrived[l], w) \in Seq(Changes)
  BY <1>0 DEF TypeOK
<1>2. /\ arrived' \in [Labs -> Seq(Changes)] /\ arrived'[l] = Append(arrived[l], w)
      /\ \A m \in Labs \ {l} : arrived'[m] = arrived[m]
  BY <1>0, <1>1 DEF TypeOK, Accept
<1>3. /\ Len(arrived'[l]) = Len(arrived[l]) + 1 /\ Len(arrived[l]) \in Nat
      /\ arrived'[l][Len(arrived[l]) + 1] = w
      /\ \A i \in 1..Len(arrived[l]) : arrived'[l][i] = arrived[l][i]
  BY <1>1, <1>2
<1>4. \A m \in Labs : \A i \in 1..Len(arrived[m]) : arrived[m][i] # w
  <2>1. \A m \in Labs : DOMAIN arrived[m] = 1..Len(arrived[m])
    BY <1>0 DEF TypeOK
  <2>2. QED
    BY <2>1 DEF New, Accepted
<1>5. w <= next
  BY DEF New
\* Either an old place, or the last of l, which holds w.
<1>6. ASSUME NEW m \in Labs, NEW i \in 1..Len(arrived'[m])
      PROVE  \/ i \in 1..Len(arrived[m]) /\ arrived'[m][i] = arrived[m][i]
             \/ m = l /\ i = Len(arrived[l]) + 1 /\ arrived'[m][i] = w
  <2>1. CASE m = l
    BY <1>3, <1>6, <2>1
  <2>2. CASE m # l
    BY <1>2, <1>6, <2>2
  <2>3. QED
    BY <2>1, <2>2
<1>7. ASSUME NEW m \in Labs, NEW i \in 1..Len(arrived'[m]) PROVE arrived'[m][i] <= next'
  BY <1>0, <1>5, <1>6 DEF AcceptedOnce
<1>8. ASSUME NEW m \in Labs, NEW o \in Labs, NEW i \in 1..Len(arrived'[m]),
             NEW k \in 1..Len(arrived'[o]), arrived'[m][i] = arrived'[o][k]
      PROVE  m = o /\ i = k
  <2>1. /\ \/ i \in 1..Len(arrived[m]) /\ arrived'[m][i] = arrived[m][i]
           \/ m = l /\ i = Len(arrived[l]) + 1 /\ arrived'[m][i] = w
        /\ \/ k \in 1..Len(arrived[o]) /\ arrived'[o][k] = arrived[o][k]
           \/ o = l /\ k = Len(arrived[l]) + 1 /\ arrived'[o][k] = w
    BY <1>6
  <2>2. QED
    BY <1>0, <1>4, <1>8, <2>1 DEF AcceptedOnce
<1>9. AcceptedOnce'
  BY <1>0, <1>7, <1>8 DEF AcceptedOnce
<1>10. QED
  BY <1>1, <1>2, <1>9

\* The map's queue takes the change.
LEMMA EnqueueIInv ==
    ASSUME IInv, NEW l \in Labs, NEW w \in Changes, Enqueue(l, w)
    PROVE  IInv'
<1>0. /\ TypeOK /\ CountIsTrue /\ MapAgrees /\ WorkingHasWork
      /\ AcceptedOnce /\ LastArrived /\ DroppedByDead
  BY DEF IInv
<1>1. /\ New(w) /\ Live(l) /\ Accept(l, w) /\ queues' = queues /\ made' = made
      /\ reply' = reply /\ next' = next /\ jobs' = jobs /\ ended' = ended
  BY DEF Enqueue, lists
<1>2. /\ arrived' \in [Labs -> Seq(Changes)]
      /\ arrived'[l] = Append(arrived[l], w) /\ arrived[l] \in Seq(Changes)
      /\ \A m \in Labs \ {l} : arrived'[m] = arrived[m]
      /\ AcceptedOnce'
  BY <1>1, AcceptIsOnce
<1>3. PICK q \in Ids : q = queues[l] /\ Alive(q)
  BY <1>0, <1>1 DEF TypeOK, Live
<1>4. queue[q].lab = l /\ \A m \in Labs : queues[m] = q => m = l
  BY <1>0, <1>3, NoneIsNoName DEF MapAgrees
<1>5. queue[q] \in QueueCells /\ queue[q].rx \in Seq(Changes) /\ queue[q].pending \in Nat
      /\ queue[q].work \in Changes \cup {None}
  BY <1>0 DEF TypeOK, QueueCells
<1>6. PICK n \in Nat, rx \in Seq(Changes) : n = queue[q].pending + 1 /\ rx = Append(queue[q].rx, w)
  <2>1. queue[q].pending + 1 \in Nat /\ Append(queue[q].rx, w) \in Seq(Changes)
    BY <1>5
  <2>2. QED
    BY <2>1
<1>7. queue' = [queue EXCEPT ![q].pending = n, ![q].rx = rx]
  BY <1>3, <1>6 DEF Enqueue
<1>8. queue' \in [Ids -> QueueCells]
  <2>1. [queue[q] EXCEPT !.pending = n, !.rx = rx] \in QueueCells
    BY <1>5 DEF QueueCells
  <2>2. QED
    BY <1>0, <1>7, <2>1 DEF TypeOK
<1>9. /\ \A p \in Ids \ {q} : queue'[p] = queue[p]
      /\ queue'[q].rx = rx /\ queue'[q].pending = n /\ queue'[q].work = queue[q].work
      /\ \A p \in Ids : queue'[p].thread = queue[p].thread /\ queue'[p].lab = queue[p].lab
                        /\ queue'[p].work = queue[p].work
  BY <1>0, <1>7 DEF TypeOK, QueueCells
<1>10. TypeOK'
  BY <1>0, <1>1, <1>2, <1>8 DEF TypeOK
<1>11. \A p \in Ids : Alive(p)' <=> Alive(p)
  BY <1>9 DEF Alive
<1>12. CountIsTrue'
  <2>1. n = Len(rx) + Busy(queue[q].work)
    <3>1. queue[q].pending = Len(queue[q].rx) + Busy(queue[q].work)
      BY <1>0, <1>3 DEF CountIsTrue
    <3>2. Len(rx) = Len(queue[q].rx) + 1 /\ Len(queue[q].rx) \in Nat
      BY <1>5, <1>6
    <3>3. Busy(queue[q].work) \in {0, 1}
      BY DEF Busy
    <3>4. QED
      BY <1>6, <3>1, <3>2, <3>3
  <2>2. QED
    BY <1>0, <1>9, <1>11, <2>1 DEF CountIsTrue
<1>13. MapAgrees'
  <2>1. \A m \in Labs : queues[m] \in Ids \cup {None}
    BY <1>0 DEF TypeOK
  <2>2. QED
    BY <1>0, <1>1, <1>9, <1>11, <2>1 DEF MapAgrees
<1>14. WorkingHasWork' /\ DroppedByDead'
  BY <1>0, <1>1, <1>9 DEF WorkingHasWork, DroppedByDead
<1>15. ASSUME NEW m \in Labs PROVE LastArrivedOf(m)'
  <2>1. LastArrivedOf(m) /\ queues[m] \in Ids \cup {None}
    BY <1>0 DEF LastArrived, TypeOK
  <2>2. Live(m)' <=> Live(m)
    BY <1>1, <1>11, <2>1 DEF Live
  <2>3. CASE m = l
    <3>1. LastAre(arrived[l], queue[q].rx, queue[q].work, reply) /\ reply[w] = None
      BY <1>1, <1>3, <2>1, <2>3 DEF LastArrivedOf, New
    <3>2. LastAre(arrived'[l], rx, queue[q].work, reply)
      BY <1>2, <1>5, <1>6, <3>1, EnqueueKeepsOrder
    <3>3. QED
      BY <1>1, <1>3, <1>9, <2>2, <2>3, <3>2 DEF LastArrivedOf
  <2>4. CASE m # l
    <3>1. queues[m] # q /\ arrived'[m] = arrived[m]
      BY <1>2, <1>4, <2>4
    <3>2. Live(m) => queue'[queues[m]] = queue[queues[m]]
      BY <1>9, <2>1, <3>1 DEF Live
    <3>3. QED
      BY <1>1, <2>1, <2>2, <3>1, <3>2 DEF LastArrivedOf
  <2>5. QED
    BY <2>3, <2>4
<1>16. QED
  BY <1>2, <1>10, <1>12, <1>13, <1>14, <1>15 DEF IInv, LastArrived

\* A new queue takes over a lab whose changes are all decided.
LEMMA EnqueueNewIInv ==
    ASSUME IInv, NEW l \in Labs, NEW w \in Changes, EnqueueNew(l, w)
    PROVE  IInv'
<1>0. /\ TypeOK /\ CountIsTrue /\ MapAgrees /\ WorkingHasWork
      /\ AcceptedOnce /\ LastArrived /\ DroppedByDead
  BY DEF IInv
<1>1. /\ New(w) /\ ~Live(l) /\ Accept(l, w)
      /\ reply' = reply /\ next' = next /\ jobs' = jobs /\ ended' = ended
  BY DEF EnqueueNew, lists
<1>2. /\ arrived' \in [Labs -> Seq(Changes)]
      /\ arrived'[l] = Append(arrived[l], w) /\ arrived[l] \in Seq(Changes)
      /\ \A m \in Labs \ {l} : arrived'[m] = arrived[m]
      /\ AcceptedOnce'
  BY <1>1, AcceptIsOnce
<1>3. PICK q \in Ids : q = made + 1 /\ q > made /\ made \in Nat
  BY <1>0, QueuesConstants DEF TypeOK, EnqueueNew, Ids
<1> DEFINE cells == [lab |-> l, thread |-> "starting", rx |-> <<w>>, pending |-> 1, work |-> None]
<1>4. /\ made' = q /\ queues' = [queues EXCEPT ![l] = q] /\ queue' = [queue EXCEPT ![q] = cells]
  BY <1>3 DEF EnqueueNew
<1>5. cells \in QueueCells
  BY DEF QueueCells, Threads
<1>6. /\ queue' \in [Ids -> QueueCells] /\ \A p \in Ids \ {q} : queue'[p] = queue[p]
      /\ queue'[q] = cells
  BY <1>0, <1>4, <1>5 DEF TypeOK
<1>7. /\ queue'[q].lab = l /\ queue'[q].thread = "starting" /\ queue'[q].rx = <<w>>
      /\ queue'[q].pending = 1 /\ queue'[q].work = None
  BY <1>6
<1> HIDE DEF cells
<1>8. /\ queues' \in [Labs -> Ids \cup {None}] /\ queues'[l] = q
      /\ \A m \in Labs \ {l} : queues'[m] = queues[m]
  BY <1>0, <1>4 DEF TypeOK
<1>9. TypeOK'
  <2>1. made' \in 0..Queues
    BY <1>0, <1>3, <1>4, QueuesConstants DEF Ids, TypeOK
  <2>2. QED
    BY <1>0, <1>1, <1>2, <1>6, <1>8, <2>1 DEF TypeOK
<1>10. Alive(q)' /\ \A p \in Ids \ {q} : Alive(p)' <=> Alive(p)
  BY <1>6, <1>7 DEF Alive
<1>11. ~Alive(q) /\ queue[q].thread = "left"
  BY <1>0, <1>3 DEF MapAgrees, Alive
<1>12. CountIsTrue'
  <2>1. queue'[q].pending = Len(queue'[q].rx) + Busy(queue'[q].work)
    BY <1>7 DEF Busy
  <2>2. QED
    BY <1>0, <1>6, <1>10, <2>1 DEF CountIsTrue
<1>13. WorkingHasWork'
  BY <1>0, <1>6, <1>7 DEF WorkingHasWork
<1>14. DroppedByDead'
  BY <1>0, <1>1, <1>6, <1>11 DEF DroppedByDead
<1>15. MapAgrees'
  <2>1. ASSUME NEW p \in Ids, Alive(p)' PROVE (queue[p].lab \in Labs /\ queues[queue[p].lab] = p)'
    <3>1. CASE p = q
      BY <1>7, <1>8, <3>1
    <3>2. CASE p # q
      <4>1. Alive(p) /\ queue[p].lab \in Labs /\ queues[queue[p].lab] = p
        BY <1>0, <1>10, <2>1, <3>2 DEF MapAgrees
      <4>2. queue[p].lab # l
        BY <1>1, <4>1, NoneIsNoName DEF Live
      <4>3. QED
        BY <1>6, <1>8, <3>2, <4>1, <4>2
    <3>3. QED
      BY <3>1, <3>2
  <2>2. ASSUME NEW p \in Ids, p > made' PROVE queue'[p].thread = "left"
    <3>1. p # q /\ p > made
      BY <1>3, <1>4, <2>2 DEF Ids
    <3>2. QED
      BY <1>0, <1>6, <3>1 DEF MapAgrees
  <2>3. ASSUME NEW m \in Labs, queues'[m] # None
        PROVE  queues'[m] <= made' /\ queue'[queues'[m]].lab = m
    <3>1. CASE m = l
      BY <1>3, <1>4, <1>7, <1>8, <3>1
    <3>2. CASE m # l
      <4>1. queues'[m] = queues[m] /\ queues[m] \in Ids /\ queues[m] <= made /\ queue[queues[m]].lab = m
        BY <1>0, <1>8, <2>3, <3>2 DEF MapAgrees, TypeOK
      <4>2. queues[m] # q /\ queues[m] <= q
        BY <1>3, <4>1 DEF Ids
      <4>3. QED
        BY <1>4, <1>6, <4>1, <4>2
    <3>3. QED
      BY <3>1, <3>2
  <2>4. QED
    BY <2>1, <2>2, <2>3 DEF MapAgrees
<1>16. ASSUME NEW m \in Labs PROVE LastArrivedOf(m)'
  <2>1. LastArrivedOf(m) /\ queues[m] \in Ids \cup {None}
    BY <1>0 DEF LastArrived, TypeOK
  <2>2. CASE m = l
    <3>1. AllDecided(arrived[l], reply) /\ reply[w] = None
      BY <1>1, <2>1, <2>2 DEF LastArrivedOf, New
    <3>2. LastAre(arrived'[l], <<w>>, None, reply)
      BY <1>2, <3>1, FirstIsLast
    <3>3. Live(l)'
      BY <1>8, <1>10, NoneIsNoName DEF Live
    <3>4. QED
      BY <1>1, <1>7, <1>8, <2>2, <3>2, <3>3 DEF LastArrivedOf
  <2>3. CASE m # l
    <3>1. queues'[m] = queues[m] /\ queues[m] # q /\ arrived'[m] = arrived[m]
      <4>1. queues[m] # None => queues[m] <= made
        BY <1>0 DEF MapAgrees
      <4>2. QED
        BY <1>2, <1>3, <1>8, <2>1, <2>3, <4>1, NoneIsNoName
    <3>2. Live(m)' <=> Live(m)
      BY <1>10, <2>1, <3>1 DEF Live
    <3>3. Live(m) => queue'[queues'[m]] = queue[queues[m]]
      BY <1>6, <2>1, <3>1 DEF Live
    <3>4. QED
      BY <1>1, <2>1, <3>1, <3>2, <3>3 DEF LastArrivedOf
  <2>4. QED
    BY <2>2, <2>3
<1>17. QED
  BY <1>2, <1>9, <1>12, <1>13, <1>14, <1>15, <1>16 DEF IInv, LastArrived

\* A change that no queue can take is refused, and was none of a lab's.
LEMMA EnqueueFailsIInv ==
    ASSUME IInv, NEW l \in Labs, NEW w \in Changes, EnqueueFails(l, w)
    PROVE  IInv'
<1>0. /\ TypeOK /\ CountIsTrue /\ MapAgrees /\ WorkingHasWork
      /\ AcceptedOnce /\ LastArrived /\ DroppedByDead
  BY DEF IInv
<1>1. /\ New(w) /\ ~Live(l) /\ made' = made /\ queue' = queue /\ arrived' = arrived
      /\ reply' = [reply EXCEPT ![w] = "refused"] /\ queues' = [queues EXCEPT ![l] = None]
      /\ next' = next /\ jobs' = jobs /\ ended' = ended
  BY DEF EnqueueFails, lists
<1>2. /\ reply' \in [Changes -> Replies \cup {None}] /\ reply'[w] = "refused"
      /\ \A v \in Changes \ {w} : reply'[v] = reply[v]
  BY <1>0, <1>1 DEF TypeOK, Replies
<1>3. /\ queues' \in [Labs -> Ids \cup {None}] /\ queues'[l] = None
      /\ \A m \in Labs \ {l} : queues'[m] = queues[m]
  BY <1>0, <1>1 DEF TypeOK
<1>4. TypeOK' /\ CountIsTrue' /\ WorkingHasWork'
  BY <1>0, <1>1, <1>2, <1>3 DEF TypeOK, CountIsTrue, WorkingHasWork, Alive
<1>5. DroppedByDead'
  BY <1>0, <1>1, <1>2 DEF DroppedByDead
<1>6. MapAgrees'
  <2>1. ASSUME NEW p \in Ids, Alive(p) PROVE queue[p].lab \in Labs /\ queues'[queue[p].lab] = p
    <3>1. queue[p].lab \in Labs /\ queues[queue[p].lab] = p
      BY <1>0, <2>1 DEF MapAgrees
    <3>2. queue[p].lab # l
      BY <1>1, <2>1, <3>1, NoneIsNoName DEF Live
    <3>3. QED
      BY <1>3, <3>1, <3>2
  <2>2. \A p \in Ids : p > made => queue[p].thread = "left"
    BY <1>0 DEF MapAgrees
  <2>3. \A m \in Labs : queues'[m] # None => queues'[m] <= made /\ queue[queues'[m]].lab = m
    BY <1>0, <1>3 DEF MapAgrees
  <2>4. QED
    BY <1>1, <2>1, <2>2, <2>3 DEF MapAgrees, Alive
<1>7. AcceptedOnce'
  <2>1. \A v \in Changes : reply'[v] # None => v <= next
    BY <1>0, <1>1, <1>2 DEF AcceptedOnce, New
  <2>2. QED
    BY <1>0, <1>1, <2>1 DEF AcceptedOnce
<1>8. ASSUME NEW m \in Labs PROVE LastArrivedOf(m)'
  <2>1. LastArrivedOf(m)
    BY <1>0 DEF LastArrived
  <2>2. \A i \in 1..Len(arrived[m]) : arrived[m][i] \in Changes /\ arrived[m][i] # w
    <3>1. arrived[m] \in Seq(Changes) /\ DOMAIN arrived[m] = 1..Len(arrived[m])
      BY <1>0 DEF TypeOK
    <3>2. QED
      BY <1>1, <3>1 DEF New, Accepted
  <2>3. \A i \in 1..Len(arrived[m]) : reply'[arrived[m][i]] = reply[arrived[m][i]]
    BY <1>2, <2>2
  <2>4. CASE m = l
    <3>1. ~Live(l)'
      BY <1>3 DEF Live
    <3>2. AllDecided(arrived[l], reply)
      BY <1>1, <2>1, <2>4 DEF LastArrivedOf
    <3>3. QED
      BY <1>1, <2>3, <2>4, <3>1, <3>2, SameAnswers DEF LastArrivedOf
  <2>5. CASE m # l
    <3>1. (Live(m)' <=> Live(m)) /\ queues'[m] = queues[m]
      BY <1>1, <1>3, <2>5 DEF Live, Alive
    <3>2. queue'[queues'[m]] = queue[queues[m]] /\ arrived'[m] = arrived[m]
      BY <1>1, <3>1
    <3>3. QED
      BY <2>1, <2>3, <3>1, <3>2, SameAnswers DEF LastArrivedOf
  <2>6. QED
    BY <2>4, <2>5
<1>9. QED
  BY <1>4, <1>5, <1>6, <1>7, <1>8 DEF IInv, LastArrived

\* Numbers are given and ends recorded apart from the queues.
LEMMA JobListIInv ==
    ASSUME IInv, MakeJob \/ \E w \in Changes : Finish(w)
    PROVE  IInv'
<1>0. /\ TypeOK /\ CountIsTrue /\ MapAgrees /\ WorkingHasWork
      /\ AcceptedOnce /\ LastArrived /\ DroppedByDead
  BY DEF IInv
<1>1. queues' = queues /\ made' = made /\ queue' = queue /\ reply' = reply /\ arrived' = arrived
  BY DEF MakeJob, Finish
<1>2. CountIsTrue' /\ MapAgrees' /\ WorkingHasWork' /\ DroppedByDead' /\ LastArrived'
  BY <1>0, <1>1 DEF CountIsTrue, MapAgrees, WorkingHasWork, DroppedByDead, LastArrived,
     LastArrivedOf, Live, Alive
<1>3. next \in Nat /\ next' \in 0..MaxChanges /\ next <= next'
  BY <1>0, QueuesConstants DEF TypeOK, MakeJob, Finish
<1>4. jobs' \subseteq 1..next' /\ ended' \subseteq 1..next'
  <2>1. CASE MakeJob
    <3>1. jobs' \subseteq jobs \cup {next + 1} /\ ended' = ended /\ next' = next + 1
      BY <2>1 DEF MakeJob
    <3>2. 1..next \subseteq 1..next' /\ next + 1 \in 1..next'
      BY <1>3, <3>1
    <3>3. QED
      BY <1>0, <3>1, <3>2 DEF TypeOK
  <2>2. ASSUME NEW w \in Changes, Finish(w) PROVE jobs' \subseteq 1..next' /\ ended' \subseteq 1..next'
    <3>1. w \in 1..next
      BY <1>0, <1>3, <2>2 DEF AcceptedOnce, Finish, Changes
    <3>2. QED
      BY <1>0, <2>2, <3>1 DEF TypeOK, Finish
  <2>3. QED
    BY <2>1, <2>2
<1>5. TypeOK'
  BY <1>0, <1>1, <1>3, <1>4 DEF TypeOK
<1>6. AcceptedOnce'
  <2>1. \A w \in Changes : w <= next => w <= next'
    BY <1>3 DEF Changes
  <2>2. \A l \in Labs : \A i \in 1..Len(arrived[l]) : arrived[l][i] \in Changes
    BY <1>0 DEF TypeOK
  <2>3. QED
    BY <1>0, <1>1, <2>1, <2>2 DEF AcceptedOnce
<1>7. QED
  BY <1>2, <1>5, <1>6 DEF IInv

\* The invariant is inductive.
LEMMA NextIInv == IInv /\ [Next]_vars => IInv'
<1> SUFFICES ASSUME IInv, [Next]_vars PROVE IInv'
  OBVIOUS
<1>1. CASE Client
  BY <1>1, EnqueueIInv, EnqueueNewIInv, EnqueueFailsIInv DEF Client
<1>2. CASE MakeJob \/ \E w \in Changes : Finish(w)
  BY <1>2, JobListIInv
<1>3. CASE \E q \in Ids : Thread(q)
  BY <1>3, ThreadIInv
<1>4. CASE UNCHANGED vars
  BY <1>4 DEF vars, IInv, TypeOK, CountIsTrue, MapAgrees, WorkingHasWork, AcceptedOnce,
     LastArrived, LastArrivedOf, DroppedByDead, Live, Alive
<1>5. QED
  BY <1>1, <1>2, <1>3, <1>4 DEF Next

\* The queues keep the inductive invariant.
THEOREM QueuesInvariant == Spec => []IInv
BY InitIInv, NextIInv, PTL DEF Spec

\* An accepted change is answered or in the hands of a thread that lives,
\* and only a thread that died dropped any (enqueue, spawn_queue).
THEOREM QueuesLoseNoWork == Spec => []NoWorkLost
<1>1. IInv => NoWorkLost
  <2> SUFFICES ASSUME IInv, NEW w \in Accepted, reply[w] = None
               PROVE  \E q \in Ids : Alive(q) /\ w \in InChannel(q) \cup {queue[q].work}
    BY DEF IInv, NoWorkLost
  <2>1. PICK l \in Labs : \E i \in DOMAIN arrived[l] : arrived[l][i] = w
    BY DEF Accepted
  <2>2. arrived[l] \in Seq(Changes)
    BY DEF IInv, TypeOK
  <2>3. PICK i \in 1..Len(arrived[l]) : arrived[l][i] = w
    BY <2>1, <2>2
  <2>4. LastArrivedOf(l)
    BY DEF IInv, LastArrived
  <2>5. Live(l)
    BY <2>3, <2>4 DEF LastArrivedOf, AllDecided
  <2>6. PICK q \in Ids : q = queues[l] /\ Alive(q)
    BY <2>5 DEF Live, IInv, TypeOK
  <2>7. queue[q].rx \in Seq(Changes) /\ LastAre(arrived[l], queue[q].rx, queue[q].work, reply)
    BY <2>4, <2>5, <2>6 DEF LastArrivedOf, IInv, TypeOK, QueueCells
  <2>8. (\E k \in 1..Len(queue[q].rx) : w = queue[q].rx[k]) \/ w = queue[q].work
    BY <2>2, <2>3, <2>7, UndecidedIsHeld
  <2>9. QED
    BY <2>6, <2>7, <2>8 DEF InChannel
<1>2. QED
  BY <1>1, QueuesInvariant, PTL

\* A lab's changes are decided in the order they were accepted, across the
\* threads that work the lab one after the other.
THEOREM QueuesKeepOrder == Spec => []InOrder
<1>1. IInv => InOrder
  <2> SUFFICES ASSUME IInv, NEW l \in Labs, NEW i \in DOMAIN arrived[l], NEW k \in DOMAIN arrived[l],
                      i < k, reply[arrived[l][k]] # None
               PROVE  reply[arrived[l][i]] # None
    BY DEF InOrder
  <2>1. arrived[l] \in Seq(Changes) /\ LastArrivedOf(l)
    BY DEF IInv, TypeOK, LastArrived
  <2>2. i \in 1..Len(arrived[l]) /\ k \in 1..Len(arrived[l])
    BY <2>1
  <2>3. CASE Live(l)
    <3>1. PICK q \in Ids : q = queues[l]
      BY <2>3 DEF Live, IInv, TypeOK
    <3>2. LastAre(arrived[l], queue[q].rx, queue[q].work, reply) /\ queue[q].rx \in Seq(Changes)
      BY <2>1, <2>3, <3>1 DEF LastArrivedOf, IInv, TypeOK, QueueCells
    <3>3. QED
      BY <2>1, <2>2, <3>2, DecidedInOrder
  <2>4. CASE ~Live(l)
    BY <2>1, <2>2, <2>4 DEF LastArrivedOf, AllDecided
  <2>5. QED
    BY <2>3, <2>4
<1>2. QED
  BY <1>1, QueuesInvariant, PTL

\* What Jobs::job forgets has ended: an operation that has not can be found.
THEOREM QueuesListUnfinished == Spec => UnfinishedIsListed
<1>1. [Next]_vars => [jobs \ jobs' \subseteq ended]_vars
  <2> SUFFICES ASSUME Next PROVE jobs \ jobs' \subseteq ended
    OBVIOUS
  <2>1. CASE MakeJob
    BY <2>1 DEF MakeJob, Surplus, Finished
  <2>2. CASE Client \/ (\E w \in Changes : Finish(w)) \/ \E q \in Ids : Thread(q)
    <3>1. jobs' = jobs
      BY <2>2 DEF Client, Enqueue, EnqueueNew, EnqueueFails, Finish, Thread, ThreadStarts,
         ThreadFails, Receive, Idle, IdleLeave, IdleStay, Answer, Panic, lists
    <3>2. QED
      BY <3>1
  <2>3. QED
    BY <2>1, <2>2 DEF Next
<1>2. QED
  BY <1>1, PTL DEF Spec, UnfinishedIsListed

-----------------------------------------------------------------------------
\* Refinement

\* The thread of q works on lab l.
Works(q, l) == queue[q].lab = l /\ queue[q].thread = "working"

\* One thread at most works a lab.
LEMMA OneWorks ==
    ASSUME IInv, NEW l, NEW p \in Ids, NEW q \in Ids, Works(q, l), Alive(p), queue[p].lab = l
    PROVE  p = q
BY DEF IInv, MapAgrees, Alive, Works

\* Its change is the one that runs.
LEMMA RunsIs ==
    ASSUME NEW l, NEW q \in Ids, Works(q, l), \A p \in Ids : Works(p, l) => p = q
    PROVE  Runs(l) = queue[q].work
<1>1. {p \in Ids : queue[p].lab = l /\ queue[p].thread = "working"} = {q}
  BY DEF Works
<1>2. (CHOOSE p \in {q} : TRUE) = q
  OBVIOUS
<1>3. QED
  BY <1>1, <1>2 DEF Runs

\* The same after the step.
LEMMA RunsIsPrime ==
    ASSUME NEW l, NEW q \in Ids, Works(q, l)', \A p \in Ids : Works(p, l)' => p = q
    PROVE  Runs(l)' = queue'[q].work
<1>1. {p \in Ids : queue'[p].lab = l /\ queue'[p].thread = "working"} = {q}
  BY DEF Works
<1>2. (CHOOSE p \in {q} : TRUE) = q
  OBVIOUS
<1>3. QED
  BY <1>1, <1>2 DEF Runs

\* A lab on which no thread works has no change running.
LEMMA NoneRuns ==
    ASSUME NEW l, \A q \in Ids : ~Works(q, l)
    PROVE  Runs(l) = None
BY DEF Runs, Works

\* The same after the step.
LEMMA NoneRunsPrime ==
    ASSUME NEW l, \A q \in Ids : ~Works(q, l)'
    PROVE  Runs(l)' = None
BY DEF Runs, Works

\* A step that starts and stops no change of the lab is a stutter.
LEMMA SameRuns ==
    ASSUME IInv, NEW l,
           \A p \in Ids : /\ Works(p, l)' <=> Works(p, l)
                          /\ Works(p, l) => queue'[p].work = queue[p].work
    PROVE  Runs(l)' = Runs(l)
<1>1. CASE \E q \in Ids : Works(q, l)
  <2>1. PICK q \in Ids : Works(q, l)
    BY <1>1
  <2>2. \A p \in Ids : Works(p, l) => p = q
    BY <2>1, OneWorks DEF Works, Alive
  <2>3. Runs(l) = queue[q].work
    BY <2>1, <2>2, RunsIs
  <2>4. Runs(l)' = queue'[q].work
    BY <2>1, <2>2, RunsIsPrime
  <2>5. QED
    BY <2>1, <2>3, <2>4
<1>2. CASE \A q \in Ids : ~Works(q, l)
  BY <1>2, NoneRuns, NoneRunsPrime
<1>3. QED
  BY <1>1, <1>2

\* The lab's change starts, with none running, or stops, leaving none.
Starts(l) == \E w \in Changes : Runs(l) = None /\ Runs(l)' = w
Stops(l)  == \E w \in Changes : Runs(l) = w /\ Runs(l)' = None

\* A change starts when its thread receives it.
LEMMA ReceiveMaps ==
    ASSUME IInv, NEW l, NEW q \in Ids, Receive(q)
    PROVE  Runs(l)' = Runs(l) \/ Starts(l)
<1>1. /\ \A p \in Ids \ {q} : queue'[p] = queue[p]
      /\ queue'[q].thread = "working" /\ queue'[q].lab = queue[q].lab
      /\ queue'[q].work = Head(queue[q].rx)
  BY DEF IInv, TypeOK, QueueCells, Receive
<1>2. CASE queue[q].lab = l
  <2>1. \A p \in Ids : ~Works(p, l)
    BY <1>2, OneWorks DEF Receive, Alive, Works
  <2>2. Works(q, l)' /\ \A p \in Ids : Works(p, l)' => p = q
    BY <1>1, <1>2, <2>1 DEF Works
  <2>3. Head(queue[q].rx) \in Changes
    <3>1. queue[q].rx \in Seq(Changes) /\ queue[q].rx # <<>>
      BY DEF IInv, TypeOK, QueueCells, Receive
    <3>2. QED
      BY <3>1
  <2>4. Runs(l) = None /\ Runs(l)' = Head(queue[q].rx)
    BY <1>1, <2>1, <2>2, NoneRuns, RunsIsPrime
  <2>5. QED
    BY <2>3, <2>4 DEF Starts
<1>3. CASE queue[q].lab # l
  <2>1. \A p \in Ids : /\ Works(p, l)' <=> Works(p, l)
                       /\ Works(p, l) => queue'[p].work = queue[p].work
    BY <1>1, <1>3 DEF Works
  <2>2. QED
    BY <2>1, SameRuns
<1>4. QED
  BY <1>2, <1>3

\* A change ends by its answer or by the panic of its thread.
LEMMA EndMaps ==
    ASSUME IInv, NEW l, NEW q \in Ids, Answer(q) \/ Panic(q)
    PROVE  Runs(l)' = Runs(l) \/ Stops(l)
<1>1. /\ \A p \in Ids \ {q} : queue'[p] = queue[p]
      /\ queue'[q].thread # "working" /\ queue'[q].lab = queue[q].lab
  BY DEF IInv, TypeOK, QueueCells, Answer, Panic, ThreadEnds
<1>2. queue[q].thread = "working"
  BY DEF Answer, Panic
<1>3. CASE queue[q].lab = l
  <2>1. Works(q, l) /\ \A p \in Ids : Works(p, l) => p = q
    BY <1>2, <1>3, OneWorks DEF Works, Alive
  <2>2. \A p \in Ids : ~Works(p, l)'
    BY <1>1, <2>1 DEF Works
  <2>3. queue[q].work \in Changes
    BY <1>2 DEF IInv, WorkingHasWork, TypeOK, QueueCells
  <2>4. Runs(l) = queue[q].work /\ Runs(l)' = None
    BY <2>1, <2>2, RunsIs, NoneRunsPrime
  <2>5. QED
    BY <2>3, <2>4 DEF Stops
<1>4. CASE queue[q].lab # l
  <2>1. \A p \in Ids : /\ Works(p, l)' <=> Works(p, l)
                       /\ Works(p, l) => queue'[p].work = queue[p].work
    BY <1>1, <1>4 DEF Works
  <2>2. QED
    BY <2>1, SameRuns
<1>5. QED
  BY <1>3, <1>4

\* Nothing else is seen.
LEMMA OtherMaps ==
    ASSUME IInv, NEW l,
           \/ MakeJob \/ Client \/ (\E w \in Changes : Finish(w)) \/ UNCHANGED vars
           \/ \E q \in Ids : \/ ThreadStarts(q) \/ ThreadFails(q) \/ Idle(q) \/ IdleLeave(q)
                             \/ IdleStay(q)
    PROVE  Runs(l)' = Runs(l)
<1>0. TypeOK /\ MapAgrees
  BY DEF IInv
<1>1. \A p \in Ids : /\ Works(p, l)' <=> Works(p, l)
                     /\ Works(p, l) => queue'[p].work = queue[p].work
  <2>1. CASE queue' = queue
    BY <2>1 DEF Works
  <2>2. ASSUME NEW m \in Labs, NEW w \in Changes, Enqueue(m, w)
        PROVE  \A p \in Ids : /\ queue'[p].thread = queue[p].thread /\ queue'[p].lab = queue[p].lab
                              /\ queue'[p].work = queue[p].work
    BY <1>0, <2>2 DEF TypeOK, QueueCells, Enqueue, Live
  <2>3. ASSUME NEW m \in Labs, NEW w \in Changes, EnqueueNew(m, w)
        PROVE  \A p \in Ids : \/ queue'[p] = queue[p]
                              \/ queue'[p].thread = "starting" /\ queue[p].thread = "left"
    <3>1. PICK q \in Ids : q = made + 1 /\ q > made
      BY <1>0, <2>3, QueuesConstants DEF TypeOK, EnqueueNew, Ids
    <3>2. queue[q].thread = "left"
      BY <1>0, <3>1 DEF MapAgrees
    <3>3. QED
      BY <1>0, <2>3, <3>1, <3>2 DEF TypeOK, EnqueueNew
  <2>4. ASSUME NEW q \in Ids, ThreadStarts(q) \/ ThreadFails(q) \/ Idle(q) \/ IdleLeave(q)
                              \/ IdleStay(q)
        PROVE  \A p \in Ids : \/ queue'[p] = queue[p]
                              \/ queue'[p].thread # "working" /\ queue[p].thread # "working"
    <3>1. CASE ThreadStarts(q) \/ Idle(q) \/ IdleStay(q)
      BY <1>0, <3>1 DEF TypeOK, QueueCells, ThreadStarts, Idle, IdleStay
    <3>2. CASE ThreadFails(q) \/ IdleLeave(q)
      <4>1. PICK how \in {"left", "dead"} :
              queue' = [queue EXCEPT ![q].thread = how, ![q].rx = <<>>, ![q].work = None]
        BY <3>2 DEF ThreadFails, IdleLeave, ThreadEnds
      <4>2. /\ queue[q].thread # "working" /\ queue'[q].thread = how
            /\ \A p \in Ids \ {q} : queue'[p] = queue[p]
        BY <1>0, <3>2, <4>1 DEF TypeOK, QueueCells, ThreadFails, IdleLeave
      <4>3. QED
        BY <4>2
    <3>3. QED
      BY <2>4, <3>1, <3>2
  <2>5. CASE Client
    BY <2>1, <2>2, <2>3, <2>5 DEF Client, EnqueueFails, Works
  <2>6. CASE MakeJob \/ (\E w \in Changes : Finish(w)) \/ UNCHANGED vars
    BY <2>1, <2>6 DEF MakeJob, Finish, vars
  <2>7. CASE \E q \in Ids : \/ ThreadStarts(q) \/ ThreadFails(q) \/ Idle(q) \/ IdleLeave(q)
                            \/ IdleStay(q)
    BY <2>4, <2>7 DEF Works
  <2>8. QED
    BY <2>5, <2>6, <2>7
<1>2. QED
  BY <1>1, SameRuns

\* A lab's queue implements the mutex: a change of the lab runs only when
\* none does, whichever thread runs it, and stops before the next.
THEOREM QueuesImplementMutex == Spec => ImplementsMutex
<1>1. Init => Serial!Init
  BY NoneRuns DEF Init, NoQueue, Works, Serial!Init
<1>2. IInv /\ [Next]_vars => [Serial!Next]_(Runs(AnyLab))
  <2> SUFFICES ASSUME IInv, [Next]_vars PROVE [Serial!Next]_(Runs(AnyLab))
    OBVIOUS
  <2>1. Runs(AnyLab)' = Runs(AnyLab) \/ Starts(AnyLab) \/ Stops(AnyLab)
    BY ReceiveMaps, EndMaps, OtherMaps DEF Next, Thread
  <2>2. QED
    BY <2>1 DEF Starts, Stops, Serial!Next, Serial!Acquire, Serial!Release
<1>3. QED
  BY <1>1, <1>2, QueuesInvariant, PTL DEF Spec, ImplementsMutex, Serial!Spec
=============================================================================
