----------------------------- MODULE Jobs_proofs -----------------------------
(***************************************************************************)
(* Jobs for any number of calls, events and messages and any channel and   *)
(* log size: the inductive invariant IInv, what a follower is told at the  *)
(* job's end, who cancels it, and the refinement of OpStream.              *)
(***************************************************************************)
EXTENDS Jobs, TLAPS

\* The states and results the actions name.
LEMMA Words ==
    /\ "queued" \in States /\ "running" \in States /\ Outcomes \subseteq States
    /\ "succeeded" \in States /\ "failed" \in States /\ "cancelled" \in States
    /\ "ok" \in Results /\ "failed" \in Results /\ "cancelled" \in Results
BY DEF States, Outcomes, Results

\* Before the first call there is nothing to keep.
LEMMA InitIInv == Init => IInv
BY JobsConstants DEF Init, IInv, Types, ReplyThenResult, OneMaker, Cursors, EndsWithJob,
    LeavesOfOthers, JobCells, CallTasks, NoJob, NoCall, Following, Running, States, Results, Outcomes

\* A call that ends leaves the invariant: it took nothing from the job, and
\* if it ended with the result the job was done.
LEMMA GoneKeeps ==
    ASSUME IInv, NEW c \in Calls, NEW how \in {"whole", "left"},
           NEW r \in Results \cup {None}, call' = Gone(c, how, r), UNCHANGED <<job, messages>>,
           how = "whole" => job.ended = "done" /\ r = job.result
    PROVE  IInv'
<1> DEFINE end == [NoCall EXCEPT !.pc = "gone", !.at = call[c].at, !.said = call[c].said,
                                 !.end = how, !.result = r]
<1>0. Types /\ ReplyThenResult /\ OneMaker /\ Cursors /\ EndsWithJob /\ LeavesOfOthers
  BY DEF IInv
<1>1. call' = [call EXCEPT ![c] = end]
  BY DEF Gone
<1>2. end \in CallTasks
  BY <1>0 DEF Types, CallTasks, NoCall
<1>3. /\ end.pc = "gone" /\ end.kind = "attach" /\ end.log = 0 /\ end.rx = 0
      /\ end.at = call[c].at /\ end.cancel = "no" /\ end.end = how /\ end.result = r
  BY DEF NoCall
<1> HIDE DEF end
<1>4. /\ call'[c] = end
      /\ \A d \in Calls \ {c} : call'[d] = call[d]
  BY <1>0, <1>1 DEF Types
<1>5. Types'
  BY <1>0, <1>1, <1>2 DEF Types
<1>6. ReplyThenResult' /\ OneMaker'
  BY <1>0, <1>3, <1>4 DEF ReplyThenResult, OneMaker, Running
<1>7. Cursors'
  BY <1>0, <1>3, <1>4 DEF Cursors
<1>8. EndsWithJob'
  BY <1>0, <1>3, <1>4 DEF EndsWithJob
<1>9. LeavesOfOthers'
  BY <1>0, <1>3, <1>4 DEF LeavesOfOthers, Running
<1>10. QED
  BY <1>5, <1>6, <1>7, <1>8, <1>9 DEF IInv

\* What enqueue leaves of the job: it waits, or it has the error of a queue
\* that could not start; either way it may have said that it is queued.
LEMMA EnqueueTells ==
    ASSUME IInv, NEW c \in Calls, Enqueue(c)
    PROVE  \E e \in Nat, s \in States, w \in {"queued", "done"}, r \in {"failed", None} :
             /\ e >= job.events /\ (r # None => w = "done")
             /\ job' = [job EXCEPT !.events = e, !.state = s, !.work = w, !.reply = r]
<1>1. job \in JobCells /\ job.reply = None /\ job.events \in Nat /\ job.state \in States
  BY JobsConstants DEF IInv, Types, JobCells, ReplyThenResult, OneMaker, Enqueue
<1>2. PICK told \in {job, QueuedEvent} :
        \/ job' = [told EXCEPT !.work = "queued"]
        \/ job' = [told EXCEPT !.work = "done", !.reply = "failed"]
  BY DEF Enqueue
<1>3. PICK e \in Nat, s \in States :
        told = [job EXCEPT !.events = e, !.state = s] /\ e >= job.events
  <2>1. CASE told = job
    <3>1. job = [job EXCEPT !.events = job.events, !.state = job.state]
      BY <1>1 DEF JobCells
    <3>2. job.events >= job.events
      BY <1>1
    <3>3. QED
      BY <1>1, <2>1, <3>1, <3>2
  <2>2. CASE told = QueuedEvent
    <3>1. PICK n \in Nat : n = job.events + 1 /\ n >= job.events
      BY <1>1
    <3>2. told = [job EXCEPT !.events = n, !.state = "queued"]
      BY <2>2, <3>1 DEF QueuedEvent
    <3>3. QED
      BY <3>1, <3>2, Words
  <2>3. QED
    BY <1>2, <2>1, <2>2
<1>4. CASE job' = [told EXCEPT !.work = "queued"]
  <2>1. job' = [job EXCEPT !.events = e, !.state = s, !.work = "queued", !.reply = None]
    BY <1>1, <1>3, <1>4 DEF JobCells
  <2>2. QED
    BY <1>3, <2>1
<1>5. CASE job' = [told EXCEPT !.work = "done", !.reply = "failed"]
  <2>1. job' = [job EXCEPT !.events = e, !.state = s, !.work = "done", !.reply = "failed"]
    BY <1>1, <1>3, <1>5 DEF JobCells
  <2>2. QED
    BY <1>3, <2>1
<1>6. QED
  BY <1>2, <1>4, <1>5

\* A step of one call, its client's or its follower's, preserves the invariant.
LEMMA CallStepIInv ==
    ASSUME IInv, NEW c \in Calls, Client(c) \/ Follow(c)
    PROVE  IInv'
<1> USE JobsConstants
<1>0. IInv /\ Types /\ ReplyThenResult /\ OneMaker /\ Cursors /\ EndsWithJob /\ LeavesOfOthers
  BY DEF IInv
<1>1. CASE TargetFails(c)
  BY <1>0, <1>1, Words, GoneKeeps DEF TargetFails
<1>2. CASE Make(c)
  <2>1. PICK k \in {"operation", "change"} :
          /\ job' = [job EXCEPT !.work = "made", !.listed = (k = "operation")]
          /\ call' = [call EXCEPT ![c].pc = "made", ![c].kind = k]
    BY <1>2 DEF Make
  <2>2. call[c].pc = "idle" /\ job = NoJob /\ messages' = messages /\ \A d \in Calls : ~Running(d)
    BY <1>0, <1>2 DEF Make, OneMaker
  <2>3. Types'
    <3>1. [call[c] EXCEPT !.pc = "made", !.kind = k] \in CallTasks
      BY <1>0, ZenonT(60) DEF Types, CallTasks
    <3>2. (k = "operation") \in BOOLEAN
      OBVIOUS
    <3>3. job' \in JobCells
      BY <1>0, <2>1, <3>2, ZenonT(60) DEF Types, JobCells
    <3>4. QED
      BY <1>0, <2>1, <2>2, <3>1, <3>3 DEF Types
  <2>4. /\ \A d \in Calls \ {c} : call'[d] = call[d]
        /\ call'[c].pc = "made" /\ call'[c].kind = k /\ call'[c].at = call[c].at
        /\ call'[c].log = call[c].log /\ call'[c].rx = call[c].rx /\ call'[c].end = call[c].end
        /\ call'[c].cancel = call[c].cancel
    BY <1>0, <2>1 DEF Types, CallTasks
  <2>5. /\ job'.work = "made" /\ (job'.listed <=> k = "operation") /\ job'.reply = None
        /\ job'.result = None /\ job'.ended = "no" /\ job'.events = job.events /\ ~job'.cancel
    BY <2>1, <2>2 DEF NoJob
  <2>6. ReplyThenResult'
    BY <2>5 DEF ReplyThenResult
  <2>7. OneMaker'
    BY <2>2, <2>4, <2>5 DEF OneMaker, Running
  <2>8. Cursors'
    BY <1>0, <2>2, <2>4, <2>5 DEF Cursors
  <2>9. EndsWithJob'
    BY <1>0, <2>2, <2>4, <2>5 DEF EndsWithJob, NoJob
  <2>10. LeavesOfOthers'
    BY <1>0, <2>2, <2>4, <2>5 DEF LeavesOfOthers, Running
  <2>11. QED
    BY <2>3, <2>6, <2>7, <2>8, <2>9, <2>10 DEF IInv
<1>3. CASE Enqueue(c)
  <2>1. PICK e \in Nat, s \in States, w \in {"queued", "done"}, r \in {"failed", None} :
          /\ e >= job.events /\ (r # None => w = "done")
          /\ job' = [job EXCEPT !.events = e, !.state = s, !.work = w, !.reply = r]
    BY <1>3, EnqueueTells
  <2>2. call[c].pc = "made" /\ call' = [call EXCEPT ![c].pc = "queued"] /\ messages' = messages
    BY <1>3 DEF Enqueue
  <2>3. Types'
    <3>1. job' = [job EXCEPT !.events = e, !.state = s, !.work = w, !.reply = r]
      BY <2>1
    <3>2. job' \in JobCells
      BY <1>0, <3>1, Words DEF Types, JobCells
    <3>3. call' \in [Calls -> CallTasks]
      BY <1>0, <2>2 DEF Types, CallTasks
    <3>4. QED
      BY <1>0, <2>2, <3>2, <3>3 DEF Types
  <2>4. ReplyThenResult' /\ LeavesOfOthers'
    BY <1>0, <2>1, <2>2 DEF Types, JobCells, CallTasks, ReplyThenResult, OneMaker, LeavesOfOthers, Running
  <2>5. OneMaker' /\ EndsWithJob'
    BY <1>0, <2>1, <2>2 DEF Types, JobCells, CallTasks, ReplyThenResult, OneMaker, EndsWithJob, Running
  <2>6. Cursors'
    BY <1>0, <2>1, <2>2 DEF Types, JobCells, CallTasks, Cursors
  <2>7. QED
    BY <2>3, <2>4, <2>5, <2>6 DEF IInv
<1>4. CASE Attach(c)
  <2>1. CASE call' = Gone(c, "left", "failed")
    BY <1>0, <1>4, <2>1, Words, GoneKeeps DEF Attach
  <2>2. CASE job.listed /\ call' = [call EXCEPT ![c].pc = "queued"]
    BY <1>0, <1>4, <2>2 DEF IInv, Types, ReplyThenResult, OneMaker, Cursors, EndsWithJob,
       LeavesOfOthers, CallTasks, Running, Attach
  <2>3. QED
    BY <1>4, <2>1, <2>2 DEF Attach
<1>5. CASE CancelCall(c)
  BY <1>0, <1>5 DEF IInv, Types, ReplyThenResult, OneMaker, Cursors, EndsWithJob,
     LeavesOfOthers, JobCells, CallTasks, Following, Running, States, Results, Outcomes,
     CancelCall, Message
<1>6. CASE Leave(c)
  <2>1. call' \in [Calls -> CallTasks] /\ messages' \in Nat
    <3>1. messages' \in Nat
      BY <1>0, <1>6 DEF Types, Leave, Message
    <3>2. CASE call' = [call EXCEPT ![c].detached = TRUE]
      <4>1. [call[c] EXCEPT !.detached = TRUE] \in CallTasks
        BY <1>0, ZenonT(60) DEF Types, CallTasks
      <4>2. QED
        BY <1>0, <3>1, <3>2, <4>1 DEF Types
    <3>3. CASE call' = [call EXCEPT ![c].cancel = "left"]
      BY <1>0, <3>1, <3>3 DEF Types, CallTasks
    <3>4. QED
      BY <1>6, <3>2, <3>3 DEF Leave
  <2>2. Types'
    BY <1>0, <1>6, <2>1 DEF Types, Leave, Message, OnDisconnect
  <2>3. ReplyThenResult'
    BY <1>0, <1>6 DEF ReplyThenResult, Types, JobCells, CallTasks, Following, States,
       Results, Outcomes, Leave, Message, OnDisconnect
  <2>4. OneMaker'
    BY <1>0, <1>6 DEF OneMaker, Types, JobCells, CallTasks, Following, States,
       Results, Outcomes, Running, NoJob, Leave, Message, OnDisconnect
  <2>5. Cursors'
    BY <1>0, <1>6 DEF Cursors, Types, JobCells, CallTasks, Following, States,
       Results, Outcomes, Leave, Message, OnDisconnect
  <2>6. EndsWithJob'
    BY <1>0, <1>6 DEF EndsWithJob, Types, JobCells, CallTasks, Following, States,
       Results, Outcomes, Leave, Message, OnDisconnect
  <2>7. LeavesOfOthers'
    BY <1>0, <1>6 DEF LeavesOfOthers, Types, JobCells, CallTasks, Following, States,
       Results, Outcomes, Running, Leave, Message, OnDisconnect
  <2>8. QED
    BY <2>2, <2>3, <2>4, <2>5, <2>6, <2>7 DEF IInv
<1>7. CASE Subscribe(c)
  <2>1. call' \in [Calls -> CallTasks]
    <3>1. PICK n \in Nat, l \in Nat : call' = [call EXCEPT ![c].pc = "log", ![c].rx = n, ![c].log = l]
      BY <1>0, <1>7 DEF Types, JobCells, Subscribe
    <3>2. [call[c] EXCEPT !.pc = "log", !.rx = n, !.log = l] \in CallTasks
      BY <1>0, ZenonT(60) DEF Types, CallTasks, Following
    <3>3. QED
      BY <1>0, <3>1, <3>2 DEF Types
  <2>2. Types'
    BY <1>0, <1>7, <2>1 DEF Types, Subscribe
  <2>3. ReplyThenResult'
    BY <1>0, <1>7 DEF ReplyThenResult, Types, JobCells, CallTasks, Following, States,
       Results, Outcomes, Subscribe
  <2>4. OneMaker'
    BY <1>0, <1>7 DEF OneMaker, Types, JobCells, CallTasks, Following, States,
       Results, Outcomes, Running, NoJob, Subscribe
  <2>5. Cursors'
    BY <1>0, <1>7 DEF Cursors, Types, JobCells, CallTasks, Following, States,
       Results, Outcomes, Subscribe
  <2>6. EndsWithJob'
    BY <1>0, <1>7 DEF EndsWithJob, Types, JobCells, CallTasks, Following, States,
       Results, Outcomes, Subscribe
  <2>7. LeavesOfOthers'
    BY <1>0, <1>7 DEF LeavesOfOthers, Types, JobCells, CallTasks, Following, States,
       Results, Outcomes, Running, Subscribe
  <2>8. QED
    BY <2>2, <2>3, <2>4, <2>5, <2>6, <2>7 DEF IInv
<1>8. CASE ReplayLog(c)
  BY <1>0, <1>8 DEF IInv, Types, ReplyThenResult, OneMaker, Cursors, EndsWithJob,
     LeavesOfOthers, JobCells, CallTasks, Following, Running, States, Results, Outcomes,
     ReplayLog
<1>9. CASE GoLive(c)
  <2>1. call' \in [Calls -> CallTasks]
    <3>1. [call[c] EXCEPT !.pc = "poll", !.at = call[c].rx, !.log = 0, !.rx = 0] \in CallTasks
      BY <1>0, ZenonT(60) DEF Types, CallTasks, Following
    <3>2. QED
      BY <1>0, <1>9, <3>1 DEF Types, GoLive
  <2>2. Types'
    BY <1>0, <1>9, <2>1 DEF Types, GoLive
  <2>3. ReplyThenResult'
    BY <1>0, <1>9 DEF ReplyThenResult, Types, JobCells, CallTasks, Following, States,
       Results, Outcomes, GoLive
  <2>4. OneMaker'
    BY <1>0, <1>9 DEF OneMaker, Types, JobCells, CallTasks, Following, States,
       Results, Outcomes, Running, NoJob, GoLive
  <2>5. Cursors'
    BY <1>0, <1>9 DEF Cursors, Types, JobCells, CallTasks, Following, States,
       Results, Outcomes, GoLive
  <2>6. EndsWithJob'
    BY <1>0, <1>9 DEF EndsWithJob, Types, JobCells, CallTasks, Following, States,
       Results, Outcomes, GoLive
  <2>7. LeavesOfOthers'
    BY <1>0, <1>9 DEF LeavesOfOthers, Types, JobCells, CallTasks, Following, States,
       Results, Outcomes, Running, GoLive
  <2>8. QED
    BY <2>2, <2>3, <2>4, <2>5, <2>6, <2>7 DEF IInv
<1>10. CASE TakeEvent(c)
  BY <1>0, <1>10 DEF IInv, Types, ReplyThenResult, OneMaker, Cursors, EndsWithJob,
     LeavesOfOthers, JobCells, CallTasks, Following, Running, States, Results, Outcomes,
     TakeEvent, Unread
<1>11. CASE Lagged(c)
  <2>1. PICK a \in Nat, b \in Nat : call' = [call EXCEPT ![c].at = a, ![c].said = b] /\ a <= job.events
    <3>1. /\ call[c].at \in Nat /\ call[c].said \in Nat /\ job.events \in Nat /\ Cap \in Nat
          /\ job.events - call[c].at > Cap
      BY <1>0, <1>11 DEF Types, CallTasks, JobCells, Lagged, Unread
    <3>2. /\ call[c].at + ((job.events - call[c].at) - Cap) \in Nat
          /\ call[c].said + ((job.events - call[c].at) - Cap) \in Nat
          /\ call[c].at + ((job.events - call[c].at) - Cap) <= job.events
      BY <3>1
    <3>3. QED
      BY <1>11, <3>2 DEF Lagged, Unread
  <2>2. job' = job /\ messages' = messages /\ call[c].pc = "poll"
    BY <1>11 DEF Lagged
  <2>3. Types'
    <3>1. [call[c] EXCEPT !.at = a, !.said = b] \in CallTasks
      BY <1>0, ZenonT(60) DEF Types, CallTasks
    <3>2. QED
      BY <1>0, <2>1, <2>2, <3>1 DEF Types
  <2>4. /\ \A d \in Calls \ {c} : call'[d] = call[d]
        /\ call'[c].at = a /\ call'[c].pc = call[c].pc /\ call'[c].log = call[c].log
        /\ call'[c].rx = call[c].rx /\ call'[c].end = call[c].end /\ call'[c].kind = call[c].kind
        /\ call'[c].cancel = call[c].cancel /\ call'[c].result = call[c].result
    BY <1>0, <2>1 DEF Types, CallTasks
  <2>5. ReplyThenResult'
    BY <1>0, <2>2 DEF ReplyThenResult
  <2>6. OneMaker' /\ LeavesOfOthers'
    BY <1>0, <2>2, <2>4 DEF OneMaker, LeavesOfOthers, Running, NoJob
  <2>7. Cursors'
    <3>1. SUFFICES ASSUME NEW d \in Calls
                   PROVE  /\ call'[d].at <= job.events
                          /\ IF call'[d].pc = "log"
                               THEN /\ call'[d].at <= call'[d].log /\ call'[d].rx <= job.events
                                    /\ call'[d].log = IF call'[d].rx < Replay THEN call'[d].rx ELSE Replay
                               ELSE call'[d].log = 0 /\ call'[d].rx = 0
                          /\ call'[d].pc \in {"idle", "made", "queued"} => call'[d].at = 0
      BY <2>2 DEF Cursors
    <3>2. CASE d = c
      BY <1>0, <2>1, <2>2, <2>4, <3>2 DEF Cursors
    <3>3. CASE d # c
      BY <1>0, <2>4, <3>3 DEF Cursors
    <3>4. QED
      BY <3>2, <3>3
  <2>8. EndsWithJob'
    BY <1>0, <2>2, <2>4 DEF EndsWithJob
  <2>9. QED
    BY <2>3, <2>5, <2>6, <2>7, <2>8 DEF IInv
<1>12. CASE NoEvent(c)
  BY <1>0, <1>12 DEF IInv, Types, ReplyThenResult, OneMaker, Cursors, EndsWithJob,
     LeavesOfOthers, JobCells, CallTasks, Following, Running, States, Results, Outcomes,
     NoEvent
<1>13. CASE SeeDone(c)
  BY <1>0, <1>13 DEF IInv, Types, ReplyThenResult, OneMaker, Cursors, EndsWithJob,
     LeavesOfOthers, JobCells, CallTasks, Following, Running, States, Results, Outcomes,
     SeeDone
<1>14. CASE SeeDetached(c)
  BY <1>0, <1>14, GoneKeeps DEF SeeDetached, Waits
<1>15. CASE SeeCancelled(c)
  <2>0. call' = [call EXCEPT ![c].pc = "poll", ![c].cancelling = TRUE] /\ messages' = messages
    BY <1>15 DEF SeeCancelled
  <2>1. call[c].pc = "polled" /\ call[c].cancel # "no"
    BY <1>15 DEF SeeCancelled, Waits
  <2>2. PICK who \in {"client", "operation", "change", "attach"} :
          /\ job' = IF job.cancel THEN job ELSE [job EXCEPT !.cancel = TRUE, !.by = who]
          /\ who = IF call[c].cancel = "asked" THEN "client" ELSE call[c].kind
    BY <1>0, <1>15 DEF SeeCancelled, Cancelled, Types, CallTasks
  <2>3. Types'
    <3>1. [call[c] EXCEPT !.pc = "poll", !.cancelling = TRUE] \in CallTasks
      BY <1>0, ZenonT(60) DEF Types, CallTasks, Following
    <3>2. [job EXCEPT !.cancel = TRUE, !.by = who] \in JobCells
      BY <1>0, ZenonT(60) DEF Types, JobCells
    <3>3. QED
      BY <1>0, <2>0, <2>2, <3>1, <3>2 DEF Types
  <2>4. /\ \A d \in Calls \ {c} : call'[d] = call[d]
        /\ call'[c].pc = "poll" /\ call'[c].kind = call[c].kind /\ call'[c].at = call[c].at
        /\ call'[c].log = call[c].log /\ call'[c].rx = call[c].rx /\ call'[c].end = call[c].end
        /\ call'[c].cancel = call[c].cancel /\ call'[c].result = call[c].result
    BY <1>0, <2>0 DEF Types, CallTasks
  <2>5. /\ job'.work = job.work /\ job'.listed = job.listed /\ job'.reply = job.reply
        /\ job'.result = job.result /\ job'.ended = job.ended /\ job'.events = job.events
        /\ job.cancel => job'.by = job.by
        /\ ~job.cancel => job'.by = who
    <3>1. CASE job.cancel
      BY <2>2, <3>1
    <3>2. CASE ~job.cancel
      BY <1>0, <2>2, <3>2 DEF Types, JobCells
    <3>3. QED
      BY <3>1, <3>2
  <2>6. ReplyThenResult'
    BY <1>0, <2>5 DEF ReplyThenResult
  <2>7. OneMaker'
    <3>1. job.work # "none"
      BY <1>0, <2>1 DEF OneMaker, Running
    <3>2. QED
      BY <1>0, <2>1, <2>4, <2>5, <3>1 DEF OneMaker
  <2>8. Cursors'
    BY <1>0, <2>1, <2>4, <2>5 DEF Cursors
  <2>9. EndsWithJob'
    BY <1>0, <2>1, <2>4, <2>5 DEF EndsWithJob
  <2>10. LeavesOfOthers'
    <3>1. job'.listed => who \in {"client", "attach"}
      BY <1>0, <2>1, <2>2, <2>5 DEF LeavesOfOthers, Types, CallTasks
    <3>2. QED
      BY <1>0, <2>1, <2>4, <2>5, <3>1 DEF LeavesOfOthers, Running
  <2>11. QED
    BY <2>3, <2>6, <2>7, <2>8, <2>9, <2>10 DEF IInv
<1>16. CASE Wake(c)
  BY <1>0, <1>16 DEF IInv, Types, ReplyThenResult, OneMaker, Cursors, EndsWithJob,
     LeavesOfOthers, JobCells, CallTasks, Following, Running, States, Results, Outcomes,
     Wake, Waits
<1>17. CASE Drain(c)
  BY <1>0, <1>17 DEF IInv, Types, ReplyThenResult, OneMaker, Cursors, EndsWithJob,
     LeavesOfOthers, JobCells, CallTasks, Following, Running, States, Results, Outcomes,
     Drain, Unread
<1>18. CASE Return(c)
  <2>1. job.result \in Results \cup {None} /\ job.ended = "done" /\ call[c].pc = "drain"
    BY <1>0, <1>18 DEF Types, JobCells, EndsWithJob, Return
  <2>2. QED
    BY <1>0, <1>18, <2>1, GoneKeeps DEF Return
<1>19. QED
  BY <1>1, <1>2, <1>3, <1>4, <1>5, <1>6, <1>7, <1>8, <1>9, <1>10, <1>11, <1>12, <1>13, <1>14, <1>15, <1>16, <1>17, <1>18 DEF Client, Follow

\* So does a step of the lab's queue, of the finisher or a cancel_op.
LEMMA JobStepIInv ==
    ASSUME IInv, Work \/ Finisher \/ CancelOp
    PROVE  IInv'
<1> USE JobsConstants
<1>0. IInv /\ Types /\ ReplyThenResult /\ OneMaker /\ Cursors /\ EndsWithJob /\ LeavesOfOthers
  BY DEF IInv
<1>1. CASE Receive
  BY <1>0, <1>1 DEF IInv, Types, ReplyThenResult, OneMaker, Cursors, EndsWithJob,
     LeavesOfOthers, JobCells, CallTasks, Following, Running, States, Results, Outcomes,
     Receive
<1>2. CASE QueueDies
  <2>1. Types'
    BY <1>0, <1>2 DEF Types, JobCells, QueueDies
  <2>2. ReplyThenResult' /\ OneMaker'
    BY <1>0, <1>2 DEF Types, JobCells, ReplyThenResult, OneMaker, Running, QueueDies
  <2>3. Cursors' /\ EndsWithJob' /\ LeavesOfOthers'
    BY <1>0, <1>2 DEF Types, JobCells, Cursors, EndsWithJob, LeavesOfOthers, Running, QueueDies
  <2>4. QED
    BY <2>1, <2>2, <2>3 DEF IInv
<1>3. CASE OpStarts
  <2>1. job' \in JobCells
    <3>1. PICK n \in Nat : n = job.events + 1
      BY <1>0 DEF Types, JobCells
    <3>2. job' = [job EXCEPT !.events = n, !.state = "running", !.phase = "started"]
      BY <1>3, <3>1 DEF OpStarts, StartedEvent
    <3>3. QED
      BY <1>0, <3>2, Words DEF Types, JobCells
  <2>2. Types'
    BY <1>0, <1>3, <2>1 DEF Types, OpStarts, StartedEvent
  <2>3. ReplyThenResult'
    BY <1>0, <1>3 DEF ReplyThenResult, Types, JobCells, CallTasks, Following, States,
       Results, Outcomes, OpStarts, StartedEvent
  <2>4. OneMaker'
    BY <1>0, <1>3 DEF OneMaker, Types, JobCells, CallTasks, Following, States,
       Results, Outcomes, Running, NoJob, OpStarts, StartedEvent
  <2>5. Cursors'
    BY <1>0, <1>3 DEF Cursors, Types, JobCells, CallTasks, Following, States,
       Results, Outcomes, OpStarts, StartedEvent
  <2>6. EndsWithJob'
    BY <1>0, <1>3 DEF EndsWithJob, Types, JobCells, CallTasks, Following, States,
       Results, Outcomes, OpStarts, StartedEvent
  <2>7. LeavesOfOthers'
    BY <1>0, <1>3 DEF LeavesOfOthers, Types, JobCells, CallTasks, Following, States,
       Results, Outcomes, Running, OpStarts, StartedEvent
  <2>8. QED
    BY <2>2, <2>3, <2>4, <2>5, <2>6, <2>7 DEF IInv
<1>4. CASE OpReports
  BY <1>0, <1>4 DEF IInv, Types, ReplyThenResult, OneMaker, Cursors, EndsWithJob,
     LeavesOfOthers, JobCells, CallTasks, Following, Running, States, Results, Outcomes,
     OpReports
<1>5. CASE OpFinishes
  <2>1. job' \in JobCells
    <3>1. PICK n \in Nat : n = job.events + 1
      BY <1>0 DEF Types, JobCells
    <3>2. PICK o \in Outcomes : job' = [job EXCEPT !.events = n, !.outcome = o, !.phase = "finished"]
      BY <1>5, <3>1 DEF OpFinishes, FinishedEvent
    <3>3. QED
      BY <1>0, <3>2 DEF Types, JobCells
  <2>2. Types'
    BY <1>0, <1>5, <2>1 DEF Types, OpFinishes, FinishedEvent
  <2>3. ReplyThenResult'
    BY <1>0, <1>5 DEF ReplyThenResult, Types, JobCells, CallTasks, Following, States,
       Results, Outcomes, OpFinishes, FinishedEvent
  <2>4. OneMaker'
    BY <1>0, <1>5 DEF OneMaker, Types, JobCells, CallTasks, Following, States,
       Results, Outcomes, Running, NoJob, OpFinishes, FinishedEvent
  <2>5. Cursors'
    BY <1>0, <1>5 DEF Cursors, Types, JobCells, CallTasks, Following, States,
       Results, Outcomes, OpFinishes, FinishedEvent
  <2>6. EndsWithJob'
    BY <1>0, <1>5 DEF EndsWithJob, Types, JobCells, CallTasks, Following, States,
       Results, Outcomes, OpFinishes, FinishedEvent
  <2>7. LeavesOfOthers'
    BY <1>0, <1>5 DEF LeavesOfOthers, Types, JobCells, CallTasks, Following, States,
       Results, Outcomes, Running, OpFinishes, FinishedEvent
  <2>8. QED
    BY <2>2, <2>3, <2>4, <2>5, <2>6, <2>7 DEF IInv
<1>6. CASE OpReturns
  <2>0. PICK r \in Returns : job' = [job EXCEPT !.work = "done", !.reply = r]
    BY <1>6 DEF OpReturns
  <2>a. r \in Results
    BY Words DEF Returns
  <2>1. job' \in JobCells
    BY <1>0, <2>0, <2>a DEF Types, JobCells
  <2>2. Types'
    BY <1>0, <1>6, <2>1 DEF Types, OpReturns
  <2>3. ReplyThenResult'
    BY <1>0, <1>6, <2>0, <2>a DEF ReplyThenResult, Types, JobCells, CallTasks, Following, States,
       Results, Outcomes, OpReturns
  <2>4. OneMaker'
    BY <1>0, <1>6, <2>0, <2>a DEF OneMaker, Types, JobCells, CallTasks, Following, States,
       Results, Outcomes, Running, NoJob, OpReturns
  <2>5. Cursors'
    BY <1>0, <1>6, <2>0, <2>a DEF Cursors, Types, JobCells, CallTasks, Following, States,
       Results, Outcomes, OpReturns
  <2>6. EndsWithJob'
    BY <1>0, <1>6, <2>0, <2>a DEF EndsWithJob, Types, JobCells, CallTasks, Following, States,
       Results, Outcomes, OpReturns
  <2>7. LeavesOfOthers'
    BY <1>0, <1>6, <2>0, <2>a DEF LeavesOfOthers, Types, JobCells, CallTasks, Following, States,
       Results, Outcomes, Running, OpReturns
  <2>8. QED
    BY <2>2, <2>3, <2>4, <2>5, <2>6, <2>7 DEF IInv
<1>7. CASE Store
  <2>0. PICK s \in States, r \in Results :
          job' = [job EXCEPT !.state = s, !.reply = None, !.ended = "stored", !.result = r]
    <3>1. FinalState \in States
      BY <1>0, Words DEF Types, JobCells, FinalState
    <3>2. (IF job.reply = "dropped" THEN "failed" ELSE job.reply) \in Results
      BY <1>0, <1>7, Words DEF Types, JobCells, Store
    <3>3. QED
      BY <1>7, <3>1, <3>2 DEF Store
  <2>a. None \notin Results /\ UNCHANGED <<call, messages>> /\ job.reply # None
    BY <1>7 DEF Results, Store
  <2>1. job' \in JobCells
    BY <1>0, <2>0 DEF Types, JobCells
  <2>2. Types'
    BY <1>0, <1>7, <2>1 DEF Types, Store
  <2>3. ReplyThenResult'
    BY <1>0, <1>7, <2>0, <2>a DEF ReplyThenResult, Types, JobCells, CallTasks, Following, 
       Outcomes
  <2>4. OneMaker'
    BY <1>0, <1>7, <2>0, <2>a DEF OneMaker, Types, JobCells, CallTasks, Following, 
       Outcomes, Running, NoJob
  <2>5. Cursors'
    BY <1>0, <1>7, <2>0, <2>a DEF Cursors, Types, JobCells, CallTasks, Following, 
       Outcomes
  <2>6. EndsWithJob'
    BY <1>0, <1>7, <2>0, <2>a DEF EndsWithJob, ReplyThenResult, Types, JobCells, CallTasks, Following, 
       Outcomes
  <2>7. LeavesOfOthers'
    BY <1>0, <1>7, <2>0, <2>a DEF LeavesOfOthers, Types, JobCells, CallTasks, Following, 
       Outcomes, Running
  <2>8. QED
    BY <2>2, <2>3, <2>4, <2>5, <2>6, <2>7 DEF IInv
<1>8. CASE Done
  BY <1>0, <1>8 DEF IInv, Types, ReplyThenResult, OneMaker, Cursors, EndsWithJob,
     LeavesOfOthers, JobCells, CallTasks, Following, Running, States, Results, Outcomes,
     Done
<1>9. CASE CancelOp
  <2>1. job' \in JobCells /\ messages' \in Nat
    <3>1. messages' \in Nat
      BY <1>0, <1>9 DEF Types, CancelOp, Message
    <3>2. job' = Cancelled("client")
      BY <1>9 DEF CancelOp
    <3>3. QED
      BY <1>0, <3>1, <3>2, ZenonT(60) DEF Types, JobCells, Cancelled
  <2>2. Types'
    BY <1>0, <1>9, <2>1 DEF Types, CancelOp, Message, Cancelled
  <2>3. ReplyThenResult'
    BY <1>0, <1>9 DEF ReplyThenResult, Types, JobCells, CallTasks, Following, States,
       Results, Outcomes, CancelOp, Message, Cancelled
  <2>4. OneMaker'
    BY <1>0, <1>9 DEF OneMaker, Types, JobCells, CallTasks, Following, States,
       Results, Outcomes, Running, NoJob, CancelOp, Message, Cancelled
  <2>5. Cursors'
    BY <1>0, <1>9 DEF Cursors, Types, JobCells, CallTasks, Following, States,
       Results, Outcomes, CancelOp, Message, Cancelled
  <2>6. EndsWithJob'
    BY <1>0, <1>9 DEF EndsWithJob, Types, JobCells, CallTasks, Following, States,
       Results, Outcomes, CancelOp, Message, Cancelled
  <2>7. LeavesOfOthers'
    BY <1>0, <1>9 DEF LeavesOfOthers, Types, JobCells, CallTasks, Following, States,
       Results, Outcomes, Running, CancelOp, Message, Cancelled
  <2>8. QED
    BY <2>2, <2>3, <2>4, <2>5, <2>6, <2>7 DEF IInv
<1>10. QED
  BY <1>1, <1>2, <1>3, <1>4, <1>5, <1>6, <1>7, <1>8, <1>9 DEF Work, Finisher

\* The invariant is inductive.
LEMMA NextIInv == IInv /\ [Next]_vars => IInv'
<1> SUFFICES ASSUME IInv, [Next]_vars PROVE IInv'
  OBVIOUS
<1>1. CASE \E c \in Calls : Client(c) \/ Follow(c)
  BY <1>1, CallStepIInv
<1>2. CASE Work \/ Finisher \/ CancelOp
  BY <1>2, JobStepIInv
<1>3. CASE UNCHANGED vars
  BY <1>3 DEF vars, IInv, Types, ReplyThenResult, OneMaker, Cursors, EndsWithJob,
     LeavesOfOthers, Running
<1>4. QED
  BY <1>1, <1>2, <1>3 DEF Next

\* The job and its calls keep the inductive invariant.
THEOREM JobsInvariant == Spec => []IInv
BY InitIInv, NextIInv, PTL DEF Spec

\* A call that followed the job to its end has the job's result, and it has
\* one (finish stores it before `done`, follow reads it after).
THEOREM JobsResultIsFinal == Spec => []ResultIsFinal
<1>1. IInv => TypeOK
  <2> SUFFICES ASSUME IInv PROVE TypeOK
    OBVIOUS
  <2>1. Types /\ Cursors
    BY DEF IInv
  <2>2. \A c \in Calls : call[c].log <= call[c].rx
    <3> SUFFICES ASSUME NEW c \in Calls PROVE call[c].log <= call[c].rx
      OBVIOUS
    <3>1. call[c].log \in Nat /\ call[c].rx \in Nat
      BY <2>1 DEF Types, CallTasks
    <3>2. QED
      BY <2>1, <3>1, JobsConstants DEF Cursors
  <2>3. QED
    BY <2>1, <2>2 DEF Types, JobCells, CallTasks, Cursors, TypeOK
<1>2. IInv => ResultIsFinal
  BY <1>1 DEF IInv, ReplyThenResult, EndsWithJob, ResultIsFinal
<1>3. QED
  BY <1>2, JobsInvariant, PTL

\* A listed operation is cancelled by a client's request or by an attached
\* client that left, never by the one that started it and left.
THEOREM JobsOwnerMayLeave == Spec => []OwnerMayLeave
<1>1. IInv => OwnerMayLeave
  BY DEF IInv, LeavesOfOthers, OwnerMayLeave
<1>2. QED
  BY <1>1, JobsInvariant, PTL

-----------------------------------------------------------------------------
\* Refinement

\* The mapped state: where every call is, as OpStream sees it.
Ats     == [c \in Calls |-> call[c].at]
Saids   == [c \in Calls |-> call[c].said]
Phases  == [c \in Calls |-> Phase(c)]
Totals  == [c \in Calls |-> job.events]
Mapped  == <<Totals, Ats, Saids, Phases>>

\* A step of one call moves that call alone.
LEMMA OneCallMoves ==
    ASSUME NEW c \in Calls, \A d \in Calls \ {c} : call'[d] = call[d], job'.events = job.events
    PROVE  /\ Totals' = Totals
           /\ Ats' = [Ats EXCEPT ![c] = call'[c].at]
           /\ Saids' = [Saids EXCEPT ![c] = call'[c].said]
           /\ Phases' = [Phases EXCEPT ![c] = Phase(c)']
<1>1. \A d \in Calls \ {c} : Phase(d)' = Phase(d)
  BY DEF Phase
<1>2. Phases' = [Phases EXCEPT ![c] = Phase(c)']
  BY <1>1 DEF Phases
<1>3. QED
  BY <1>2 DEF Totals, Ats, Saids

\* The steps of OpStream, from what the step does to the call.
LEMMA OpenMaps ==
    ASSUME NEW c \in Calls, \A d \in Calls \ {c} : call'[d] = call[d], job'.events = job.events,
           Phase(c) = "off", Phase(c)' = "on", call'[c].at = call[c].at, call'[c].said = call[c].said
    PROVE  Stream!Open(c)
BY OneCallMoves DEF Stream!Open, Totals, Ats, Saids, Phases

\* A client that is given the next line of the log.
LEMMA DeliverMaps ==
    ASSUME NEW c \in Calls, \A d \in Calls \ {c} : call'[d] = call[d], job'.events = job.events,
           Phase(c) = "on", Phase(c)' = "on", call'[c].said = call[c].said,
           call[c].at < job.events, call'[c].at = call[c].at + 1
    PROVE  Stream!Deliver(c)
<1>1. Totals[c] = job.events /\ Ats[c] = call[c].at /\ Saids[c] = call[c].said /\ Phases[c] = Phase(c)
  BY DEF Totals, Ats, Saids, Phases
<1>2. /\ Totals' = Totals /\ Saids' = [Saids EXCEPT ![c] = call'[c].said]
      /\ Ats' = [Ats EXCEPT ![c] = call'[c].at] /\ Phases' = [Phases EXCEPT ![c] = Phase(c)']
  BY OneCallMoves
<1>3. Saids' = Saids /\ Phases' = Phases
  BY <1>1, <1>2, ZenonT(60) DEF Saids, Phases
<1>4. QED
  BY <1>1, <1>2, <1>3 DEF Stream!Deliver, Totals, Ats, Saids, Phases

\* A client that is behind what the log kept is told of it.
LEMMA OverrunMaps ==
    ASSUME NEW c \in Calls, \A d \in Calls \ {c} : call'[d] = call[d], job'.events = job.events,
           Phase(c) = "on", Phase(c)' = "on", NEW n \in (call[c].at + 1)..job.events,
           call'[c].at = n, call'[c].said = call[c].said + (n - call[c].at)
    PROVE  Stream!Overrun(c)
<1>1. Totals[c] = job.events /\ Ats[c] = call[c].at /\ Saids[c] = call[c].said /\ Phases[c] = Phase(c)
  BY DEF Totals, Ats, Saids, Phases
<1>2. /\ Totals' = Totals /\ Saids' = [Saids EXCEPT ![c] = call'[c].said]
      /\ Ats' = [Ats EXCEPT ![c] = call'[c].at] /\ Phases' = [Phases EXCEPT ![c] = Phase(c)']
  BY OneCallMoves
<1>3. Phases' = Phases
  BY <1>1, <1>2 DEF Phases
<1>4. /\ n \in (Ats[c] + 1)..Totals[c] /\ Phases[c] = "on"
      /\ Ats' = [Ats EXCEPT ![c] = n]
      /\ Saids' = [Saids EXCEPT ![c] = Saids[c] + (n - Ats[c])]
  BY <1>1, <1>2
<1>5. QED
  BY <1>2, <1>3, <1>4, Zenon DEF Stream!Overrun, Totals, Ats, Saids, Phases

\* A client that was replayed the log goes on with the live events.
LEMMA EndOfLogMaps ==
    ASSUME NEW c \in Calls, \A d \in Calls \ {c} : call'[d] = call[d], job'.events = job.events,
           Phase(c) = "on", Phase(c)' = "on", call'[c].said = call[c].said,
           call[c].at = Replay, call'[c].at \in (call[c].at + 1)..job.events
    PROVE  Stream!EndOfLog(c)
<1>1. Totals[c] = job.events /\ Ats[c] = call[c].at /\ Saids[c] = call[c].said /\ Phases[c] = Phase(c)
  BY DEF Totals, Ats, Saids, Phases
<1>2. /\ Totals' = Totals /\ Saids' = [Saids EXCEPT ![c] = call'[c].said]
      /\ Ats' = [Ats EXCEPT ![c] = call'[c].at] /\ Phases' = [Phases EXCEPT ![c] = Phase(c)']
  BY OneCallMoves
<1>3. Saids' = Saids /\ Phases' = Phases
  BY <1>1, <1>2, ZenonT(60) DEF Saids, Phases
<1>4. QED
  BY <1>1, <1>2, <1>3 DEF Stream!EndOfLog, Totals, Ats, Saids, Phases

\* The stream ends with the result.
LEMMA EndMaps ==
    ASSUME NEW c \in Calls, \A d \in Calls \ {c} : call'[d] = call[d], job'.events = job.events,
           Phase(c) = "on", Phase(c)' = "whole", call'[c].at = call[c].at,
           call'[c].said = call[c].said,
           call[c].at = job.events \/ job.events - call[c].at > Cap
    PROVE  Stream!End(c)
BY OneCallMoves DEF Stream!End, Totals, Ats, Saids, Phases

\* A client that leaves.
LEMMA LeaveMaps ==
    ASSUME NEW c \in Calls, \A d \in Calls \ {c} : call'[d] = call[d], job'.events = job.events,
           Phase(c) \in {"off", "on"}, Phase(c)' = "left", call'[c].at = call[c].at,
           call'[c].said = call[c].said
    PROVE  Stream!Leave(c)
BY OneCallMoves DEF Stream!Leave, Totals, Ats, Saids, Phases

\* A step that moves no call: the job reports something, or nothing is seen.
LEMMA ReportMaps ==
    ASSUME job'.events >= job.events,
           \A c \in Calls : /\ call'[c].at = call[c].at /\ call'[c].said = call[c].said
                            /\ Phase(c)' = Phase(c)
    PROVE  Stream!Report
BY DEF Stream!Report, Totals, Ats, Saids, Phases

\* Every step of one call is a step of OpStream, or one it does not see.
LEMMA CallStepMaps ==
    ASSUME IInv, IInv', NEW c \in Calls, Client(c) \/ Follow(c)
    PROVE  [Stream!Next]_Mapped
<1>0. /\ Types /\ Types' /\ Cursors /\ EndsWithJob /\ EndsWithJob'
  BY DEF IInv
<1>1. \A d \in Calls \ {c} : call'[d] = call[d]
  BY <1>0 DEF Types, Client, Follow, TargetFails, Make, Attach, CancelCall, Leave, Enqueue,
     Subscribe, ReplayLog, GoLive, TakeEvent, Lagged, NoEvent, SeeDone, SeeDetached,
     SeeCancelled, Wake, Drain, Return, Gone
<1>2. /\ call[c].at \in Nat /\ call[c].said \in Nat /\ call[c].rx \in Nat /\ call[c].log \in Nat
      /\ job.events \in Nat /\ call[c].at <= job.events /\ Replay \in Nat /\ Cap \in Nat
  BY <1>0, JobsConstants DEF Types, JobCells, CallTasks, Cursors
<1>3. CASE Subscribe(c)
  <2>1. /\ job' = job /\ Phase(c) = "off" /\ Phase(c)' = "on"
        /\ call'[c].at = call[c].at /\ call'[c].said = call[c].said
    BY <1>0, <1>3 DEF Types, CallTasks, Subscribe, Phase
  <2>2. QED
    BY <1>1, <2>1, OpenMaps DEF Stream!Next
<1>4. CASE ReplayLog(c) \/ TakeEvent(c) \/ Drain(c)
  <2>1. /\ job' = job /\ Phase(c) = "on" /\ Phase(c)' = "on"
        /\ call'[c].at = call[c].at + 1 /\ call'[c].said = call[c].said
    BY <1>0, <1>4 DEF Types, CallTasks, ReplayLog, TakeEvent, Drain, Phase
  <2>2. call[c].at < job.events
    BY <1>0, <1>2, <1>4 DEF Cursors, ReplayLog, TakeEvent, Drain, Unread
  <2>3. QED
    BY <1>1, <2>1, <2>2, DeliverMaps DEF Stream!Next
<1>5. CASE Lagged(c)
  <2>1. PICK n \in (call[c].at + 1)..job.events : n = call[c].at + (Unread(c) - Cap)
    BY <1>2, <1>5 DEF Lagged, Unread
  <2>2. Unread(c) - Cap = n - call[c].at
    BY <1>2, <2>1 DEF Unread
  <2>3. /\ job' = job /\ Phase(c) = "on" /\ Phase(c)' = "on"
        /\ call'[c].at = n /\ call'[c].said = call[c].said + (n - call[c].at)
    BY <1>0, <1>5, <2>1, <2>2 DEF Types, CallTasks, Lagged, Phase
  <2>4. QED
    BY <1>1, <2>3, OverrunMaps DEF Stream!Next
<1>6. CASE GoLive(c)
  <2>1. /\ job' = job /\ Phase(c) = "on" /\ Phase(c)' = "on"
        /\ call'[c].at = call[c].rx /\ call'[c].said = call[c].said
    BY <1>0, <1>6 DEF Types, CallTasks, GoLive, Phase
  <2>2. CASE call[c].at = call[c].rx
    <3>1. Stream!Report
      <4>1. \A d \in Calls : /\ call'[d].at = call[d].at /\ call'[d].said = call[d].said
                             /\ Phase(d)' = Phase(d)
        BY <1>1, <2>1, <2>2 DEF Phase
      <4>2. QED
        BY <1>2, <2>1, <4>1, ReportMaps
    <3>2. QED
      BY <3>1 DEF Stream!Next
  <2>3. CASE call[c].at # call[c].rx
    <3>1. call[c].at = Replay /\ call[c].rx \in (call[c].at + 1)..job.events
      BY <1>0, <1>2, <1>6, <2>3 DEF Cursors, GoLive
    <3>2. QED
      BY <1>1, <2>1, <3>1, EndOfLogMaps DEF Stream!Next
  <2>4. QED
    BY <2>2, <2>3
<1>7. CASE Return(c)
  <2>1. /\ job' = job /\ Phase(c) = "on" /\ Phase(c)' = "whole"
        /\ call'[c].at = call[c].at /\ call'[c].said = call[c].said
    BY <1>0, <1>7 DEF Types, CallTasks, Return, Gone, NoCall, Phase
  <2>2. call[c].at = job.events \/ job.events - call[c].at > Cap
    BY <1>2, <1>7 DEF Return, Unread
  <2>3. QED
    BY <1>1, <2>1, <2>2, EndMaps DEF Stream!Next
<1>8. CASE TargetFails(c) \/ SeeDetached(c) \/ (Attach(c) /\ call' = Gone(c, "left", "failed"))
  <2>1. PICK r : call' = Gone(c, "left", r)
    BY <1>8 DEF TargetFails, SeeDetached
  <2>2. job' = job /\ call[c].pc \in {"idle", "polled"}
    BY <1>8 DEF TargetFails, SeeDetached, Attach, Waits
  <2>3. call'[c].pc = "gone" /\ call'[c].end = "left"
        /\ call'[c].at = call[c].at /\ call'[c].said = call[c].said
    BY <1>0, <2>1 DEF Types, Gone, NoCall
  <2>4. Phase(c) \in {"off", "on"} /\ Phase(c)' = "left"
    BY <2>2, <2>3 DEF Phase
  <2>5. QED
    BY <1>1, <2>2, <2>3, <2>4, LeaveMaps DEF Stream!Next
<1>9. CASE \/ Make(c) \/ Enqueue(c) \/ (Attach(c) /\ call' = [call EXCEPT ![c].pc = "queued"])
           \/ CancelCall(c) \/ Leave(c) \/ NoEvent(c) \/ SeeDone(c) \/ SeeCancelled(c) \/ Wake(c)
  <2>1. job'.events >= job.events
    <3>1. CASE Enqueue(c)
      BY <1>0, <3>1, EnqueueTells DEF Types, JobCells
    <3>2. CASE ~Enqueue(c)
      <4>1. job'.events = job.events
        BY <1>0, <1>9, <3>2 DEF Types, JobCells, Make, Attach, CancelCall, Leave, NoEvent,
           SeeDone, SeeCancelled, Cancelled, Wake
      <4>2. QED
        BY <1>2, <4>1
    <3>3. QED
      BY <3>1, <3>2
  <2>2. /\ call'[c].at = call[c].at /\ call'[c].said = call[c].said
        /\ Phase(c)' = Phase(c)
    <3>1. CASE Make(c) \/ Enqueue(c) \/ (Attach(c) /\ call' = [call EXCEPT ![c].pc = "queued"])
      BY <1>0, <3>1 DEF Types, CallTasks, Make, Enqueue, Attach, Phase
    <3>2. CASE CancelCall(c) \/ Leave(c)
      <4>1. /\ call'[c].at = call[c].at /\ call'[c].said = call[c].said
            /\ call'[c].pc = call[c].pc /\ call'[c].end = call[c].end
        BY <1>0, <3>2 DEF Types, CallTasks, CancelCall, Leave
      <4>2. QED
        BY <4>1 DEF Phase
    <3>3. CASE NoEvent(c) \/ SeeDone(c) \/ SeeCancelled(c) \/ Wake(c)
      BY <1>0, <3>3 DEF Types, CallTasks, NoEvent, SeeDone, SeeCancelled, Wake, Waits, Phase
    <3>4. QED
      BY <1>9, <3>1, <3>2, <3>3
  <2>3. \A d \in Calls : /\ call'[d].at = call[d].at /\ call'[d].said = call[d].said
                         /\ Phase(d)' = Phase(d)
    BY <1>1, <2>2 DEF Phase
  <2>4. QED
    BY <2>1, <2>3, ReportMaps DEF Stream!Next
<1>10. QED
  BY <1>3, <1>4, <1>5, <1>6, <1>7, <1>8, <1>9 DEF Client, Follow, Attach

\* The job's own steps, and a cancel_op, at most report something.
LEMMA JobStepMaps ==
    ASSUME IInv, Work \/ Finisher \/ CancelOp
    PROVE  Stream!Next
<1>1. call' = call
  BY DEF Work, Finisher, Receive, QueueDies, OpStarts, OpReports, OpFinishes, OpReturns, Store,
     Done, CancelOp
<1>2. job'.events >= job.events
  <2>1. Types /\ job.events \in Nat
    BY DEF IInv, Types, JobCells
  <2>2. CASE OpStarts \/ OpReports \/ OpFinishes
    <3>1. job'.events = job.events + 1
      BY <2>1, <2>2 DEF Types, JobCells, OpStarts, StartedEvent, OpReports, OpFinishes,
         FinishedEvent
    <3>2. QED
      BY <2>1, <3>1
  <2>3. CASE Receive \/ QueueDies \/ OpReturns \/ Store \/ Done \/ CancelOp
    <3>1. job'.events = job.events
      BY <2>1, <2>3 DEF Types, JobCells, Receive, QueueDies, OpReturns, Store, Done, CancelOp,
         Cancelled
    <3>2. QED
      BY <2>1, <3>1
  <2>4. QED
    BY <2>2, <2>3 DEF Work, Finisher
<1>3. \A c \in Calls : /\ call'[c].at = call[c].at /\ call'[c].said = call[c].said
                       /\ Phase(c)' = Phase(c)
  BY <1>1 DEF Phase
<1>4. QED
  BY <1>2, <1>3, ReportMaps DEF Stream!Next

\* The job and its followers implement OpStream: each call sees the events
\* in order and once each, is told what it was overrun by, and leaves out
\* untold only what OpStream's EndOfLog and End name (subscribe, follow).
THEOREM JobsImplementStream == Spec => ImplementsStream
<1>1. Init => Stream!Init
  BY DEF Init, NoJob, NoCall, Phase, Stream!Init
<1>2. IInv /\ IInv' /\ [Next]_vars => [Stream!Next]_Mapped
  <2> SUFFICES ASSUME IInv, IInv', [Next]_vars PROVE [Stream!Next]_Mapped
    OBVIOUS
  <2>1. CASE \E c \in Calls : Client(c) \/ Follow(c)
    BY <2>1, CallStepMaps
  <2>2. CASE Work \/ Finisher \/ CancelOp
    BY <2>2, JobStepMaps
  <2>3. CASE UNCHANGED vars
    BY <2>3 DEF vars, Mapped, Totals, Ats, Saids, Phases, Phase
  <2>4. QED
    BY <2>1, <2>2, <2>3 DEF Next
<1>3. QED
  BY <1>1, <1>2, JobsInvariant, PTL DEF Spec, ImplementsStream, Stream!Spec, Mapped, Totals,
     Ats, Saids, Phases
=============================================================================
