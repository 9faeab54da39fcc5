-------------------------------- MODULE Jobs --------------------------------
(***************************************************************************)
(* A daemon operation as a job (bins/nlink-labd/src/jobs.rs): a client     *)
(* starts it, follows its events, leaves it running, finds it again and    *)
(* cancels it (server.rs routes what the clients send).                    *)
(*                                                                         *)
(* One job and the calls about it; LabQueues has the queue that works it   *)
(* and the list it is found in.  Events are numbered as the job reports    *)
(* them: its log holds the first Replay of them, a follower reads the      *)
(* others from a broadcast channel that keeps the last Cap.                *)
(*                                                                         *)
(* A step holds one mutex of the code at most: the job's `log` (its        *)
(* events, Subscribe), another of its cells (Store, Done) or the `jobs`    *)
(* map (Make, Attach, CancelOp).                                           *)
(***************************************************************************)
EXTENDS Naturals

CONSTANTS Calls,       \* calls of clients, each made once
          MaxReports,  \* bound: events of the job but its `finished`
          MaxMessages, \* bound: cancels and leaves of the clients
          Cap,         \* the broadcast channel's capacity (1024)
          Replay,      \* REPLAY: events a job keeps (10 000)
          None         \* no outcome, no result

ASSUME JobsConstants ==
    /\ MaxReports \in Nat /\ MaxMessages \in Nat
    /\ Cap \in Nat \ {0} /\ Replay \in Nat
    /\ None \notin {"ok", "failed", "cancelled", "dropped", "succeeded", "rolled_back"}

VARIABLES job,     \* the job's cells
          call,    \* call -> its task
          messages \* the cancels and leaves so far (for their bound)

vars == <<job, call, messages>>

Results  == {"ok", "failed", "cancelled"}
Outcomes == {"succeeded", "failed", "cancelled", "rolled_back"}
States   == {"queued", "running"} \cup Outcomes

\* `work`: where its Work is; `phase`: how far its OpCtx reported; `ended`:
\* how far finish() is; `by`: who cancelled it first (history).
NoJob == [work |-> "none", listed |-> FALSE, phase |-> "new", state |-> "running",
          outcome |-> None, events |-> 0, reply |-> None, result |-> None,
          ended |-> "no", cancel |-> FALSE, by |-> "nobody"]

\* `log`: events to replay; `rx`: where its receiver starts; `at`: events
\* delivered or skipped; `said`: how many Lagged announced; `end`: whether
\* it ended with the job, detached or refused.
NoCall == [pc |-> "idle", kind |-> "attach", log |-> 0, rx |-> 0, at |-> 0, said |-> 0,
           cancel |-> "no", detached |-> FALSE, cancelling |-> FALSE, end |-> "none",
           result |-> None]

Init ==
    /\ job = NoJob
    /\ call = [c \in Calls |-> NoCall]
    /\ messages = 0

-----------------------------------------------------------------------------
\* Helpers

\* Job::record of `queued`, `started` and `finished`.
QueuedEvent      == [job EXCEPT !.events = @ + 1, !.state = "queued"]
StartedEvent     == [job EXCEPT !.events = @ + 1, !.state = "running", !.phase = "started"]
FinishedEvent(o) == [job EXCEPT !.events = @ + 1, !.outcome = o, !.phase = "finished"]

\* The state finish() gives the job: what its `finished` event said, else
\* what its result says.
FinalState ==
    CASE job.outcome # None       -> job.outcome
      [] job.reply = "ok"         -> "succeeded"
      [] job.reply = "cancelled"  -> "cancelled"
      [] OTHER                    -> "failed"

\* The call ended: its tokens go with its handle.
Gone(c, how, r) ==
    [call EXCEPT ![c] = [NoCall EXCEPT !.pc = "gone", !.at = call[c].at, !.said = call[c].said,
                                       !.end = how, !.result = r]]

\* Events a follower can still read from its receiver.
Unread(c) == job.events - call[c].at

Running(c) == call[c].pc \notin {"idle", "gone"}

\* A cancel or a leave is a message of a client.
Message == messages < MaxMessages /\ messages' = messages + 1

\* The job's token is set, by `who` if it was not set before.
Cancelled(who) == IF job.cancel THEN job ELSE [job EXCEPT !.cancel = TRUE, !.by = who]

-----------------------------------------------------------------------------
\* Calls: server.rs start, dispatch; Jobs::run, attach, cancel

\* lab_of: the deploy's topology does not parse or validate.
TargetFails(c) ==
    /\ call[c].pc = "idle"
    /\ call' = Gone(c, "left", "failed")
    /\ UNCHANGED <<job, messages>>

\* `run` of an operation, which is listed, or of another change.
Make(c) ==
    /\ call[c].pc = "idle" /\ job.work = "none"
    /\ \E k \in {"operation", "change"} :
        /\ job' = [job EXCEPT !.work = "made", !.listed = (k = "operation")]
        /\ call' = [call EXCEPT ![c].pc = "made", ![c].kind = k]
    /\ UNCHANGED messages

\* enqueue: the job waits, and says so behind others; or no queue can start.
Enqueue(c) ==
    /\ call[c].pc = "made"
    /\ \E told \in {job, QueuedEvent} :
        \/ job' = [told EXCEPT !.work = "queued"]
        \/ job' = [told EXCEPT !.work = "done", !.reply = "failed"]
    /\ call' = [call EXCEPT ![c].pc = "queued"]
    /\ UNCHANGED messages

\* attach_op of the job while it is listed, or once it was forgotten (only
\* a job that ended is: UnfinishedIsListed of LabQueues).
Attach(c) ==
    /\ call[c].pc = "idle" /\ job.work # "none"
    /\ \/ /\ job.listed
          /\ call' = [call EXCEPT ![c].pc = "queued"]
       \/ /\ ~job.listed \/ job.ended = "done"
          /\ call' = Gone(c, "left", "failed")
    /\ UNCHANGED <<job, messages>>

\* cancel_op, a call of its own.
CancelOp ==
    /\ job.work # "none" /\ job.listed /\ Message
    /\ job' = Cancelled("client")
    /\ UNCHANGED call

\* The client's `cancel` of a running call.
CancelCall(c) ==
    /\ Running(c) /\ call[c].cancel = "no" /\ Message
    /\ call' = [call EXCEPT ![c].cancel = "asked"]
    /\ UNCHANGED job

\* The method's on_disconnect: only an operation's is to continue.
OnDisconnect(c) == IF call[c].kind = "operation" THEN "continue" ELSE "cancel"

\* Mutant: whoever leaves a call cancels it.
LeaveCancels(c) ==
    /\ Running(c) /\ call[c].cancel = "no" /\ Message
    /\ call' = [call EXCEPT ![c].cancel = "left"]
    /\ UNCHANGED job

\* CallHandle::leave, by a `detach`, a dropped Call or a closed connection.
Leave(c) ==
    /\ Running(c) /\ Message
    /\ \/ /\ OnDisconnect(c) = "continue" /\ ~call[c].detached
          /\ call' = [call EXCEPT ![c].detached = TRUE]
       \/ /\ OnDisconnect(c) = "cancel" /\ call[c].cancel = "no"
          /\ call' = [call EXCEPT ![c].cancel = "left"]
    /\ UNCHANGED job

-----------------------------------------------------------------------------
\* The job's turn in its lab's queue: ops::mutate::handle

Receive ==
    /\ job.work = "queued"
    /\ job' = [job EXCEPT !.work = "working"]
    /\ UNCHANGED <<call, messages>>

\* The queue's thread ends under it: it did not start, or a change panicked.
QueueDies ==
    /\ job.work \in {"queued", "working"}
    /\ job' = [job EXCEPT !.work = "done", !.reply = "dropped"]
    /\ UNCHANGED <<call, messages>>

\* OpCtx::started, what the operation reports, OpCtx::finished.  Reaping,
\* and the changes that are not operations, report no start and no end.
OpStarts ==
    /\ job.work = "working" /\ job.phase = "new" /\ job.listed
    /\ job' = StartedEvent
    /\ UNCHANGED <<call, messages>>

OpReports ==
    /\ job.work = "working" /\ job.phase = "started" /\ job.events < MaxReports
    /\ job' = [job EXCEPT !.events = @ + 1]
    /\ UNCHANGED <<call, messages>>

\* OpCtx::check stops a cancelled operation between its steps.
OpFinishes ==
    /\ job.work = "working" /\ job.phase = "started"
    /\ \E o \in Outcomes :
        /\ o = "cancelled" => job.cancel
        /\ job' = FinishedEvent(o)
    /\ UNCHANGED <<call, messages>>

\* What the handler may return: what it likes before it reported a start;
\* after `finished` what that said, but for a strict deploy or apply whose
\* assertions failed: an error, of an operation that succeeded.
Returns ==
    CASE job.phase = "new"         -> IF job.cancel THEN Results ELSE {"ok", "failed"}
      [] job.phase = "started"     -> {}
      [] job.outcome = "succeeded" -> {"ok", "failed"}
      [] job.outcome = "cancelled" -> {"cancelled"}
      [] OTHER                     -> {"failed"}

\* The thread answers.
OpReturns ==
    /\ job.work = "working"
    /\ \E r \in Returns : job' = [job EXCEPT !.work = "done", !.reply = r]
    /\ UNCHANGED <<call, messages>>

-----------------------------------------------------------------------------
\* The finisher (the task `run` spawns): Job::finish

\* Mutant: a job whose reply is lost is left as it is.
StoreAnswered ==
    /\ job.reply \in Results
    /\ job' = [job EXCEPT !.state = FinalState, !.reply = None, !.ended = "stored",
                          !.result = job.reply]
    /\ UNCHANGED <<call, messages>>

\* Its state and result, then its end.  A dropped reply is the error "the
\* lab's queue stopped".
Store ==
    /\ job.reply # None
    /\ job' = [job EXCEPT !.state = FinalState, !.reply = None, !.ended = "stored",
                          !.result = IF job.reply = "dropped" THEN "failed" ELSE job.reply]
    /\ UNCHANGED <<call, messages>>

\* Mutant: told before there is a result to read.
DoneFirst ==
    /\ job.reply # None /\ job.ended = "no"
    /\ job' = [job EXCEPT !.ended = "done"]
    /\ UNCHANGED <<call, messages>>

Done ==
    /\ job.ended = "stored"
    /\ job' = [job EXCEPT !.ended = "done"]
    /\ UNCHANGED <<call, messages>>

-----------------------------------------------------------------------------
\* A follower: follow()

\* Job::subscribe: the log and a receiver, under the log's lock.
Subscribe(c) ==
    /\ call[c].pc = "queued"
    /\ call' = [call EXCEPT ![c].pc = "log", ![c].rx = job.events,
                            ![c].log = IF job.events < Replay THEN job.events ELSE Replay]
    /\ UNCHANGED <<job, messages>>

ReplayLog(c) ==
    /\ call[c].pc = "log" /\ call[c].at < call[c].log
    /\ call' = [call EXCEPT ![c].at = @ + 1]
    /\ UNCHANGED <<job, messages>>

\* Mutant: the receiver is made after the log was replayed.
GoLiveLate(c) ==
    /\ call[c].pc = "log" /\ call[c].at = call[c].log
    /\ call' = [call EXCEPT ![c].pc = "poll", ![c].at = job.events, ![c].log = 0, ![c].rx = 0]
    /\ UNCHANGED <<job, messages>>

GoLive(c) ==
    /\ call[c].pc = "log" /\ call[c].at = call[c].log
    /\ call' = [call EXCEPT ![c].pc = "poll", ![c].at = call[c].rx, ![c].log = 0, ![c].rx = 0]
    /\ UNCHANGED <<job, messages>>

\* The first branch of the biased select: the receiver has an event, it
\* was overrun, or it has nothing (and the other branches are polled).
TakeEvent(c) ==
    /\ call[c].pc = "poll" /\ Unread(c) \in 1..Cap
    /\ call' = [call EXCEPT ![c].at = @ + 1]
    /\ UNCHANGED <<job, messages>>

Lagged(c) ==
    /\ call[c].pc = "poll" /\ Unread(c) > Cap
    /\ call' = [call EXCEPT ![c].at = @ + (Unread(c) - Cap),
                            ![c].said = @ + (Unread(c) - Cap)]
    /\ UNCHANGED <<job, messages>>

NoEvent(c) ==
    /\ call[c].pc = "poll" /\ Unread(c) = 0
    /\ call' = [call EXCEPT ![c].pc = "polled"]
    /\ UNCHANGED <<job, messages>>

\* The other branches, in their order: the job is done, the call is
\* detached, the call is cancelled; or the receiver wakes it.
SeeDone(c) ==
    /\ call[c].pc = "polled" /\ job.ended = "done"
    /\ call' = [call EXCEPT ![c].pc = "drain"]
    /\ UNCHANGED <<job, messages>>

Waits(c) == call[c].pc = "polled" /\ job.ended # "done"

SeeDetached(c) ==
    /\ Waits(c) /\ call[c].detached
    /\ call' = Gone(c, "left", None)
    /\ UNCHANGED <<job, messages>>

SeeCancelled(c) ==
    /\ Waits(c) /\ ~call[c].detached /\ call[c].cancel # "no" /\ ~call[c].cancelling
    /\ call' = [call EXCEPT ![c].pc = "poll", ![c].cancelling = TRUE]
    /\ job' = Cancelled(IF call[c].cancel = "asked" THEN "client" ELSE call[c].kind)
    /\ UNCHANGED messages

Wake(c) ==
    /\ Waits(c) /\ Unread(c) > 0
    /\ call' = [call EXCEPT ![c].pc = "poll"]
    /\ UNCHANGED <<job, messages>>

\* What came before the end; it stops at a receiver that was overrun.
Drain(c) ==
    /\ call[c].pc = "drain" /\ Unread(c) \in 1..Cap
    /\ call' = [call EXCEPT ![c].at = @ + 1]
    /\ UNCHANGED <<job, messages>>

\* Job::result; the call's handle goes before its end is sent.
Return(c) ==
    /\ call[c].pc = "drain" /\ Unread(c) \notin 1..Cap
    /\ call' = Gone(c, "whole", job.result)
    /\ UNCHANGED <<job, messages>>

-----------------------------------------------------------------------------

Client(c) == TargetFails(c) \/ Make(c) \/ Attach(c) \/ CancelCall(c) \/ Leave(c)

Follow(c) ==
    \/ Enqueue(c)
    \/ Subscribe(c) \/ ReplayLog(c) \/ GoLive(c)
    \/ TakeEvent(c) \/ Lagged(c) \/ NoEvent(c)
    \/ SeeDone(c) \/ SeeDetached(c) \/ SeeCancelled(c) \/ Wake(c)
    \/ Drain(c) \/ Return(c)

Work == Receive \/ QueueDies \/ OpStarts \/ OpReports \/ OpFinishes \/ OpReturns

Finisher == Store \/ Done

Next ==
    \/ \E c \in Calls : Client(c) \/ Follow(c)
    \/ Work \/ Finisher \/ CancelOp

Spec == Init /\ [][Next]_vars

\* The daemon's tasks are scheduled, the lab's queue works the job and the
\* job ends (EveryChangeEnds of LabQueues), and a client reads what it is
\* sent or goes away.  Nobody is forced to call, to leave or to cancel.
FairSpec ==
    /\ Spec
    /\ \A c \in Calls : WF_vars(Follow(c))
    /\ WF_vars(Work) /\ WF_vars(Finisher)

-----------------------------------------------------------------------------
\* The inductive invariant

Following == {"log", "poll", "polled", "drain"}

JobCells ==
    [work: {"none", "made", "queued", "working", "done"}, listed: BOOLEAN,
     phase: {"new", "started", "finished"}, state: States, outcome: Outcomes \cup {None},
     events: Nat, reply: Results \cup {None, "dropped"}, result: Results \cup {None},
     ended: {"no", "stored", "done"}, cancel: BOOLEAN,
     by: {"nobody", "client", "operation", "change", "attach"}]

CallTasks ==
    [pc: {"idle", "made", "queued", "gone"} \cup Following,
     kind: {"operation", "change", "attach"}, log: Nat, rx: Nat, at: Nat, said: Nat,
     cancel: {"no", "asked", "left"}, detached: BOOLEAN, cancelling: BOOLEAN,
     end: {"none", "whole", "left"}, result: Results \cup {None}]

Types == job \in JobCells /\ call \in [Calls -> CallTasks] /\ messages \in Nat

\* A reply is there from the thread's answer to the finisher's Store, and
\* the result from then on.
ReplyThenResult ==
    /\ job.reply # None => job.work = "done" /\ job.ended = "no"
    /\ job.ended # "no" => job.work = "done" /\ job.reply = None /\ job.result # None

\* Before there is a job nobody follows it, owns it or cancelled it; the
\* call that made it is alone in doing so.
OneMaker ==
    /\ job.work = "none" => job = NoJob /\ \A c \in Calls : ~Running(c)
    /\ \A c \in Calls : call[c].pc = "made" =>
        job.work = "made" /\ \A d \in Calls : call[d].pc = "made" => d = c

\* Where a follower is: before its subscription at 0, then in the log, then
\* at or behind the job's events.
Cursors ==
    \A c \in Calls :
        /\ call[c].at <= job.events
        /\ IF call[c].pc = "log"
             THEN /\ call[c].at <= call[c].log /\ call[c].rx <= job.events
                  /\ call[c].log = IF call[c].rx < Replay THEN call[c].rx ELSE Replay
             ELSE call[c].log = 0 /\ call[c].rx = 0
        /\ call[c].pc \in {"idle", "made", "queued"} => call[c].at = 0

\* Only a job that is done ends a call with its result.
EndsWithJob ==
    \A c \in Calls :
        /\ call[c].pc = "gone" <=> call[c].end # "none"
        /\ call[c].pc = "drain" => job.ended = "done"
        /\ call[c].end = "whole" => job.ended = "done" /\ call[c].result = job.result

\* Whose leaving cancels: never that of an operation's own client, and a
\* call of another change has no listed job.
LeavesOfOthers ==
    /\ job.cancel /\ job.listed => job.by \in {"client", "attach"}
    /\ \A c \in Calls :
        /\ call[c].kind = "operation" => call[c].cancel # "left"
        /\ call[c].kind = "change" => ~job.listed
        /\ ~Running(c) => call[c].kind = "attach" /\ call[c].cancel = "no"

IInv == Types /\ ReplyThenResult /\ OneMaker /\ Cursors /\ EndsWithJob /\ LeavesOfOthers

-----------------------------------------------------------------------------
\* Properties

\* Every variable has its type, and no follower is ahead of the job.
TypeOK ==
    /\ job.state \in States
    /\ job.outcome \in Outcomes \cup {None}
    /\ job.reply \in Results \cup {None, "dropped"}
    /\ job.result \in Results \cup {None}
    /\ \A c \in Calls :
        /\ call[c].kind \in {"operation", "change", "attach"}
        /\ call[c].at <= job.events
        /\ call[c].log <= call[c].rx

\* Every call that follows the job to its end gets the same result, the
\* job's own: "the operation has no result" is never said (finish stores it
\* before `done`, and follow reads it after).
ResultIsFinal ==
    /\ TypeOK
    /\ \A c \in Calls :
        call[c].end = "whole" =>
            job.result # None /\ call[c].result = job.result

\* A listed operation is cancelled because a client asked for it, or because
\* one that was attached to it left; the client that started it leaves
\* without cancelling (CallHandle::leave, follow).
OwnerMayLeave ==
    job.listed /\ job.cancel => job.by \in {"client", "attach"}

\* A follower as OpStream sees it.
Phase(c) ==
    CASE call[c].pc \in {"idle", "made", "queued"}          -> "off"
      [] call[c].pc \in {"log", "poll", "polled", "drain"}  -> "on"
      [] call[c].pc = "gone"                                -> call[c].end

Stream == INSTANCE OpStream WITH
    total <- [c \in Calls |-> job.events],
    at    <- [c \in Calls |-> call[c].at],
    said  <- [c \in Calls |-> call[c].said],
    phase <- [c \in Calls |-> Phase(c)]

\* Every call sees the job's events in order and once each, and is told what
\* it missed, with the two gaps OpStream names (record, subscribe, follow).
ImplementsStream == Stream!Spec

\* Every call ends, with the job's result or detached, whatever dies, lags
\* or leaves meanwhile: no follower waits for an event that never comes.
EveryCallEnds == \A c \in Calls : Running(c) ~> ~Running(c)
=============================================================================
