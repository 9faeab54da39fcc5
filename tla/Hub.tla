-------------------------------- MODULE Hub --------------------------------
(***************************************************************************)
(* The daemon's hub (nlink-labd/src/hub.rs): the registry that scans the   *)
(* state root and announces what changed, the subscriptions that follow    *)
(* it over a bounded broadcast channel, and the metrics collectors, a      *)
(* thread per lab that runs while someone wants it.                        *)
(*                                                                         *)
(* One lab.  Its summary is the number of its revision, Gone when there is *)
(* no lab: a deploy, an apply and a destroy by any process change it on    *)
(* disk.  A broadcast channel is an inbox per receiver: a note that finds  *)
(* it full pushes the oldest out, and the receiver is told it lagged.      *)
(* A subscription of scope "host" follows the labs topic, one of scope     *)
(* "lab" the lab's labs and metrics.  Lifecycle events are in EventLog;    *)
(* they, ops and drift pass through the same channel as the notes here.    *)
(***************************************************************************)
EXTENDS Naturals, Sequences, FiniteSets

CONSTANTS Subs,       \* subscriptions
          Threads,    \* bound: collector threads that live at once
          Telemetry,  \* the want the registry holds for the telemetry
          CollectAll, \* the telemetry is on
          Nobody,     \* no thread
          Cap,        \* the channel's capacity
          MaxChanges  \* bound: deploys and applies

ASSUME HubConstants ==
    /\ Telemetry \notin Subs
    /\ Nobody \notin Threads
    /\ CollectAll \in BOOLEAN
    /\ Cap \in Nat \ {0} /\ MaxChanges \in Nat

VARIABLES disk,       \* the lab's revision in the state root, or Gone
          changes,    \* how many revisions there were
          labs,       \* the registry: the revision the last scan saw
          pass,       \* the registry's scan: its place, the labs before, after
          latest,     \* the latest snapshot: there is one
          telemetry,  \* the registry holds a want
          collector,  \* the lab's entry of collectors: its thread and wants
          thread,     \* thread -> its place and its stop flag
          sub         \* subscription -> its place, inbox and view

vars == <<disk, changes, labs, pass, latest, telemetry, collector, thread, sub>>
state == <<disk, changes>>
registry == <<labs, pass, telemetry>>
metrics == <<latest, collector, thread>>

Gone == 0
NoPass == [pc |-> "idle", old |-> Gone, new |-> Gone]
NoCollector == [thread |-> Nobody, wants |-> {}]

\* view is the lab as the client was shown it last.  lossy and seen are history:
\* the channel dropped a note, and the registry had the lab, meanwhile.
NotSubscribed ==
    [pc |-> "idle", scope |-> "host", inbox |-> <<>>, lagged |-> FALSE, view |-> Gone,
     lossy |-> FALSE, seen |-> FALSE]

Init ==
    /\ disk = Gone /\ changes = 0
    /\ labs = Gone /\ telemetry = FALSE
    /\ pass = NoPass
    /\ latest = FALSE /\ collector = NoCollector
    /\ thread = [k \in Threads |-> [pc |-> "off", stop |-> FALSE]]
    /\ sub = [s \in Subs |-> NotSubscribed]

-----------------------------------------------------------------------------
\* The state root, changed by any process

Change ==      \* a deploy, or an apply
    /\ changes < MaxChanges
    /\ changes' = changes + 1
    /\ disk' = changes + 1
    /\ UNCHANGED <<registry, metrics, sub>>

Destroy ==
    /\ disk # Gone
    /\ disk' = Gone
    /\ UNCHANGED <<changes, registry, metrics, sub>>

-----------------------------------------------------------------------------
\* The broadcast channel

Receives(s) == sub[s].pc \notin {"idle", "checked"}

\* What a note says of the lab is kept where a receiver goes by it.
Note(topic, rev) == [topic |-> topic, rev |-> rev]

\* A receiver's state once note n was sent to it.
Sent(r, n) ==
    IF Len(r.inbox) < Cap THEN [r EXCEPT !.inbox = Append(r.inbox, n)]
    ELSE [r EXCEPT !.inbox = Append(Tail(r.inbox), n), !.lagged = TRUE, !.lossy = TRUE]

Publish(n) ==
    sub' = [s \in Subs |-> IF Receives(s) THEN Sent(sub[s], n) ELSE sub[s]]

-----------------------------------------------------------------------------
\* Wants of the lab's metrics

\* want_metrics: the lab's collector, started if there is none; a thread
\* that cannot be started leaves an entry all the same.
Want(h) ==
    /\ \/ /\ collector.wants # {}
          /\ collector' = [collector EXCEPT !.wants = @ \cup {h}]
          /\ UNCHANGED thread
       \/ /\ collector.wants = {}
          /\ \E k \in Threads :
                /\ thread[k].pc = "off"
                /\ collector' = [thread |-> k, wants |-> {h}]
                /\ thread' = [thread EXCEPT ![k] = [pc |-> "top", stop |-> FALSE]]
       \/ /\ collector.wants = {}
          /\ collector' = [thread |-> Nobody, wants |-> {h}]
          /\ UNCHANGED thread
    /\ UNCHANGED latest

\* Mutant: the entry goes, its thread is not told.
DropWantQuietly(h, l) ==
    LET left == collector.wants \ {h}
        last == collector.wants # {} /\ left = {}
    IN  /\ collector' = IF last THEN NoCollector ELSE [collector EXCEPT !.wants = left]
        /\ latest' = (l /\ ~last)
        /\ UNCHANGED thread

\* Want::drop: the last one stops the thread, forgets the entry and the
\* latest snapshot, which is l otherwise.
DropWant(h, l) ==
    LET left == collector.wants \ {h}
        last == collector.wants # {} /\ left = {}
    IN  /\ collector' = IF last THEN NoCollector ELSE [collector EXCEPT !.wants = left]
        /\ latest' = (l /\ ~last)
        /\ thread' = [k \in Threads |->
                        IF last /\ k = collector.thread THEN [thread[k] EXCEPT !.stop = TRUE]
                        ELSE thread[k]]

-----------------------------------------------------------------------------
\* The registry: Hub::run and Hub::update

\* scan reads the state root on another thread; when the labs cannot be
\* listed, it has none.
Scan ==
    /\ pass.pc = "idle"
    /\ \E seen \in {disk, Gone} : pass' = [pc |-> "scanned", old |-> labs, new |-> seen]
    /\ UNCHANGED <<state, labs, telemetry, metrics, sub>>

\* The scan becomes the registry.
Take ==
    /\ pass.pc = "scanned"
    /\ labs' = pass.new
    /\ pass' = [pass EXCEPT !.pc = "taken"]
    /\ sub' = [s \in Subs |-> IF Receives(s) /\ pass.new # Gone
                              THEN [sub[s] EXCEPT !.seen = TRUE] ELSE sub[s]]
    /\ UNCHANGED <<state, telemetry, metrics>>

\* What there was of a lab that went goes; the telemetry wants the
\* metrics of a lab that is there.
Settle ==
    /\ pass.pc = "taken"
    /\ CASE pass.old # Gone /\ labs = Gone ->
                telemetry' = FALSE /\ DropWant(Telemetry, FALSE)
         [] CollectAll /\ labs # Gone /\ ~telemetry ->
                telemetry' = TRUE /\ Want(Telemetry)
         [] OTHER -> UNCHANGED <<telemetry, metrics>>
    /\ pass' = [pass EXCEPT !.pc = "settled"]
    /\ UNCHANGED <<state, labs, sub>>

\* Mutant: labs are compared by their names.
ChangedByName(old, new) == (old = Gone) # (new = Gone)

\* Added, updated or removed.
Changed(old, new) == old # new

\* A scan that changed nothing says nothing.
Quiet ==
    /\ pass.pc = "settled" /\ ~Changed(pass.old, pass.new)
    /\ pass' = NoPass
    /\ UNCHANGED <<state, labs, telemetry, metrics, sub>>

\* LabsChanged: one note for all that a scan changed.
AnnounceLabs ==
    /\ pass.pc = "settled" /\ Changed(pass.old, pass.new)
    /\ Publish(Note("labs", pass.new))
    /\ pass' = IF pass.old # Gone /\ pass.new # Gone
               THEN [pass EXCEPT !.pc = "moved"] ELSE NoPass
    /\ UNCHANGED <<state, labs, telemetry, metrics>>

\* TopologyChanged: the lab stayed, at another revision.
AnnounceTopology ==
    /\ pass.pc = "moved"
    /\ Publish(Note("topology", Gone))
    /\ pass' = NoPass
    /\ UNCHANGED <<state, labs, telemetry, metrics>>

-----------------------------------------------------------------------------
\* A collector's thread

SetThread(k, pc) == thread' = [thread EXCEPT ![k] = [thread[k] EXCEPT !.pc = pc]]

\* The lab is loaded again each time; a lab that is gone ends the thread,
\* and its entry stays.
Load(k) ==
    /\ thread[k].pc = "top" /\ ~thread[k].stop
    /\ SetThread(k, IF disk = Gone THEN "off" ELSE "loaded")
    /\ UNCHANGED <<state, registry, latest, collector, sub>>

SnapshotFails(k) ==
    /\ thread[k].pc = "loaded"
    /\ SetThread(k, "top")
    /\ UNCHANGED <<state, registry, latest, collector, sub>>

Snapshot(k) ==
    /\ thread[k].pc = "loaded"
    /\ latest' = TRUE
    /\ Publish(Note("metrics", Gone))
    /\ SetThread(k, "top")
    /\ UNCHANGED <<state, registry, collector>>

Stop(k) ==
    /\ thread[k].pc = "top" /\ thread[k].stop
    /\ SetThread(k, "off")
    /\ UNCHANGED <<state, registry, latest, collector, sub>>

-----------------------------------------------------------------------------
\* Hub::subscribe

SetSub(s, r) == sub' = [sub EXCEPT ![s] = r]

\* A lab that does not exist is NotFound; the host always does.
Check(s, scope) ==
    /\ sub[s].pc = "idle"
    /\ scope = "lab" => disk # Gone
    /\ SetSub(s, [sub[s] EXCEPT !.pc = "checked", !.scope = scope])
    /\ UNCHANGED <<state, registry, metrics>>

\* tx.subscribe: notes are kept for it from here on.
Attach(s) ==
    /\ sub[s].pc = "checked"
    /\ SetSub(s, [sub[s] EXCEPT !.pc = "attached", !.seen = (labs # Gone)])
    /\ UNCHANGED <<state, registry, metrics>>

TakeWant(s) ==
    /\ sub[s].pc = "attached"
    /\ IF sub[s].scope = "lab" THEN Want(s) ELSE UNCHANGED metrics
    /\ SetSub(s, [sub[s] EXCEPT !.pc = "wanted"])
    /\ UNCHANGED <<state, registry>>

\* The first items: the labs there are, and the latest metrics if any.
First(s) ==
    /\ sub[s].pc = "wanted"
    /\ SetSub(s, [sub[s] EXCEPT !.pc = "follow", !.view = labs])
    /\ UNCHANGED <<state, registry, metrics>>

\* It is told how many notes it missed, and goes on.
Lagged(s) ==
    /\ sub[s].pc = "follow" /\ sub[s].lagged
    /\ SetSub(s, [sub[s] EXCEPT !.lagged = FALSE])
    /\ UNCHANGED <<state, registry, metrics>>

\* Mutant: the end of a lab is looked for in the lab's own notes.
EndsItByLab(s, n) == sub[s].scope = "lab" /\ n.topic = "topology" /\ n.rev = labs

\* The lab is gone, and with it what there was to follow.
EndsIt(s, n) == sub[s].scope = "lab" /\ n.topic = "labs" /\ n.rev = Gone

Receive(s) ==
    /\ sub[s].pc = "follow" /\ ~sub[s].lagged /\ sub[s].inbox # <<>>
    /\ LET n == Head(sub[s].inbox)
       IN  IF EndsIt(s, n)
           THEN DropWant(s, latest) /\ SetSub(s, NotSubscribed)
           ELSE /\ SetSub(s, [sub[s] EXCEPT !.inbox = Tail(sub[s].inbox),
                                            !.view = IF n.topic = "labs" THEN n.rev ELSE sub[s].view])
                /\ UNCHANGED metrics
    /\ UNCHANGED <<state, registry>>

\* The client cancels, or an item finds it gone.
Leave(s) ==
    /\ sub[s].pc \in {"wanted", "follow"}
    /\ IF sub[s].scope = "lab" THEN DropWant(s, latest) ELSE UNCHANGED metrics
    /\ SetSub(s, NotSubscribed)
    /\ UNCHANGED <<state, registry>>

-----------------------------------------------------------------------------

Registry == Scan \/ Take \/ Settle \/ Quiet \/ AnnounceLabs \/ AnnounceTopology

Collect(k) == Load(k) \/ SnapshotFails(k) \/ Snapshot(k) \/ Stop(k)

Subscribe(s) == Attach(s) \/ TakeWant(s) \/ First(s) \/ Lagged(s) \/ Receive(s)

Next ==
    \/ Change \/ Destroy \/ Registry
    \/ \E k \in Threads : Collect(k)
    \/ \E s \in Subs : Check(s, "host") \/ Check(s, "lab") \/ Subscribe(s) \/ Leave(s)

Spec == Init /\ [][Next]_vars

\* The registry scans for ever, threads and the tasks of calls run.
FairSpec ==
    /\ Spec
    /\ WF_vars(Registry)
    /\ \A k \in Threads : WF_vars(Collect(k))
    /\ \A s \in Subs : WF_vars(Subscribe(s))

-----------------------------------------------------------------------------
\* Properties

Revisions == 0..MaxChanges
Notes == [topic : {"labs", "topology", "metrics"}, rev : Revisions]
Followers ==
    [pc : {"idle", "checked", "attached", "wanted", "follow"}, scope : {"host", "lab"}, inbox : Seq(Notes),
     lagged : BOOLEAN, view : Revisions, lossy : BOOLEAN, seen : BOOLEAN]

\* Every variable has its type, and an inbox is never over the capacity.
TypeOK ==
    /\ disk \in Revisions /\ changes \in Revisions /\ labs \in Revisions
    /\ pass \in [pc : {"idle", "scanned", "taken", "settled", "moved"}, old : Revisions, new : Revisions]
    /\ latest \in BOOLEAN /\ telemetry \in BOOLEAN
    /\ collector \in [thread : Threads \cup {Nobody}, wants : SUBSET (Subs \cup {Telemetry})]
    /\ thread \in [Threads -> [pc : {"off", "top", "loaded"}, stop : BOOLEAN]]
    /\ sub \in [Subs -> Followers]
    /\ \A s \in Subs : Len(sub[s].inbox) <= Cap

\* The last labs note of inbox q, if any, says revision r.
LastSays(q, r) ==
    \A i \in 1..Len(q) :
        q[i].topic = "labs" /\ (\A j \in (i + 1)..Len(q) : q[j].topic # "labs") => q[i].rev = r

NoLabsNote(q) == \A i \in 1..Len(q) : q[i].topic # "labs"

\* Once its inbox is empty, the client will have been shown revision r.
WillShow(s, r) ==
    LastSays(sub[s].inbox, r) /\ (NoLabsNote(sub[s].inbox) => sub[s].view = r)

\* Nothing falls between the first state of a subscription and its
\* notes: one that lost no note shows the registry, but for what the
\* registry is about to announce.
FollowerIsCurrent ==
    \A s \in Subs :
        sub[s].pc = "follow" /\ ~sub[s].lossy /\ pass.pc \in {"idle", "scanned", "moved"}
            => WillShow(s, labs)

\* A collector that was not told to stop is the lab's, is the only one,
\* and is wanted, by the subscriptions that follow and the telemetry and
\* by nobody who left.
CollectorIsWanted ==
    /\ TypeOK
    /\ collector.wants = {s \in Subs : sub[s].scope = "lab" /\ sub[s].pc \in {"wanted", "follow"}}
                         \cup (IF telemetry THEN {Telemetry} ELSE {})
    /\ \A k \in Threads :
        thread[k].pc # "off" /\ ~thread[k].stop => collector.wants # {} /\ collector.thread = k

\* A subscription to a lab that left the registry ends, whatever scans,
\* metrics and redeploys come between; but for one that the channel dropped a
\* note of: it is told that it lagged and does not look at the labs again, so
\* it may stay though the lab is gone for good (docs/API.md says that it ends).
SubscriptionEnds ==
    \A s \in Subs :
        []<>~(sub[s].pc = "follow" /\ sub[s].scope = "lab" /\ sub[s].seen /\ ~sub[s].lossy /\ labs = Gone)

-----------------------------------------------------------------------------
\* The inductive invariant

\* What the registry last announced: the labs, but for a scan on its way.
Announced == IF pass.pc \in {"taken", "settled"} THEN pass.old ELSE labs

\* A scan is of the registry as it was, and then is the registry.
PassFits ==
    /\ pass.pc = "scanned" => pass.old = labs
    /\ pass.pc \in {"taken", "settled", "moved"} => pass.new = labs

\* A receiver that lost no note has what was announced as its last labs
\* note; without one, its view is that, or what is about to be.
HasTheNews(s) ==
    /\ ~Receives(s) => sub[s].inbox = <<>>
    /\ ~sub[s].lossy =>
        /\ LastSays(sub[s].inbox, Announced)
        /\ sub[s].pc = "follow" /\ NoLabsNote(sub[s].inbox) => sub[s].view \in {Announced, labs}

IInv == CollectorIsWanted /\ PassFits /\ \A s \in Subs : HasTheNews(s)
=============================================================================
