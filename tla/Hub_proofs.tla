----------------------------- MODULE Hub_proofs -----------------------------
(***************************************************************************)
(* Hub for any subscriptions, collector threads, channel capacity and      *)
(* number of changes: the inductive invariant IInv, that a subscription    *)
(* that lost no note shows the registry, and that a collector runs only    *)
(* while somebody wants it.                                                *)
(***************************************************************************)
EXTENDS Hub, TLAPS

-----------------------------------------------------------------------------
\* An inbox as a sequence of notes

\* A note at the end: a labs note says the news, another changes none.
LEMMA NoteAppended ==
    ASSUME NEW q \in Seq(Notes), NEW n \in Notes, NEW r
    PROVE  /\ Append(q, n) \in Seq(Notes) /\ Len(Append(q, n)) = Len(q) + 1
           /\ n.topic = "labs" => LastSays(Append(q, n), n.rev) /\ ~NoLabsNote(Append(q, n))
           /\ n.topic # "labs" /\ LastSays(q, r) => LastSays(Append(q, n), r)
           /\ n.topic # "labs" /\ NoLabsNote(Append(q, n)) => NoLabsNote(q)
<1>1. PICK l \in Nat : l = Len(q)
  OBVIOUS
<1>2. PICK p \in Seq(Notes) : p = Append(q, n)
  <2>1. Append(q, n) \in Seq(Notes)
    OBVIOUS
  <2>2. QED
    BY <2>1, Zenon
<1>3. /\ Len(p) = l + 1 /\ p[l + 1] = n /\ \A i \in 1..l : p[i] = q[i]
  BY <1>1, <1>2
<1>4. ASSUME n.topic = "labs" PROVE LastSays(p, n.rev) /\ ~NoLabsNote(p)
  <2>1. ASSUME NEW i \in 1..(l + 1), \A j \in (i + 1)..(l + 1) : p[j].topic # "labs"
        PROVE  p[i].rev = n.rev
    <3>1. i = l + 1 \/ l + 1 \in (i + 1)..(l + 1)
      OBVIOUS
    <3>2. QED
      BY <1>3, <1>4, <2>1, <3>1
  <2>2. l + 1 \in 1..(l + 1)
    OBVIOUS
  <2>3. QED
    BY <1>3, <1>4, <2>1, <2>2 DEF LastSays, NoLabsNote
<1>5. ASSUME n.topic # "labs", LastSays(q, r) PROVE LastSays(p, r)
  <2>1. SUFFICES ASSUME NEW i \in 1..(l + 1), p[i].topic = "labs",
                        \A j \in (i + 1)..(l + 1) : p[j].topic # "labs"
                 PROVE  p[i].rev = r
    BY <1>3 DEF LastSays
  <2>2. i \in 1..l /\ p[i] = q[i]
    <3>1. i # l + 1
      BY <1>3, <1>5, <2>1
    <3>2. i \in 1..l
      BY <3>1
    <3>3. QED
      BY <1>3, <3>2
  <2>3. \A j \in (i + 1)..l : q[j].topic # "labs"
    <3>1. SUFFICES ASSUME NEW j \in (i + 1)..l PROVE q[j].topic # "labs"
      OBVIOUS
    <3>2. j \in (i + 1)..(l + 1) /\ j \in 1..l
      OBVIOUS
    <3>3. QED
      BY <1>3, <2>1, <3>2
  <2>4. QED
    BY <1>1, <1>5, <2>1, <2>2, <2>3 DEF LastSays
<1>6. ASSUME n.topic # "labs", NoLabsNote(p) PROVE NoLabsNote(q)
  <2>1. \A i \in 1..l : i \in 1..(l + 1)
    OBVIOUS
  <2>2. QED
    BY <1>1, <1>3, <1>6, <2>1 DEF NoLabsNote
<1>7. QED
  BY <1>1, <1>2, <1>3, <1>4, <1>5, <1>6

\* The first note is taken: it is the news when no labs note is behind it.
LEMMA NoteTaken ==
    ASSUME NEW q \in Seq(Notes), q # <<>>, NEW r
    PROVE  /\ Tail(q) \in Seq(Notes) /\ Len(Tail(q)) = Len(q) - 1 /\ Head(q) \in Notes
           /\ LastSays(q, r) => LastSays(Tail(q), r)
           /\ LastSays(q, r) /\ NoLabsNote(Tail(q)) /\ Head(q).topic = "labs" => Head(q).rev = r
           /\ NoLabsNote(Tail(q)) /\ Head(q).topic # "labs" => NoLabsNote(q)
<1>1. PICK l \in Nat : l + 1 = Len(q)
  <2>1. Len(q) \in Nat /\ Len(q) # 0
    OBVIOUS
  <2>2. Len(q) - 1 \in Nat /\ (Len(q) - 1) + 1 = Len(q)
    BY <2>1
  <2>3. QED
    BY <2>2
<1>2. PICK p \in Seq(Notes) : p = Tail(q)
  <2>1. Tail(q) \in Seq(Notes)
    OBVIOUS
  <2>2. QED
    BY <2>1, Zenon
<1>3. Len(p) = l /\ Head(q) = q[1] /\ q[1] \in Notes /\ \A i \in 1..l : p[i] = q[i + 1]
  BY <1>1, <1>2
<1>4. ASSUME LastSays(q, r) PROVE LastSays(p, r)
  <2>1. SUFFICES ASSUME NEW i \in 1..l, p[i].topic = "labs", \A j \in (i + 1)..l : p[j].topic # "labs"
                 PROVE  p[i].rev = r
    BY <1>3 DEF LastSays
  <2>2. i + 1 \in 1..(l + 1) /\ p[i] = q[i + 1]
    BY <1>3
  <2>3. \A j \in ((i + 1) + 1)..(l + 1) : q[j].topic # "labs"
    <3>1. SUFFICES ASSUME NEW j \in ((i + 1) + 1)..(l + 1) PROVE q[j].topic # "labs"
      OBVIOUS
    <3>2. j - 1 \in (i + 1)..l /\ j - 1 \in 1..l /\ (j - 1) + 1 = j
      OBVIOUS
    <3>3. QED
      BY <1>3, <2>1, <3>2
  <2>4. QED
    BY <1>1, <1>4, <2>1, <2>2, <2>3 DEF LastSays
<1>5. ASSUME NoLabsNote(p) PROVE \A j \in (1 + 1)..(l + 1) : q[j].topic # "labs"
  <2>1. SUFFICES ASSUME NEW j \in (1 + 1)..(l + 1) PROVE q[j].topic # "labs"
    OBVIOUS
  <2>2. j - 1 \in 1..l /\ (j - 1) + 1 = j
    OBVIOUS
  <2>3. QED
    BY <1>3, <1>5, <2>2 DEF NoLabsNote
<1>6. 1 \in 1..(l + 1)
  OBVIOUS
<1>7. ASSUME LastSays(q, r), NoLabsNote(p), q[1].topic = "labs" PROVE q[1].rev = r
  BY <1>1, <1>5, <1>6, <1>7 DEF LastSays
<1>8. ASSUME NoLabsNote(p), q[1].topic # "labs" PROVE NoLabsNote(q)
  <2>1. \A i \in 1..(l + 1) : i = 1 \/ i \in (1 + 1)..(l + 1)
    OBVIOUS
  <2>2. QED
    BY <1>1, <1>5, <1>8, <2>1 DEF NoLabsNote
<1>9. Len(Tail(q)) = Len(q) - 1
  BY <1>1, <1>2, <1>3
<1>10. QED
  BY <1>1, <1>2, <1>3, <1>4, <1>7, <1>8, <1>9

\* An empty inbox says nothing.
LEMMA NothingSaid ==
    ASSUME NEW r
    PROVE  <<>> \in Seq(Notes) /\ Len(<<>>) = 0 /\ LastSays(<<>>, r) /\ NoLabsNote(<<>>)
<1>1. <<>> \in Seq(Notes) /\ Len(<<>>) = 0
  OBVIOUS
<1>2. \A i \in 1..0 : FALSE
  OBVIOUS
<1>3. QED
  BY <1>1, <1>2 DEF LastSays, NoLabsNote

-----------------------------------------------------------------------------
\* The invariant by its parts, and a follower on its own

\* The disk, the registry and its scan have their types.
RegistryTyped ==
    /\ disk \in Revisions /\ changes \in Revisions /\ labs \in Revisions /\ telemetry \in BOOLEAN
    /\ pass \in [pc : {"idle", "scanned", "taken", "settled", "moved"}, old : Revisions, new : Revisions]

\* The collector and its threads have theirs, and a thread that goes on is wanted.
MetricsFit ==
    /\ latest \in BOOLEAN
    /\ collector \in [thread : Threads \cup {Nobody}, wants : SUBSET (Subs \cup {Telemetry})]
    /\ thread \in [Threads -> [pc : {"off", "top", "loaded"}, stop : BOOLEAN]]
    /\ \A k \in Threads :
        thread[k].pc # "off" /\ ~thread[k].stop => collector.wants # {} /\ collector.thread = k

\* Follower f, when a was announced and the registry has lab.
WellFed(f, a, lab) ==
    /\ f \in Followers /\ Len(f.inbox) <= Cap
    /\ f.pc \in {"idle", "checked"} => f.inbox = <<>>
    /\ ~f.lossy =>
        /\ LastSays(f.inbox, a)
        /\ f.pc = "follow" /\ NoLabsNote(f.inbox) => f.view \in {a, lab}

\* A follower that wants the lab's metrics.
Wants(f) == f.scope = "lab" /\ f.pc \in {"wanted", "follow"}

WantsFit ==
    collector.wants = {s \in Subs : Wants(sub[s])} \cup (IF telemetry THEN {Telemetry} ELSE {})

SubsFit == sub \in [Subs -> Followers] /\ \A s \in Subs : WellFed(sub[s], Announced, labs)

\* The parts are the whole.
LEMMA Parts == IInv <=> RegistryTyped /\ MetricsFit /\ WantsFit /\ PassFits /\ SubsFit
<1>1. \A s \in Subs : Receives(s) <=> sub[s].pc \notin {"idle", "checked"}
  BY DEF Receives
<1>2. ASSUME sub \in [Subs -> Followers], NEW s \in Subs, Len(sub[s].inbox) <= Cap
      PROVE  WellFed(sub[s], Announced, labs) <=> HasTheNews(s)
  <2>1. PICK f \in Followers : f = sub[s]
    BY <1>2
  <2>2. QED
    BY <1>1, <1>2, <2>1 DEF WellFed, HasTheNews
<1>3. IInv => SubsFit
  BY <1>2 DEF IInv, CollectorIsWanted, TypeOK, SubsFit
<1>4. SubsFit => (\A s \in Subs : HasTheNews(s)) /\ \A s \in Subs : Len(sub[s].inbox) <= Cap
  <2>1. SubsFit => \A s \in Subs : Len(sub[s].inbox) <= Cap
    BY DEF SubsFit, WellFed
  <2>2. QED
    BY <1>2, <2>1 DEF SubsFit
<1>5. IInv => RegistryTyped /\ MetricsFit /\ WantsFit /\ PassFits
  BY DEF IInv, CollectorIsWanted, TypeOK, RegistryTyped, MetricsFit, WantsFit, Wants
<1>6. RegistryTyped /\ MetricsFit /\ WantsFit /\ PassFits /\ SubsFit => IInv
  BY <1>4 DEF IInv, CollectorIsWanted, TypeOK, RegistryTyped, MetricsFit, WantsFit, Wants, SubsFit
<1>7. QED
  BY <1>3, <1>5, <1>6

\* The same of the next state.
LEMMA PartsPrime ==
    ASSUME RegistryTyped', MetricsFit', WantsFit', PassFits', SubsFit'
    PROVE  IInv'
<1>1. \A s \in Subs : Receives(s)' <=> sub'[s].pc \notin {"idle", "checked"}
  BY DEF Receives
<1>2. ASSUME NEW s \in Subs PROVE HasTheNews(s)' /\ Len(sub'[s].inbox) <= Cap
  BY <1>1, <1>2 DEF SubsFit, WellFed, HasTheNews
<1>3. QED
  BY <1>2 DEF IInv, CollectorIsWanted, TypeOK, RegistryTyped, MetricsFit, WantsFit, Wants, SubsFit

-----------------------------------------------------------------------------
\* Wants

\* want_metrics adds its want, and a thread it starts is the only one.
LEMMA WantDoes ==
    ASSUME MetricsFit, NEW h \in Subs \cup {Telemetry}, Want(h)
    PROVE  MetricsFit' /\ collector'.wants = collector.wants \cup {h}
<1>1. PICK c \in [thread : Threads \cup {Nobody}, wants : SUBSET (Subs \cup {Telemetry})] : c = collector
  BY DEF MetricsFit
<1>2. latest' = latest
  BY DEF Want
<1>3. CASE /\ collector.wants # {}
           /\ collector' = [collector EXCEPT !.wants = collector.wants \cup {h}]
           /\ UNCHANGED thread
  BY <1>1, <1>2, <1>3 DEF MetricsFit
<1>4. CASE /\ collector.wants = {}
           /\ \E k \in Threads :
                 /\ thread[k].pc = "off"
                 /\ collector' = [thread |-> k, wants |-> {h}]
                 /\ thread' = [thread EXCEPT ![k] = [pc |-> "top", stop |-> FALSE]]
  <2>1. PICK k \in Threads : /\ thread[k].pc = "off"
                             /\ collector' = [thread |-> k, wants |-> {h}]
                             /\ thread' = [thread EXCEPT ![k] = [pc |-> "top", stop |-> FALSE]]
    BY <1>4
  <2>2. \A i \in Threads \ {k} : thread'[i] = thread[i] /\ (thread[i].pc = "off" \/ thread[i].stop)
    BY <1>4, <2>1 DEF MetricsFit
  <2>3. thread' \in [Threads -> [pc : {"off", "top", "loaded"}, stop : BOOLEAN]]
    BY <2>1 DEF MetricsFit
  <2>4. collector'.thread = k /\ collector'.wants = {h}
        /\ collector' \in [thread : Threads \cup {Nobody}, wants : SUBSET (Subs \cup {Telemetry})]
    BY <2>1
  <2>5. QED
    BY <1>2, <1>4, <2>2, <2>3, <2>4 DEF MetricsFit
<1>5. CASE /\ collector.wants = {}
           /\ collector' = [thread |-> Nobody, wants |-> {h}]
           /\ UNCHANGED thread
  BY <1>2, <1>5 DEF MetricsFit
<1>6. QED
  BY <1>3, <1>4, <1>5 DEF Want

\* Want::drop takes its want, and the last one stops the thread.
LEMMA DropWantDoes ==
    ASSUME MetricsFit, NEW h \in Subs \cup {Telemetry}, NEW l \in BOOLEAN, DropWant(h, l)
    PROVE  MetricsFit' /\ collector'.wants = collector.wants \ {h}
<1>1. PICK c \in [thread : Threads \cup {Nobody}, wants : SUBSET (Subs \cup {Telemetry})] : c = collector
  BY DEF MetricsFit
<1>2. PICK last \in BOOLEAN : last = (collector.wants # {} /\ collector.wants \ {h} = {})
  OBVIOUS
<1>3. /\ collector' = IF last THEN NoCollector ELSE [collector EXCEPT !.wants = collector.wants \ {h}]
      /\ latest' = (l /\ ~last)
      /\ thread' = [k \in Threads |->
                      IF last /\ k = collector.thread THEN [thread[k] EXCEPT !.stop = TRUE] ELSE thread[k]]
  BY <1>2 DEF DropWant
<1>4. latest' \in BOOLEAN
  BY <1>3
<1>5. /\ collector' \in [thread : Threads \cup {Nobody}, wants : SUBSET (Subs \cup {Telemetry})]
      /\ collector'.wants = collector.wants \ {h}
      /\ ~last => collector'.thread = collector.thread
  BY <1>1, <1>2, <1>3 DEF NoCollector
<1>6. ASSUME NEW k \in Threads
      PROVE  /\ thread'[k] \in [pc : {"off", "top", "loaded"}, stop : BOOLEAN]
             /\ thread'[k].pc # "off" /\ ~thread'[k].stop => collector'.wants # {} /\ collector'.thread = k
  <2>1. PICK x \in [pc : {"off", "top", "loaded"}, stop : BOOLEAN] : x = thread[k]
    BY DEF MetricsFit
  <2>2. CASE last /\ k = collector.thread
    BY <1>3, <2>1, <2>2
  <2>3. CASE ~(last /\ k = collector.thread)
    BY <1>2, <1>3, <1>5, <2>1, <2>3 DEF MetricsFit
  <2>4. QED
    BY <2>2, <2>3
<1>7. thread' \in [Threads -> [pc : {"off", "top", "loaded"}, stop : BOOLEAN]]
  BY <1>3, <1>6
<1>8. QED
  BY <1>4, <1>5, <1>6, <1>7 DEF MetricsFit

\* A thread that moves, and is started by nobody.
LEMMA ThreadMoves ==
    ASSUME MetricsFit, NEW k \in Threads, NEW p \in {"off", "top", "loaded"}, SetThread(k, p),
           p # "off" => thread[k].pc # "off", UNCHANGED collector, latest' \in BOOLEAN
    PROVE  MetricsFit'
<1>1. PICK x \in [pc : {"off", "top", "loaded"}, stop : BOOLEAN] : x = thread[k]
  BY DEF MetricsFit
<1>2. PICK y \in [pc : {"off", "top", "loaded"}, stop : BOOLEAN] : y = [x EXCEPT !.pc = p]
  OBVIOUS
<1>3. y.pc = p /\ y.stop = x.stop
  BY <1>2
<1>4. thread' = [thread EXCEPT ![k] = y]
  BY <1>1, <1>2 DEF SetThread
<1>5. thread' \in [Threads -> [pc : {"off", "top", "loaded"}, stop : BOOLEAN]]
      /\ thread'[k] = y /\ \A i \in Threads \ {k} : thread'[i] = thread[i]
  BY <1>4 DEF MetricsFit
<1>6. QED
  BY <1>1, <1>3, <1>5 DEF MetricsFit

-----------------------------------------------------------------------------
\* Notes and followers

\* A receiver that was sent a note has it last, or knows that it lost one.
LEMMA SentFeeds ==
    ASSUME HubConstants, NEW f \in Followers, NEW n \in Notes, NEW a, NEW lab,
           WellFed(f, a, lab), f.pc \notin {"idle", "checked"}
    PROVE  /\ WellFed(Sent(f, n), IF n.topic = "labs" THEN n.rev ELSE a, lab)
           /\ Sent(f, n).pc = f.pc /\ Sent(f, n).scope = f.scope
<1>1. PICK q \in Seq(Notes) : q = f.inbox
  BY DEF Followers
<1>2. PICK l \in Nat : l = Len(q)
  OBVIOUS
<1>3. l <= Cap /\ Cap \in Nat \ {0}
  BY <1>1, <1>2 DEF WellFed, HubConstants
<1>4. CASE l < Cap
  <2>1. PICK p \in Seq(Notes) : p = Append(q, n)
    BY NoteAppended, Zenon
  <2>2. Len(p) = l + 1
    BY <1>2, <2>1, NoteAppended
  <2>3. PICK g : g = [f EXCEPT !.inbox = p]
    OBVIOUS
  <2>4. /\ g \in Followers /\ g.inbox = p /\ g.pc = f.pc /\ g.scope = f.scope
        /\ g.lossy = f.lossy /\ g.view = f.view
    BY <2>3 DEF Followers
  <2>5. Sent(f, n) = g
    BY <1>1, <1>2, <1>4, <2>1, <2>3 DEF Sent
  <2>6. Len(p) <= Cap
    BY <1>3, <1>4, <2>2
  <2>7. CASE n.topic = "labs"
    <3>1. LastSays(p, n.rev) /\ ~NoLabsNote(p)
      BY <2>1, <2>7, NoteAppended
    <3>2. WellFed(g, n.rev, lab)
      BY <2>4, <2>6, <3>1 DEF WellFed
    <3>3. QED
      BY <2>4, <2>5, <2>7, <3>2
  <2>8. CASE n.topic # "labs"
    <3>1. (LastSays(q, a) => LastSays(p, a)) /\ (NoLabsNote(p) => NoLabsNote(q))
      BY <2>1, <2>8, NoteAppended
    <3>2. WellFed(g, a, lab)
      BY <1>1, <2>4, <2>6, <3>1 DEF WellFed
    <3>3. QED
      BY <2>4, <2>5, <2>8, <3>2
  <2>9. QED
    BY <2>7, <2>8
<1>5. CASE ~(l < Cap)
  <2>1. l = Cap /\ q # <<>>
    <3>1. Len(<<>>) = 0
      OBVIOUS
    <3>2. QED
      BY <1>2, <1>3, <1>5, <3>1
  <2>2. PICK t \in Seq(Notes) : t = Tail(q)
    BY <2>1, NoteTaken, Zenon
  <2>3. Len(t) = l - 1
    BY <1>2, <2>1, <2>2, NoteTaken
  <2>4. PICK p \in Seq(Notes) : p = Append(t, n)
    BY NoteAppended, Zenon
  <2>5. Len(p) = Len(t) + 1
    BY <2>4, NoteAppended
  <2>6. PICK g : g = [f EXCEPT !.inbox = p, !.lagged = TRUE, !.lossy = TRUE]
    OBVIOUS
  <2>7. g \in Followers /\ g.inbox = p /\ g.pc = f.pc /\ g.scope = f.scope /\ g.lossy = TRUE
    BY <2>6 DEF Followers
  <2>8. Sent(f, n) = g
    BY <1>1, <1>2, <1>5, <2>2, <2>4, <2>6 DEF Sent
  <2>9. Len(p) <= Cap
    BY <1>2, <1>3, <2>1, <2>3, <2>5
  <2>10. QED
    BY <2>7, <2>8, <2>9 DEF WellFed
<1>6. QED
  BY <1>4, <1>5

\* A note that is published: the receivers have the news, and want what they wanted.
LEMMA PublishDoes ==
    ASSUME HubConstants, SubsFit, WantsFit, NEW n \in Notes, Publish(n), UNCHANGED <<labs, telemetry, collector>>,
           Announced' = IF n.topic = "labs" THEN n.rev ELSE Announced
    PROVE  SubsFit' /\ WantsFit'
<1>1. ASSUME NEW s \in Subs
      PROVE  /\ WellFed(sub'[s], Announced', labs) /\ (Wants(sub'[s]) <=> Wants(sub[s]))
             /\ sub'[s] \in Followers
  <2>1. PICK f \in Followers : f = sub[s]
    BY DEF SubsFit
  <2>2. WellFed(f, Announced, labs)
    BY <2>1 DEF SubsFit
  <2>3. CASE f.pc \in {"idle", "checked"}
    <3>1. sub'[s] = f
      BY <2>1, <2>3 DEF Publish, Receives
    <3>2. f.inbox = <<>> /\ f.pc # "follow"
      BY <2>2, <2>3 DEF WellFed
    <3>3. WellFed(f, Announced', labs)
      BY <2>2, <3>2, NothingSaid DEF WellFed
    <3>4. QED
      BY <2>1, <3>1, <3>3
  <2>4. CASE f.pc \notin {"idle", "checked"}
    <3>1. sub'[s] = Sent(f, n)
      BY <2>1, <2>4 DEF Publish, Receives
    <3>2. /\ WellFed(Sent(f, n), Announced', labs) /\ Sent(f, n).pc = f.pc /\ Sent(f, n).scope = f.scope
      BY <2>2, <2>4, SentFeeds
    <3>3. QED
      BY <2>1, <3>1, <3>2 DEF WellFed, Wants
  <2>5. QED
    BY <2>3, <2>4
<1>2. sub' \in [Subs -> Followers]
  BY <1>1 DEF Publish
<1>3. SubsFit'
  BY <1>1, <1>2 DEF SubsFit
<1>4. WantsFit'
  BY <1>1 DEF WantsFit
<1>5. QED
  BY <1>3, <1>4

\* A subscription that moves while the registry does not, and its want with it.
LEMMA SubMoves ==
    ASSUME IInv, NEW s \in Subs, NEW f \in Followers, SetSub(s, f), UNCHANGED <<state, registry>>,
           WellFed(f, Announced, labs), HubConstants, MetricsFit',
           collector'.wants = IF Wants(f) THEN collector.wants \cup {s} ELSE collector.wants \ {s}
    PROVE  IInv'
<1>1. RegistryTyped /\ MetricsFit /\ WantsFit /\ PassFits /\ SubsFit
  BY Parts
<1>2. RegistryTyped' /\ PassFits' /\ Announced' = Announced /\ labs' = labs /\ telemetry' = telemetry
  BY <1>1 DEF RegistryTyped, PassFits, Announced, state, registry
<1>3. sub' \in [Subs -> Followers] /\ sub'[s] = f /\ \A u \in Subs \ {s} : sub'[u] = sub[u]
  BY <1>1 DEF SetSub, SubsFit
<1>4. SubsFit'
  BY <1>1, <1>2, <1>3 DEF SubsFit
<1>5. WantsFit'
  <2>1. s # Telemetry
    BY DEF HubConstants
  <2>2. \A u \in Subs \ {s} : Wants(sub'[u]) <=> Wants(sub[u])
    BY <1>3
  <2>3. Wants(sub'[s]) <=> Wants(f)
    BY <1>3
  <2>4. CASE Wants(f)
    BY <1>1, <1>2, <2>1, <2>2, <2>3, <2>4 DEF WantsFit
  <2>5. CASE ~Wants(f)
    BY <1>1, <1>2, <2>1, <2>2, <2>3, <2>5 DEF WantsFit
  <2>6. QED
    BY <2>4, <2>5
<1>6. QED
  BY <1>2, <1>4, <1>5, PartsPrime

\* A subscription that moves and wants what it wanted.
LEMMA SubStays ==
    ASSUME IInv, HubConstants, NEW s \in Subs, NEW f \in Followers, SetSub(s, f),
           UNCHANGED <<state, registry, metrics>>, WellFed(f, Announced, labs), Wants(f) <=> Wants(sub[s])
    PROVE  IInv'
<1>1. MetricsFit /\ WantsFit
  BY Parts
<1>2. MetricsFit' /\ collector' = collector
  BY <1>1 DEF MetricsFit, metrics
<1>3. s \in collector.wants <=> Wants(f)
  BY <1>1 DEF WantsFit, HubConstants
<1>4. collector'.wants = IF Wants(f) THEN collector.wants \cup {s} ELSE collector.wants \ {s}
  BY <1>2, <1>3
<1>5. QED
  BY <1>2, <1>4, SubMoves DEF state, registry

-----------------------------------------------------------------------------
\* The steps

\* At first nobody follows, and nothing is wanted.
LEMMA HubInit == HubConstants /\ Init => IInv
<1>1. SUFFICES ASSUME HubConstants, Init PROVE IInv
  OBVIOUS
<1>2. RegistryTyped /\ PassFits /\ Gone \in Revisions
  <2>1. Gone \in Revisions
    BY <1>1 DEF HubConstants, Gone, Revisions
  <2>2. /\ NoPass \in [pc : {"idle", "scanned", "taken", "settled", "moved"}, old : Revisions, new : Revisions]
        /\ NoPass.pc = "idle"
    BY <2>1 DEF NoPass
  <2>3. changes = Gone
    BY <1>1 DEF Init, Gone
  <2>4. QED
    BY <1>1, <2>1, <2>2, <2>3 DEF RegistryTyped, PassFits, Init
<1>3. MetricsFit
  BY <1>1 DEF MetricsFit, Init, NoCollector
<1>4. NotSubscribed \in Followers /\ NotSubscribed.pc = "idle" /\ NotSubscribed.inbox = <<>>
  BY <1>2, NothingSaid DEF NotSubscribed, Followers
<1>5. Len(<<>>) <= Cap
  BY <1>1, NothingSaid DEF HubConstants
<1>6. \A a : WellFed(NotSubscribed, a, labs)
  BY <1>4, <1>5, NothingSaid DEF WellFed
<1>7. SubsFit
  BY <1>1, <1>4, <1>6 DEF SubsFit, Init
<1>8. WantsFit
  BY <1>1, <1>4 DEF WantsFit, Wants, Init, NoCollector
<1>9. QED
  BY <1>2, <1>3, <1>7, <1>8, Parts

\* A follower that is not subscribed is well fed whatever was announced.
LEMMA Unsubscribed ==
    ASSUME HubConstants, NEW a, NEW lab
    PROVE  NotSubscribed \in Followers /\ WellFed(NotSubscribed, a, lab) /\ ~Wants(NotSubscribed)
<1>1. Gone \in Revisions
  BY DEF HubConstants, Gone, Revisions
<1>2. /\ NotSubscribed \in Followers /\ NotSubscribed.pc = "idle" /\ NotSubscribed.scope = "host"
      /\ NotSubscribed.inbox = <<>>
  BY <1>1, NothingSaid DEF NotSubscribed, Followers
<1>3. Len(<<>>) <= Cap
  BY NothingSaid DEF HubConstants
<1>4. QED
  BY <1>2, <1>3, NothingSaid DEF WellFed, Wants

\* The state root changes: the hub does not know.
LEMMA DiskIInv == IInv /\ HubConstants /\ (Change \/ Destroy) => IInv'
<1>1. SUFFICES ASSUME IInv, HubConstants, Change \/ Destroy PROVE IInv'
  OBVIOUS
<1>2. RegistryTyped /\ MetricsFit /\ WantsFit /\ PassFits /\ SubsFit
  BY <1>1, Parts
<1>3. UNCHANGED <<labs, pass, telemetry, latest, collector, thread, sub>>
  BY <1>1 DEF Change, Destroy, registry, metrics
<1>4. RegistryTyped'
  BY <1>1, <1>2, <1>3 DEF RegistryTyped, Change, Destroy, Revisions, HubConstants, Gone, state
<1>5. MetricsFit' /\ WantsFit' /\ PassFits' /\ SubsFit'
  BY <1>2, <1>3 DEF MetricsFit, WantsFit, PassFits, SubsFit, Announced
<1>6. QED
  BY <1>4, <1>5, PartsPrime

\* A step of the registry that only moves its scan along.
LEMMA PassMoves ==
    ASSUME IInv, NEW p \in [pc : {"idle", "scanned", "taken", "settled", "moved"}, old : Revisions, new : Revisions],
           pass' = p, UNCHANGED <<disk, changes, labs, telemetry, latest, collector, thread, sub>>,
           Announced' = Announced, PassFits'
    PROVE  IInv'
<1>1. RegistryTyped /\ MetricsFit /\ WantsFit /\ SubsFit
  BY Parts
<1>2. RegistryTyped' /\ MetricsFit' /\ WantsFit' /\ SubsFit'
  BY <1>1 DEF RegistryTyped, MetricsFit, WantsFit, SubsFit
<1>3. QED
  BY <1>2, PartsPrime

\* A scan is of the registry as it is.
LEMMA ScanIInv == IInv /\ HubConstants /\ Scan => IInv'
<1>1. SUFFICES ASSUME IInv, HubConstants, Scan PROVE IInv'
  OBVIOUS
<1>2. RegistryTyped /\ PassFits
  BY <1>1, Parts
<1>3. PICK seen \in {disk, Gone} : pass' = [pc |-> "scanned", old |-> labs, new |-> seen]
  BY <1>1 DEF Scan
<1>4. seen \in Revisions
  BY <1>1, <1>2, <1>3 DEF RegistryTyped, Gone, Revisions, HubConstants
<1>5. PICK p : p = [pc |-> "scanned", old |-> labs, new |-> seen]
  OBVIOUS
<1>6. /\ p \in [pc : {"idle", "scanned", "taken", "settled", "moved"}, old : Revisions, new : Revisions]
      /\ p.pc = "scanned" /\ p.old = labs /\ pass' = p
  BY <1>2, <1>3, <1>4, <1>5 DEF RegistryTyped
<1>7. UNCHANGED <<disk, changes, labs, telemetry, latest, collector, thread, sub>> /\ pass.pc = "idle"
  BY <1>1 DEF Scan, state, metrics
<1>8. Announced' = Announced /\ PassFits'
  BY <1>6, <1>7 DEF Announced, PassFits
<1>9. QED
  BY <1>1, <1>6, <1>7, <1>8, PassMoves

\* The scan becomes the registry: what was announced is what it was before.
LEMMA TakeIInv == IInv /\ HubConstants /\ Take => IInv'
<1>1. SUFFICES ASSUME IInv, HubConstants, Take PROVE IInv'
  OBVIOUS
<1>2. RegistryTyped /\ MetricsFit /\ WantsFit /\ PassFits /\ SubsFit
  BY <1>1, Parts
<1>3. PICK p \in [pc : {"idle", "scanned", "taken", "settled", "moved"}, old : Revisions, new : Revisions] : p = pass
  BY <1>2 DEF RegistryTyped
<1>4. PICK r : r = [p EXCEPT !.pc = "taken"]
  OBVIOUS
<1>5. /\ r \in [pc : {"idle", "scanned", "taken", "settled", "moved"}, old : Revisions, new : Revisions]
      /\ r.pc = "taken" /\ r.old = p.old /\ r.new = p.new
  BY <1>4
<1>6. /\ pass' = r /\ labs' = p.new /\ p.pc = "scanned" /\ p.old = labs
      /\ UNCHANGED <<disk, changes, telemetry, latest, collector, thread>>
  BY <1>1, <1>2, <1>3, <1>4 DEF Take, PassFits, state, metrics
<1>7. RegistryTyped' /\ MetricsFit'
  BY <1>2, <1>5, <1>6 DEF RegistryTyped, MetricsFit
<1>8. PassFits' /\ Announced' = labs /\ Announced = labs
  BY <1>3, <1>5, <1>6 DEF PassFits, Announced
<1>9. ASSUME NEW s \in Subs
      PROVE  WellFed(sub'[s], labs, labs') /\ (Wants(sub'[s]) <=> Wants(sub[s])) /\ sub'[s] \in Followers
  <2>1. PICK f \in Followers : f = sub[s]
    BY <1>2 DEF SubsFit
  <2>2. WellFed(f, labs, labs)
    BY <1>2, <1>8, <2>1 DEF SubsFit
  <2>3. PICK g : g = [f EXCEPT !.seen = TRUE]
    OBVIOUS
  <2>4. /\ g \in Followers /\ g.inbox = f.inbox /\ g.pc = f.pc /\ g.scope = f.scope
        /\ g.lossy = f.lossy /\ g.view = f.view
    BY <2>3 DEF Followers
  <2>5. sub'[s] \in {f, g}
    BY <1>1, <2>1, <2>3 DEF Take
  <2>6. WellFed(f, labs, labs') /\ WellFed(g, labs, labs')
    BY <2>2, <2>4 DEF WellFed
  <2>7. Wants(g) <=> Wants(f)
    BY <2>4 DEF Wants
  <2>8. QED
    BY <2>1, <2>4, <2>5, <2>6, <2>7
<1>10. sub' \in [Subs -> Followers]
  BY <1>1, <1>9 DEF Take
<1>11. SubsFit'
  BY <1>8, <1>9, <1>10 DEF SubsFit
<1>12. WantsFit'
  BY <1>2, <1>6, <1>9 DEF WantsFit
<1>13. QED
  BY <1>7, <1>8, <1>11, <1>12, PartsPrime

\* A lab that went is not wanted for the telemetry, one that is there is.
LEMMA SettleIInv == IInv /\ HubConstants /\ Settle => IInv'
<1>1. SUFFICES ASSUME IInv, HubConstants, Settle PROVE IInv'
  OBVIOUS
<1>2. RegistryTyped /\ MetricsFit /\ WantsFit /\ PassFits /\ SubsFit
  BY <1>1, Parts
<1>3. PICK p \in [pc : {"idle", "scanned", "taken", "settled", "moved"}, old : Revisions, new : Revisions] : p = pass
  BY <1>2 DEF RegistryTyped
<1>4. PICK r : r = [p EXCEPT !.pc = "settled"]
  OBVIOUS
<1>5. /\ r \in [pc : {"idle", "scanned", "taken", "settled", "moved"}, old : Revisions, new : Revisions]
      /\ r.pc = "settled" /\ r.old = p.old /\ r.new = p.new
  BY <1>4
<1>6. /\ pass' = r /\ p.pc = "taken" /\ p.new = labs
      /\ UNCHANGED <<disk, changes, labs, sub>>
  BY <1>1, <1>2, <1>3, <1>4 DEF Settle, PassFits, state
<1>7. PassFits' /\ SubsFit'
  <2>1. PassFits' /\ Announced' = Announced
    BY <1>3, <1>5, <1>6 DEF PassFits, Announced
  <2>2. QED
    BY <1>2, <1>6, <2>1 DEF SubsFit
<1>8. telemetry' \in BOOLEAN /\ MetricsFit' /\ WantsFit'
  <2>1. Telemetry \in Subs \cup {Telemetry} /\ Telemetry \notin Subs
    BY <1>1 DEF HubConstants
  <2>2. CASE telemetry' = FALSE /\ DropWant(Telemetry, FALSE)
    <3>1. MetricsFit' /\ collector'.wants = collector.wants \ {Telemetry}
      BY <1>2, <2>1, <2>2, DropWantDoes
    <3>2. WantsFit'
      BY <1>2, <1>6, <2>1, <2>2, <3>1 DEF WantsFit
    <3>3. QED
      BY <2>2, <3>1, <3>2
  <2>3. CASE telemetry' = TRUE /\ Want(Telemetry)
    <3>1. MetricsFit' /\ collector'.wants = collector.wants \cup {Telemetry}
      BY <1>2, <2>1, <2>3, WantDoes
    <3>2. WantsFit'
      BY <1>2, <1>6, <2>1, <2>3, <3>1 DEF WantsFit
    <3>3. QED
      BY <2>3, <3>1, <3>2
  <2>4. CASE UNCHANGED <<telemetry, metrics>>
    BY <1>2, <1>6, <2>4 DEF RegistryTyped, MetricsFit, WantsFit, metrics
  <2>5. QED
    BY <1>1, <2>2, <2>3, <2>4 DEF Settle
<1>9. RegistryTyped'
  BY <1>2, <1>5, <1>6, <1>8 DEF RegistryTyped
<1>10. QED
  BY <1>7, <1>8, <1>9, PartsPrime

\* No scan is on its way any more.
LEMMA NoPassIs ==
    ASSUME HubConstants
    PROVE  /\ NoPass \in [pc : {"idle", "scanned", "taken", "settled", "moved"}, old : Revisions, new : Revisions]
           /\ NoPass.pc = "idle" /\ Gone \in Revisions
BY DEF HubConstants, NoPass, Gone, Revisions

\* A scan that changed nothing: what was announced is the registry.
LEMMA QuietIInv == IInv /\ HubConstants /\ Quiet => IInv'
<1>1. SUFFICES ASSUME IInv, HubConstants, Quiet PROVE IInv'
  OBVIOUS
<1>2. PassFits
  BY <1>1, Parts
<1>3. /\ pass' = NoPass /\ pass.pc = "settled" /\ pass.old = pass.new
      /\ UNCHANGED <<disk, changes, labs, telemetry, latest, collector, thread, sub>>
  BY <1>1 DEF Quiet, Changed, state, metrics
<1>4. Announced' = Announced /\ PassFits'
  BY <1>1, <1>2, <1>3, NoPassIs DEF Announced, PassFits
<1>5. QED
  BY <1>1, <1>3, <1>4, NoPassIs, PassMoves

\* The note says the registry, which it then announced.
LEMMA AnnounceIInv == IInv /\ HubConstants /\ (AnnounceLabs \/ AnnounceTopology) => IInv'
<1>1. SUFFICES ASSUME IInv, HubConstants, AnnounceLabs \/ AnnounceTopology PROVE IInv'
  OBVIOUS
<1>2. RegistryTyped /\ MetricsFit /\ WantsFit /\ PassFits /\ SubsFit
  BY <1>1, Parts
<1>3. PICK p \in [pc : {"idle", "scanned", "taken", "settled", "moved"}, old : Revisions, new : Revisions] : p = pass
  BY <1>2 DEF RegistryTyped
<1>4. PICK r : r = [p EXCEPT !.pc = "moved"]
  OBVIOUS
<1>5. /\ r \in [pc : {"idle", "scanned", "taken", "settled", "moved"}, old : Revisions, new : Revisions]
      /\ r.pc = "moved" /\ r.new = p.new
  BY <1>4
<1>6. UNCHANGED <<disk, changes, labs, telemetry, latest, collector, thread>> /\ pass' \in {r, NoPass}
      /\ p.new = labs
  BY <1>1, <1>2, <1>3, <1>4 DEF AnnounceLabs, AnnounceTopology, state, metrics, PassFits
<1>7. RegistryTyped' /\ MetricsFit'
  BY <1>1, <1>2, <1>5, <1>6, NoPassIs DEF RegistryTyped, MetricsFit
<1>8. PassFits' /\ Announced' = labs
  BY <1>1, <1>5, <1>6, NoPassIs DEF PassFits, Announced
<1>9. PICK n \in Notes : Publish(n) /\ Announced' = IF n.topic = "labs" THEN n.rev ELSE Announced
  <2>1. CASE AnnounceLabs
    <3>1. PICK n : n = Note("labs", labs)
      OBVIOUS
    <3>2. n \in Notes /\ n.topic = "labs" /\ n.rev = labs
      BY <1>2, <3>1 DEF Note, Notes, RegistryTyped
    <3>3. Publish(n)
      BY <1>3, <1>6, <2>1, <3>1 DEF AnnounceLabs
    <3>4. QED
      BY <1>8, <3>2, <3>3
  <2>2. CASE AnnounceTopology
    <3>1. PICK n : n = Note("topology", Gone)
      OBVIOUS
    <3>2. n \in Notes /\ n.topic # "labs"
      BY <1>1, <3>1, NoPassIs DEF Note, Notes
    <3>3. Publish(n) /\ Announced = labs
      BY <2>2, <3>1 DEF AnnounceTopology, Announced
    <3>4. QED
      BY <1>8, <3>2, <3>3
  <2>3. QED
    BY <1>1, <2>1, <2>2
<1>10. SubsFit' /\ WantsFit'
  BY <1>1, <1>2, <1>6, <1>9, PublishDoes
<1>11. QED
  BY <1>7, <1>8, <1>10, PartsPrime

\* A thread takes a step; a snapshot is a note of no lab.
LEMMA CollectIInv ==
    ASSUME IInv, HubConstants, NEW k \in Threads, Collect(k)
    PROVE  IInv'
<1>1. RegistryTyped /\ MetricsFit /\ WantsFit /\ PassFits /\ SubsFit
  BY Parts
<1>2. /\ UNCHANGED <<disk, changes, labs, pass, telemetry, collector>> /\ latest' \in BOOLEAN
      /\ \E p \in {"off", "top", "loaded"} : SetThread(k, p) /\ (p # "off" => thread[k].pc # "off")
  BY <1>1 DEF Collect, Load, SnapshotFails, Snapshot, Stop, state, registry, MetricsFit
<1>3. MetricsFit'
  BY <1>1, <1>2, ThreadMoves
<1>4. RegistryTyped' /\ PassFits' /\ Announced' = Announced
  BY <1>1, <1>2 DEF RegistryTyped, PassFits, Announced
<1>5. CASE UNCHANGED sub
  <2>1. SubsFit' /\ WantsFit'
    BY <1>1, <1>2, <1>4, <1>5 DEF SubsFit, WantsFit
  <2>2. QED
    BY <1>3, <1>4, <2>1, PartsPrime
<1>6. CASE Publish(Note("metrics", Gone))
  <2>1. PICK n : n = Note("metrics", Gone)
    OBVIOUS
  <2>2. n \in Notes /\ n.topic # "labs"
    BY <2>1, NoPassIs DEF Note, Notes
  <2>3. Announced' = IF n.topic = "labs" THEN n.rev ELSE Announced
    BY <1>4, <2>2
  <2>4. SubsFit' /\ WantsFit'
    BY <1>1, <1>2, <1>6, <2>1, <2>2, <2>3, PublishDoes
  <2>5. QED
    BY <1>3, <1>4, <2>4, PartsPrime
<1>7. QED
  BY <1>5, <1>6 DEF Collect, Load, SnapshotFails, Snapshot, Stop

\* A subscription begins, with nothing in its inbox, and attaches to the channel.
LEMMA BeginIInv ==
    ASSUME IInv, HubConstants, NEW s \in Subs, Check(s, "host") \/ Check(s, "lab") \/ Attach(s)
    PROVE  IInv'
<1>1. SubsFit
  BY Parts
<1>2. PICK f \in Followers : f = sub[s]
  BY <1>1 DEF SubsFit
<1>3. WellFed(f, Announced, labs) /\ f.pc \in {"idle", "checked"}
  BY <1>1, <1>2 DEF SubsFit, Check, Attach
<1>4. PICK scope \in {"host", "lab"}, p \in {"checked", "attached"}, seen \in BOOLEAN :
        SetSub(s, [f EXCEPT !.pc = p, !.scope = scope, !.seen = seen])
  <2>1. CASE Check(s, "host") \/ Check(s, "lab")
    <3>1. PICK scope \in {"host", "lab"} : Check(s, scope)
      BY <2>1
    <3>2. [f EXCEPT !.pc = "checked", !.scope = scope] = [f EXCEPT !.pc = "checked", !.scope = scope, !.seen = f.seen]
      BY DEF Followers
    <3>3. f.seen \in BOOLEAN
      BY DEF Followers
    <3>4. QED
      BY <1>2, <3>1, <3>2, <3>3 DEF Check
  <2>2. CASE Attach(s)
    <3>1. PICK seen \in BOOLEAN : seen = (labs # Gone)
      OBVIOUS
    <3>2. [f EXCEPT !.pc = "attached", !.seen = seen] = [f EXCEPT !.pc = "attached", !.scope = f.scope, !.seen = seen]
      BY DEF Followers
    <3>3. f.scope \in {"host", "lab"}
      BY DEF Followers
    <3>4. QED
      BY <1>2, <2>2, <3>1, <3>2, <3>3 DEF Attach
  <2>3. QED
    BY <2>1, <2>2
<1>5. PICK g : g = [f EXCEPT !.pc = p, !.scope = scope, !.seen = seen]
  OBVIOUS
<1>6. g \in Followers /\ g.pc = p /\ g.inbox = f.inbox /\ g.lossy = f.lossy
  BY <1>5 DEF Followers
<1>7. f.inbox = <<>>
  BY <1>3 DEF WellFed
<1>8. WellFed(g, Announced, labs)
  BY <1>3, <1>6, <1>7 DEF WellFed
<1>9. Wants(g) <=> Wants(sub[s])
  BY <1>2, <1>3, <1>6 DEF Wants
<1>10. QED
  BY <1>4, <1>5, <1>6, <1>8, <1>9, SubStays DEF Check, Attach

\* It takes its want, when it follows the lab.
LEMMA TakeWantIInv ==
    ASSUME IInv, HubConstants, NEW s \in Subs, TakeWant(s)
    PROVE  IInv'
<1>1. MetricsFit /\ SubsFit
  BY Parts
<1>2. PICK f \in Followers : f = sub[s]
  BY <1>1 DEF SubsFit
<1>3. WellFed(f, Announced, labs) /\ f.pc = "attached"
  BY <1>1, <1>2 DEF SubsFit, TakeWant
<1>4. PICK g : g = [f EXCEPT !.pc = "wanted"]
  OBVIOUS
<1>5. g \in Followers /\ g.pc = "wanted" /\ g.inbox = f.inbox /\ g.lossy = f.lossy /\ g.scope = f.scope
  BY <1>4 DEF Followers
<1>6. WellFed(g, Announced, labs) /\ SetSub(s, g)
  BY <1>2, <1>3, <1>4, <1>5 DEF WellFed, TakeWant
<1>7. CASE f.scope = "lab"
  <2>1. MetricsFit' /\ collector'.wants = collector.wants \cup {s}
    BY <1>1, <1>2, <1>7, WantDoes DEF TakeWant
  <2>2. Wants(g)
    BY <1>5, <1>7 DEF Wants
  <2>3. QED
    BY <1>5, <1>6, <2>1, <2>2, SubMoves DEF TakeWant
<1>8. CASE f.scope # "lab"
  <2>1. ~Wants(g) /\ ~Wants(sub[s])
    BY <1>2, <1>5, <1>8 DEF Wants
  <2>2. UNCHANGED metrics
    BY <1>2, <1>8 DEF TakeWant
  <2>3. QED
    BY <1>5, <1>6, <2>1, <2>2, SubStays DEF TakeWant
<1>9. QED
  BY <1>7, <1>8

\* It is shown the labs there are, and told of what it missed.
LEMMA ShownIInv ==
    ASSUME IInv, HubConstants, NEW s \in Subs, First(s) \/ Lagged(s)
    PROVE  IInv'
<1>1. RegistryTyped /\ SubsFit
  BY Parts
<1>2. PICK f \in Followers : f = sub[s]
  BY <1>1 DEF SubsFit
<1>3. WellFed(f, Announced, labs) /\ f.pc \in {"wanted", "follow"}
  BY <1>1, <1>2 DEF SubsFit, First, Lagged
<1>4. CASE First(s)
  <2>1. PICK g : g = [f EXCEPT !.pc = "follow", !.view = labs]
    OBVIOUS
  <2>2. /\ g \in Followers /\ g.pc = "follow" /\ g.view = labs /\ g.inbox = f.inbox
        /\ g.lossy = f.lossy /\ g.scope = f.scope
    BY <1>1, <2>1 DEF Followers, RegistryTyped
  <2>3. WellFed(g, Announced, labs) /\ SetSub(s, g)
    BY <1>2, <1>3, <1>4, <2>1, <2>2 DEF WellFed, First
  <2>4. Wants(g) <=> Wants(sub[s])
    BY <1>2, <1>3, <2>2 DEF Wants
  <2>5. QED
    BY <1>4, <2>2, <2>3, <2>4, SubStays DEF First
<1>5. CASE Lagged(s)
  <2>1. PICK g : g = [f EXCEPT !.lagged = FALSE]
    OBVIOUS
  <2>2. /\ g \in Followers /\ g.pc = f.pc /\ g.view = f.view /\ g.inbox = f.inbox
        /\ g.lossy = f.lossy /\ g.scope = f.scope
    BY <2>1 DEF Followers
  <2>3. WellFed(g, Announced, labs) /\ SetSub(s, g)
    BY <1>2, <1>3, <1>5, <2>1, <2>2 DEF WellFed, Lagged
  <2>4. Wants(g) <=> Wants(sub[s])
    BY <1>2, <2>2 DEF Wants
  <2>5. QED
    BY <1>5, <2>2, <2>3, <2>4, SubStays DEF Lagged
<1>6. QED
  BY <1>4, <1>5

\* It ends, and its want with it.
LEMMA EndIInv ==
    ASSUME IInv, HubConstants, NEW s \in Subs, SetSub(s, NotSubscribed), UNCHANGED <<state, registry>>,
           \/ DropWant(s, latest)
           \/ sub[s].scope # "lab" /\ UNCHANGED metrics
    PROVE  IInv'
<1>1. MetricsFit
  BY Parts
<1>2. NotSubscribed \in Followers /\ WellFed(NotSubscribed, Announced, labs) /\ ~Wants(NotSubscribed)
  BY Unsubscribed
<1>3. CASE DropWant(s, latest)
  <2>1. latest \in BOOLEAN
    BY <1>1 DEF MetricsFit
  <2>2. MetricsFit' /\ collector'.wants = collector.wants \ {s}
    BY <1>1, <1>3, <2>1, DropWantDoes
  <2>3. QED
    BY <1>2, <2>2, SubMoves
<1>4. CASE sub[s].scope # "lab" /\ UNCHANGED metrics
  <2>1. ~Wants(sub[s])
    BY <1>4 DEF Wants
  <2>2. QED
    BY <1>2, <1>4, <2>1, SubStays
<1>5. QED
  BY <1>3, <1>4

\* It takes the first note: its view is the news when no labs note is left.
LEMMA ReceiveIInv ==
    ASSUME IInv, HubConstants, NEW s \in Subs, Receive(s)
    PROVE  IInv'
<1>1. SubsFit
  BY Parts
<1>2. PICK f \in Followers : f = sub[s]
  BY <1>1 DEF SubsFit
<1>3. WellFed(f, Announced, labs) /\ f.pc = "follow" /\ f.inbox # <<>>
  BY <1>1, <1>2 DEF SubsFit, Receive
<1>4. CASE EndsIt(s, Head(f.inbox))
  BY <1>2, <1>4, EndIInv DEF Receive
<1>5. CASE ~EndsIt(s, Head(f.inbox))
  <2>1. PICK q \in Seq(Notes) : q = f.inbox
    BY DEF Followers
  <2>2. q # <<>> /\ Len(q) <= Cap
    BY <1>3, <2>1 DEF WellFed
  <2>3. PICK t \in Seq(Notes) : t = Tail(q)
    BY <2>2, NoteTaken, Zenon
  <2>4. PICK n \in Notes : n = Head(q)
    BY <2>2, NoteTaken, Zenon
  <2>5. PICK w \in Revisions : w = IF n.topic = "labs" THEN n.rev ELSE f.view
    BY DEF Notes, Followers
  <2>6. PICK g : g = [f EXCEPT !.inbox = t, !.view = w]
    OBVIOUS
  <2>7. /\ g \in Followers /\ g.pc = f.pc /\ g.view = w /\ g.inbox = t
        /\ g.lossy = f.lossy /\ g.scope = f.scope
    BY <2>6 DEF Followers
  <2>8. SetSub(s, g) /\ UNCHANGED metrics
    BY <1>2, <1>5, <2>1, <2>3, <2>4, <2>5, <2>6 DEF Receive
  <2>9. Len(t) <= Cap
    <3>1. PICK l \in Nat : l = Len(q)
      OBVIOUS
    <3>2. Len(t) = l - 1
      BY <2>2, <2>3, <3>1, NoteTaken
    <3>3. QED
      BY <2>2, <3>1, <3>2 DEF HubConstants
  <2>10. ASSUME ~f.lossy PROVE LastSays(t, Announced) /\ (NoLabsNote(t) => w \in {Announced, labs})
    <3>1. LastSays(q, Announced) /\ (NoLabsNote(q) => f.view \in {Announced, labs})
      BY <1>3, <2>1, <2>10 DEF WellFed
    <3>2. /\ LastSays(t, Announced)
          /\ NoLabsNote(t) /\ n.topic = "labs" => n.rev = Announced
          /\ NoLabsNote(t) /\ n.topic # "labs" => NoLabsNote(q)
      BY <2>2, <2>3, <2>4, <3>1, NoteTaken
    <3>3. QED
      BY <2>5, <3>1, <3>2
  <2>11. WellFed(g, Announced, labs)
    BY <1>3, <2>7, <2>9, <2>10 DEF WellFed
  <2>12. Wants(g) <=> Wants(sub[s])
    BY <1>2, <2>7 DEF Wants
  <2>13. QED
    BY <2>7, <2>8, <2>11, <2>12, SubStays DEF Receive
<1>6. QED
  BY <1>4, <1>5

\* The client leaves.
LEMMA LeaveIInv ==
    ASSUME IInv, HubConstants, NEW s \in Subs, Leave(s)
    PROVE  IInv'
BY EndIInv DEF Leave

\* Nothing happens.
LEMMA StutterIInv == IInv /\ UNCHANGED vars => IInv'
<1>1. SUFFICES ASSUME IInv, UNCHANGED vars PROVE IInv'
  OBVIOUS
<1>2. RegistryTyped /\ MetricsFit /\ WantsFit /\ PassFits /\ SubsFit
  BY <1>1, Parts
<1>3. RegistryTyped' /\ MetricsFit' /\ WantsFit' /\ PassFits' /\ SubsFit'
  BY <1>1, <1>2 DEF RegistryTyped, MetricsFit, WantsFit, PassFits, SubsFit, Announced, vars
<1>4. QED
  BY <1>3, PartsPrime

\* Every step keeps the inductive invariant.
LEMMA HubStep == HubConstants /\ IInv /\ [Next]_vars => IInv'
<1>1. SUFFICES ASSUME HubConstants, IInv, [Next]_vars PROVE IInv'
  OBVIOUS
<1>2. CASE Change \/ Destroy
  BY <1>1, <1>2, DiskIInv
<1>3. CASE Registry
  BY <1>1, <1>3, ScanIInv, TakeIInv, SettleIInv, QuietIInv, AnnounceIInv DEF Registry
<1>4. ASSUME NEW k \in Threads, Collect(k) PROVE IInv'
  BY <1>1, <1>4, CollectIInv
<1>5. ASSUME NEW s \in Subs, Check(s, "host") \/ Check(s, "lab") \/ Subscribe(s) \/ Leave(s) PROVE IInv'
  BY <1>1, <1>5, BeginIInv, TakeWantIInv, ShownIInv, ReceiveIInv, LeaveIInv DEF Subscribe
<1>6. CASE UNCHANGED vars
  BY <1>1, <1>6, StutterIInv
<1>7. QED
  BY <1>1, <1>2, <1>3, <1>4, <1>5, <1>6 DEF Next

-----------------------------------------------------------------------------
\* The theorems

\* The hub (hub.rs) keeps its inductive invariant: types, the channel's
\* bound, what each receiver has of the registry, and who wants the metrics.
THEOREM HubInvariant == Spec => []IInv
<1>1. Init => IInv
  BY HubConstants, HubInit
<1>2. IInv /\ [Next]_vars => IInv'
  BY HubConstants, HubStep
<1>3. QED
  BY <1>1, <1>2, PTL DEF Spec

\* Hub::subscribe attaches before it reads the registry, and the registry
\* announces after it changed: a subscription that lost no note will show
\* the lab as the registry has it.
THEOREM HubFollowersAreCurrent == Spec => []FollowerIsCurrent
<1>1. ASSUME IInv, NEW s \in Subs, sub[s].pc = "follow", ~sub[s].lossy,
             pass.pc \in {"idle", "scanned", "moved"}
      PROVE  WillShow(s, labs)
  <2>1. Announced = labs
    BY <1>1 DEF Announced
  <2>2. HasTheNews(s)
    BY <1>1 DEF IInv
  <2>3. QED
    BY <1>1, <2>1, <2>2 DEF HasTheNews, WillShow
<1>2. IInv => FollowerIsCurrent
  BY <1>1 DEF FollowerIsCurrent
<1>3. QED
  BY <1>2, HubInvariant, PTL

\* want_metrics and Want::drop (hub.rs): a collector that was not told to
\* stop is the only one and is wanted, by who follows and by nobody who left.
THEOREM HubCollectorIsWanted == Spec => []CollectorIsWanted
<1>1. IInv => CollectorIsWanted
  BY DEF IInv
<1>2. QED
  BY <1>1, HubInvariant, PTL

=============================================================================
