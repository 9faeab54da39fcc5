---------------------------- MODULE RuntimeState ----------------------------
(***************************************************************************)
(* The runtime state of one running lab (crates/nlink-lab/src/running.rs): *)
(* what `impair`, `clear`, `partition`, `heal`, `spawn` and a replay do to *)
(* the kernel, to state.json and to the handles that change them.          *)
(*                                                                         *)
(* A handle is a RunningLab in memory: a copy of state.json (mine) and the *)
(* copy it last read or wrote (base).  A change takes the lab's lock       *)
(* (LabMutex), takes in what others saved (refresh), changes the kernel    *)
(* and the handle (change_tc), and merges the handle into the file         *)
(* (commit).  A replay has a handle of its own, whose ticks change the     *)
(* kernel and the handle and save nothing.  A Lab (lab.rs) runs each       *)
(* change on a copy of its engine and reads the file again when one fails; *)
(* an engine used directly (a scenario, a replay) keeps its memory.        *)
(*                                                                         *)
(* The lab exists throughout: its end is LabLifecycle's, and begin fails   *)
(* on a lab that is gone.  An endpoint's traffic control is the impairment *)
(* it has and whether it is partitioned.                                   *)
(***************************************************************************)
EXTENDS Naturals, FiniteSets, Sequences, Functions

CONSTANTS Handles,      \* the handles on the lab, in any number of processes
          Labs,         \* \subseteq Handles: the ones that are a Lab
          Replays,      \* \subseteq Handles: the ones that play traces
          Endpoints,    \* the lab's endpoints
          Targets,      \* what directed_endpoints may return: an endpoint,
                        \* its link's other end, or both, in this order
          NodeOf,       \* endpoint -> its node
          Values,       \* the impairments an operator or a trace may set
          Clean,        \* Impairment::default(): no impairment
          Declared,     \* endpoint -> what the topology declares, or Clean
          Pids,         \* the processes that may be spawned
          Nobody,       \* no handle
          Absent,       \* no entry in a map
          Ops,          \* the operations of this instance
          Faulty,       \* \subseteq Handles: whose kernel or disk may refuse
          MaxMishaps    \* how many refusals and kills there may be

Impairments == Values \cup {Clean} \cup Range(Declared)

ASSUME RuntimeConstants ==
    /\ Labs \subseteq Handles /\ Replays \subseteq Handles \ Labs
    /\ Targets \subseteq Seq(Endpoints)
    /\ Faulty \subseteq Handles /\ Nobody \notin Handles
    /\ Clean \notin Values /\ Absent \notin Impairments
    /\ DOMAIN Declared = Endpoints
    /\ MaxMishaps \in Nat

VARIABLES holder,   \* who has the lab's lock
          file,     \* state.json
          kernel,   \* endpoint -> the traffic control it really has
          procs,    \* the background processes that run
          pc,       \* handle -> where it is
          base,     \* handle -> its baseline
          mine,     \* handle -> its fields
          todo,     \* handle -> the operation under way
          playing,  \* handle -> the targets it replays a trace on
          acked,    \* history: endpoint -> what the last change that
                    \*          returned Ok set
          mishaps   \* history: the refusals and the kills so far

handles == <<pc, base, mine, todo, playing>>
vars == <<holder, file, kernel, procs, handles, acked, mishaps>>

\* live_impairments, saved_impairments (the partitioned endpoints) and pids.
States == [live : [Endpoints -> Impairments \cup {Absent}],
           cut  : [Endpoints -> Impairments \cup {Absent}],
           pids : SUBSET Pids]

Deployed == [live |-> [e \in Endpoints |-> Absent],
             cut  |-> [e \in Endpoints |-> Absent],
             pids |-> {}]

\* live_view: the topology with the live impairments over it, and the
\* partitioned endpoints.
View(s) ==
    [e \in Endpoints |->
        [imp |-> IF s.live[e] = Absent THEN Declared[e] ELSE s.live[e],
         cut |-> s.cut[e] # Absent]]

NoOp == [op |-> "none", on |-> <<>>, left |-> <<>>, val |-> Clean]

Init ==
    /\ holder = Nobody
    /\ file = Deployed
    /\ kernel = View(Deployed)
    /\ procs = {}
    /\ pc = [h \in Handles |-> "none"]
    /\ base = [h \in Handles |-> Deployed]
    /\ mine = [h \in Handles |-> Deployed]
    /\ todo = [h \in Handles |-> NoOp]
    /\ playing = [h \in Handles |-> {}]
    /\ acked = View(Deployed)
    /\ mishaps = 0

-----------------------------------------------------------------------------
\* The three-way merge (merge_into)

\* Mutant: the handle's map replaces the file's.
MergeMapStale(fresh, b, m) == [k \in DOMAIN fresh |-> m[k]]

\* merge_map: this handle's insertions, changes and removals since b.
MergeMap(fresh, b, m) ==
    [k \in DOMAIN fresh |-> IF m[k] # b[k] THEN m[k] ELSE fresh[k]]

\* Mutant: keeps what both have, loses what another handle added.
MergePidsBoth(fresh, b, m) == {p \in fresh : p \in m} \cup (m \ b)

\* merge_pids
MergePids(fresh, b, m) == {p \in fresh : p \in m \/ p \notin b} \cup (m \ b)

Merge(fresh, b, m) ==
    [live |-> MergeMap(fresh.live, b.live, m.live),
     cut  |-> MergeMap(fresh.cut, b.cut, m.cut),
     pids |-> MergePids(fresh.pids, b.pids, m.pids)]

-----------------------------------------------------------------------------
\* Traffic control

\* What the operation o makes of the endpoint e in the fields s of a handle.
Edited(s, o, e) ==
    CASE o.op \in {"impair", "tick"} ->
            [s EXCEPT !.live[e] = o.val,
                      !.cut[e] = IF @ = Absent THEN Absent ELSE o.val]
      [] o.op = "clear" ->
            [s EXCEPT !.live[e] = IF Declared[e] = Clean THEN Absent ELSE Clean,
                      !.cut[e] = Absent]
      [] o.op = "partition" -> [s EXCEPT !.cut[e] = View(s)[e].imp]
      [] o.op = "heal" -> [s EXCEPT !.cut[e] = Absent]

\* restore_entry of every endpoint of a replay's target.
Restored(s, b, on) ==
    [live |-> [e \in Endpoints |-> IF e \in Range(on) THEN b.live[e] ELSE s.live[e]],
     cut  |-> [e \in Endpoints |-> IF e \in Range(on) THEN b.cut[e] ELSE s.cut[e]],
     pids |-> s.pids]

\* Mutant: what the change dropped is not removed.
ReconciledAdds(k, nodes, before, after) ==
    [e \in Endpoints |->
        IF NodeOf[e] \notin nodes THEN k[e]
        ELSE [imp |-> IF after[e].imp # Clean THEN after[e].imp ELSE k[e].imp,
              cut |-> after[e].cut \/ k[e].cut]]

\* reconcile_node_tc: the endpoints of the nodes get what `after` declares;
\* what only `before` declared is removed; what neither does is left alone.
Reconciled(k, nodes, before, after) ==
    [e \in Endpoints |->
        IF NodeOf[e] \notin nodes THEN k[e]
        ELSE [imp |-> IF after[e].imp # Clean THEN after[e].imp
                      ELSE IF before[e].imp # Clean THEN Clean ELSE k[e].imp,
              cut |-> after[e].cut \/ (k[e].cut /\ ~before[e].cut)]]

\* clear_impairment deletes the root qdisc before it reconciles.
KernelBefore(o, e) == IF o.op = "clear" THEN [kernel EXCEPT ![e].imp = Clean] ELSE kernel

-----------------------------------------------------------------------------
\* Handles

\* RunningLab::load, Lab::attach.
Load(h) ==
    /\ pc[h] = "none"
    /\ pc' = [pc EXCEPT ![h] = "ready"]
    /\ base' = [base EXCEPT ![h] = file]
    /\ mine' = [mine EXCEPT ![h] = file]
    /\ UNCHANGED <<holder, file, kernel, procs, todo, playing, acked, mishaps>>

\* What a handle may be asked to do now.
Operations(h) ==
    LET op(name, on, v) == [op |-> name, on |-> on, left |-> on, val |-> v]
        operator == {op("impair", on, v) : on \in Targets, v \in Values}
                    \cup {op(name, <<e>>, Clean) : e \in Endpoints,
                                                   name \in {"clear", "partition", "heal"}}
                    \cup {op("spawn", <<>>, Clean)}
        replay == {op("tick", on, v) : on \in Targets, v \in Values}
                  \cup {op(name, on, Clean) : on \in playing[h], name \in {"end", "keep"}}
    IN  {o \in IF h \in Replays THEN replay ELSE operator : o.op \in Ops}

\* begin: the lock, and refresh.
Begin(h) ==
    /\ pc[h] = "ready" /\ holder = Nobody
    /\ \E o \in Operations(h) : todo' = [todo EXCEPT ![h] = o]
    /\ holder' = h
    /\ pc' = [pc EXCEPT ![h] = "locked"]
    /\ mine' = [mine EXCEPT ![h] = Merge(file, base[h], mine[h])]
    /\ base' = [base EXCEPT ![h] = file]
    /\ UNCHANGED <<file, kernel, procs, playing, acked, mishaps>>

\* The operation returns, and with it goes the lock.
Return(h) ==
    /\ holder' = Nobody
    /\ pc' = [pc EXCEPT ![h] = "ready"]
    /\ todo' = [todo EXCEPT ![h] = NoOp]

\* A failed operation returns: an engine keeps its memory (m is what it
\* has), a Lab reads the file again (resync).
Abort(h, m) ==
    /\ Return(h)
    /\ base' = IF h \in Labs THEN [base EXCEPT ![h] = file] ELSE base
    /\ mine' = [mine EXCEPT ![h] = IF h \in Labs THEN file ELSE m]

\* A refusal of the kernel or of the disk.
Mishap(h) ==
    /\ h \in Faulty /\ mishaps < MaxMishaps
    /\ mishaps' = mishaps + 1

\* The kernel as it was, with any part of k done.
Partly(k) ==
    \E part \in SUBSET Endpoints :
        kernel' = [e \in Endpoints |-> IF e \in part THEN k[e] ELSE kernel[e]]

Partitioned(h) == mine[h].cut[Head(todo[h].left)] # Absent

\* The next endpoint of the operation wants a change.
Changes(h) ==
    /\ pc[h] = "locked" /\ todo[h].left # <<>>
    /\ todo[h].op \in {"impair", "tick", "clear", "partition", "heal"}
    /\ todo[h].op = "partition" => ~Partitioned(h)
    /\ todo[h].op = "heal" => Partitioned(h)

\* A partition of what is partitioned returns; so does, with an error, a
\* heal of what is not.
AlreadyPartitioned(h) ==
    /\ pc[h] = "locked" /\ todo[h].op = "partition" /\ todo[h].left # <<>>
    /\ Partitioned(h)
    /\ Return(h)
    /\ UNCHANGED <<file, kernel, procs, base, mine, playing, acked, mishaps>>

NotPartitioned(h) ==
    /\ pc[h] = "locked" /\ todo[h].op = "heal" /\ todo[h].left # <<>>
    /\ ~Partitioned(h)
    /\ Abort(h, mine[h])
    /\ UNCHANGED <<file, kernel, procs, playing, acked, mishaps>>

\* change_tc of the next endpoint: its node converges on what the handle
\* has with the change.
ChangeTc(h) ==
    LET o == todo[h]
        e == Head(o.left)
        after == Edited(mine[h], o, e)
    IN  /\ Changes(h)
        /\ kernel' = Reconciled(KernelBefore(o, e), {NodeOf[e]}, View(mine[h]), View(after))
        /\ mine' = [mine EXCEPT ![h] = after]
        /\ todo' = [todo EXCEPT ![h].left = Tail(@)]
        /\ UNCHANGED <<holder, file, procs, pc, base, playing, acked, mishaps>>

\* The kernel refuses; change_tc puts the handle back.  A tick that fails is
\* its replay's last, which then ends as one that played to its end.
ChangeFails(h) ==
    LET o == todo[h]
        e == Head(o.left)
    IN  /\ Changes(h) /\ Mishap(h)
        /\ Partly(Reconciled(KernelBefore(o, e), {NodeOf[e]}, View(mine[h]),
                             View(Edited(mine[h], o, e))))
        /\ Abort(h, mine[h])
        /\ playing' = IF o.op = "tick" THEN [playing EXCEPT ![h] = @ \cup {o.on}] ELSE playing
        /\ UNCHANGED <<file, procs, acked>>

\* spawn: the process runs before the state says so.
Spawn(h) ==
    /\ pc[h] = "locked" /\ todo[h].op = "spawn"
    /\ \E p \in Pids \ (procs \cup file.pids \cup mine[h].pids) :
        /\ procs' = procs \cup {p}
        /\ mine' = [mine EXCEPT ![h].pids = @ \cup {p}]
    /\ todo' = [todo EXCEPT ![h].op = "spawned"]
    /\ UNCHANGED <<holder, file, kernel, pc, base, playing, acked, mishaps>>

\* The process does not start (with no pid left, it never does).
SpawnFails(h) ==
    /\ pc[h] = "locked" /\ todo[h].op = "spawn"
    /\ Abort(h, mine[h])
    /\ UNCHANGED <<file, kernel, procs, playing, acked, mishaps>>

\* kill_process, with no lock, of a process the handle knows.
KillProcess(h, p) ==
    /\ pc[h] = "ready" /\ p \in mine[h].pids \cap procs
    /\ procs' = procs \ {p}
    /\ UNCHANGED <<holder, file, kernel, handles, acked, mishaps>>

\* Nothing left to do but save.
Ready(h) ==
    /\ pc[h] = "locked"
    /\ \/ todo[h].left = <<>> /\ todo[h].op \in {"impair", "clear", "partition", "heal", "spawned"}
       \/ todo[h].op = "keep"

\* What the operation o, returning Ok, answers for in the traffic control of
\* its endpoints, given that a handle shows v.
Answered(o, v) ==
    [e \in Endpoints |->
        IF e \notin Range(o.on) THEN acked[e]
        ELSE CASE o.op \in {"impair", "keep"} -> [acked[e] EXCEPT !.imp = v[e].imp]
               [] o.op \in {"partition", "heal"} -> [acked[e] EXCEPT !.cut = v[e].cut]
               [] OTHER -> v[e]]

\* commit: save_merged, and the lock goes.  (replay_end with keep is this
\* and nothing else.)
Commit(h) ==
    /\ Ready(h)
    /\ file' = Merge(file, base[h], mine[h])
    /\ base' = [base EXCEPT ![h] = mine[h]]
    /\ acked' = Answered(todo[h], View(mine[h]))
    /\ playing' = [playing EXCEPT ![h] = @ \ {todo[h].on}]
    /\ Return(h)
    /\ UNCHANGED <<kernel, procs, mine, mishaps>>

CommitFails(h) ==
    /\ Ready(h) /\ Mishap(h)
    /\ Abort(h, mine[h])
    /\ UNCHANGED <<file, kernel, procs, playing, acked>>

-----------------------------------------------------------------------------
\* Replays

\* replay_tick ends: the lock goes, nothing is saved.
Ticked(h) ==
    /\ pc[h] = "locked" /\ todo[h].op = "tick" /\ todo[h].left = <<>>
    /\ playing' = [playing EXCEPT ![h] = @ \cup {todo[h].on}]
    /\ Return(h)
    /\ UNCHANGED <<file, kernel, procs, base, mine, acked, mishaps>>

\* What replay_end makes of the kernel: the target's nodes go back to what
\* the state file has.
PutBack(h) ==
    Reconciled(kernel, {NodeOf[e] : e \in Range(todo[h].on)}, View(mine[h]),
               View(Restored(mine[h], base[h], todo[h].on)))

\* Mutant: the node is reconciled from what the file had all along.
ReplayEndForgets(h) ==
    /\ pc[h] = "locked" /\ todo[h].op = "end"
    /\ mine' = [mine EXCEPT ![h] = Restored(@, base[h], todo[h].on)]
    /\ kernel' = Reconciled(kernel, {NodeOf[e] : e \in Range(todo[h].on)}, View(base[h]),
                            View(base[h]))
    /\ playing' = [playing EXCEPT ![h] = @ \ {todo[h].on}]
    /\ Return(h)
    /\ UNCHANGED <<file, procs, base, acked, mishaps>>

\* Mutant: commits before it puts the target back.
ReplayEndSaves(h) ==
    /\ pc[h] = "locked" /\ todo[h].op = "end"
    /\ file' = Merge(file, base[h], mine[h])
    /\ mine' = [mine EXCEPT ![h] = Restored(@, base[h], todo[h].on)]
    /\ kernel' = PutBack(h)
    /\ playing' = [playing EXCEPT ![h] = @ \ {todo[h].on}]
    /\ Return(h)
    /\ UNCHANGED <<procs, base, acked, mishaps>>

\* replay_end without keep.
ReplayEnd(h) ==
    /\ pc[h] = "locked" /\ todo[h].op = "end"
    /\ mine' = [mine EXCEPT ![h] = Restored(@, base[h], todo[h].on)]
    /\ kernel' = PutBack(h)
    /\ playing' = [playing EXCEPT ![h] = @ \ {todo[h].on}]
    /\ Return(h)
    /\ UNCHANGED <<file, procs, base, acked, mishaps>>

\* The kernel refuses: the handle has what the file has all the same.
ReplayEndFails(h) ==
    /\ pc[h] = "locked" /\ todo[h].op = "end" /\ Mishap(h)
    /\ Partly(PutBack(h))
    /\ Abort(h, Restored(mine[h], base[h], todo[h].on))
    /\ playing' = [playing EXCEPT ![h] = @ \ {todo[h].on}]
    /\ UNCHANGED <<file, procs, acked>>

-----------------------------------------------------------------------------
\* Processes

\* The memory of a handle is gone.
Forget(h) ==
    /\ pc' = [pc EXCEPT ![h] = "none"]
    /\ base' = [base EXCEPT ![h] = Deployed]
    /\ mine' = [mine EXCEPT ![h] = Deployed]

\* A handle goes with its process, no change or replay of it under way.
Exit(h) ==
    /\ pc[h] = "ready" /\ playing[h] = {}
    /\ Forget(h)
    /\ UNCHANGED <<holder, file, kernel, procs, todo, playing, acked, mishaps>>

\* Its process is killed in the middle of one.
Kill(h) ==
    /\ holder = h \/ playing[h] # {}
    /\ mishaps < MaxMishaps /\ mishaps' = mishaps + 1
    /\ holder' = IF holder = h THEN Nobody ELSE holder
    /\ Forget(h)
    /\ todo' = [todo EXCEPT ![h] = NoOp]
    /\ playing' = [playing EXCEPT ![h] = {}]
    /\ UNCHANGED <<file, kernel, procs, acked>>

Next ==
    \E h \in Handles :
        \/ Load(h) \/ Begin(h) \/ AlreadyPartitioned(h) \/ NotPartitioned(h)
        \/ ChangeTc(h) \/ ChangeFails(h) \/ Spawn(h) \/ SpawnFails(h)
        \/ \E p \in Pids : KillProcess(h, p)
        \/ Commit(h) \/ CommitFails(h)
        \/ Ticked(h) \/ ReplayEnd(h) \/ ReplayEndFails(h)
        \/ Exit(h) \/ Kill(h)

Spec == Init /\ [][Next]_vars

-----------------------------------------------------------------------------
\* Properties

\* Every field has its type, and the lock is held exactly by the handle that
\* has a change under way.
TypeOK ==
    /\ file \in States
    /\ kernel \in [Endpoints -> [imp : Impairments, cut : BOOLEAN]]
    /\ procs \subseteq Pids
    /\ pc \in [Handles -> {"none", "ready", "locked"}]
    /\ base \in [Handles -> States] /\ mine \in [Handles -> States]
    /\ playing \in [Handles -> SUBSET Targets]
    /\ acked \in [Endpoints -> [imp : Impairments, cut : BOOLEAN]]
    /\ mishaps \in 0..MaxMishaps
    /\ {h \in Handles : pc[h] = "locked"} = {holder} \ {Nobody}

\* Parts of the inductive invariants.  The operation under way: its
\* endpoints, the ones it has left, and whose it may be.
OpNames == {"impair", "clear", "partition", "heal", "spawn", "tick", "end", "keep"}

UnderWay == [op : (OpNames \cap Ops) \cup {"none", "spawned"}, on : Seq(Endpoints),
             left : Seq(Endpoints), val : Values \cup {Clean}]

TodoOK ==
    /\ todo \in [Handles -> UnderWay]
    /\ \A h \in Handles :
        /\ Range(todo[h].left) \subseteq Range(todo[h].on)
        /\ todo[h].op \in {"impair", "tick"} => todo[h].val \in Values
        /\ todo[h].op \in {"tick", "end", "keep"} => todo[h].on \in Targets /\ h \in Replays
        /\ todo[h].op \in {"spawn", "spawned"} => todo[h].on = <<>>
        /\ h \in Replays => todo[h].op \in {"none", "tick", "end", "keep"}
        /\ pc[h] # "locked" => todo[h] = NoOp

\* The handle that has the lock has read the file as it is.
Refreshed == \A h \in Handles : pc[h] = "locked" => base[h] = file

\* A handle forgets no process it read of.
PidsKept == \A h \in Handles : base[h].pids \subseteq mine[h].pids

\* The processes the file does not name, but for the one just spawned, are
\* no more than the mishaps.
FewLost ==
    /\ IsFiniteSet(procs)
    /\ IF \E h \in Handles : todo[h].op = "spawned"
       THEN \E p \in mine[holder].pids : Cardinality(procs \ (file.pids \cup {p})) <= mishaps
       ELSE Cardinality(procs \ file.pids) <= mishaps

IInv == TypeOK /\ TodoOK /\ Refreshed /\ PidsKept /\ FewLost

\* What a committing handle has that the file has not is its operation's.
OnlyItsOwn(h) ==
    /\ \A e \in Endpoints : e \notin Range(todo[h].on) =>
            mine[h].live[e] = file.live[e] /\ mine[h].cut[e] = file.cut[e]
    /\ todo[h].op = "impair" =>
            \A e \in Endpoints : mine[h].cut[e] = Absent <=> file.cut[e] = Absent
    /\ todo[h].op \in {"partition", "heal"} =>
            /\ mine[h].live = file.live
            /\ todo[h].left # <<>> => mine[h] = file /\ Len(todo[h].left) = 1
    /\ todo[h].op = "spawn" => mine[h] = file

\* Between its operations it has nothing that was not saved.
SavedOrOwn ==
    \A h \in Handles \ Replays :
        /\ pc[h] = "ready" => mine[h] = base[h]
        /\ pc[h] = "locked" => OnlyItsOwn(h)

\* The state the file has, or will have once the handle at work commits.
Current == IF holder \in Handles \ Replays THEN mine[holder] ELSE file

\* What a replay has, or would have if it refreshed now, and the endpoints
\* it plays.
Sees(g) == Merge(Current, base[g], mine[g])

Plays(g, e) ==
    \/ \E on \in playing[g] : e \in Range(on)
    \/ todo[g].op = "tick" /\ e \in Range(todo[g].on)

\* A replay changes only what it plays, and ends what it plays.
OnlyPlayed ==
    \A g \in Replays :
        /\ \A e \in Endpoints : ~Plays(g, e) =>
                mine[g].live[e] = base[g].live[e] /\ mine[g].cut[e] = base[g].cut[e]
        /\ pc[g] = "none" => playing[g] = {}

\* The kernel has what the current state declares, but for what a replay
\* has set where it plays.
KernelFollows ==
    \A e \in Endpoints :
        /\ \/ kernel[e].imp = View(Current)[e].imp
           \/ \E g \in Replays : Plays(g, e) /\ View(Sees(g))[e].imp # Clean
        /\ View(Current)[e].cut => kernel[e].cut
        /\ kernel[e].cut =>
              \/ View(Current)[e].cut
              \/ \E g \in Replays : Plays(g, e) /\ View(Sees(g))[e].cut

\* Without mishaps, the kernel goes with the file and the replays.
Undisturbed == mishaps = 0 => SavedOrOwn /\ OnlyPlayed /\ KernelFollows

\* No update is lost and none comes back: at every moment the state file
\* gives each endpoint the impairment and the partition that the last change
\* that returned Ok set (save_merged, refresh; save_state's "keeps its own
\* changes"), whatever other handles saved meanwhile, whatever they replay,
\* and whatever failed.
FileHoldsWhatWasSet == \A e \in Endpoints : View(file)[e] = acked[e]

\* When no change and no replay is under way, and nothing was refused or
\* killed, the kernel has exactly the traffic control the state file
\* declares (change_tc, reconcile_node_tc, replay_end).
KernelMatchesFile ==
    holder = Nobody /\ mishaps = 0 /\ (\A h \in Handles : playing[h] = {})
        => kernel = View(file)

\* Every background process that runs is in the state file, or in the memory
\* of the handle that is spawning it, but for one per refusal or kill
\* (spawn_with_logs_with_opts, merge_pids).
ProcsTracked ==
    LET spawning == IF holder = Nobody THEN {} ELSE mine[holder].pids IN
    TypeOK /\ Cardinality(procs \ (file.pids \cup spawning)) <= mishaps
=============================================================================
