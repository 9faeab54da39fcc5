----------------------------- MODULE ApplyPlan -----------------------------
(* Plans and their execution: what `apply` does to a lab that runs          *)
(* (deploy/op.rs, deploy/plan, deploy/apply.rs, deploy/rollback.rs), and    *)
(* what `restart` does to a container node (deploy/mod.rs, reattach).       *)
(*                                                                          *)
(* A topology is planned as a sequence of ops; the difference of two plans  *)
(* is executed op by op against the host, each creation recorded in a       *)
(* journal that a failure unwinds.  The diff is computed from keys and      *)
(* payloads alone, so whether its ops fit the host they meet, and leave it  *)
(* as a deploy of the new topology would, is what is checked here.          *)
(*                                                                          *)
(* The kernel is external: a namespace's links are torn down after it is    *)
(* gone, in the kernel's own time, and the name of the far end of a veth is *)
(* taken until then.                                                        *)
EXTENDS Integers, Sequences, FiniteSets, SequencesExt

CONSTANTS
    NodeOrder,   \* the names a node may have, in name order
    Topologies,  \* the topologies applied
    None,
    MaxFaults    \* bound: ops that fail for reasons outside the model

ASSUME NodeOrderAssumption ==
    NodeOrder \in Seq(STRING) /\ IsInjective(NodeOrder)

VARIABLES
    cur,      \* the topology in the state file
    saved,    \* the rest of the state file: nodes, exec pids, mgmt peers
    job,      \* the change under way or to be repeated, or None
    phase,    \* "idle", "run" while its plan executes, "unwind"
    todo,     \* the ops left
    env,      \* ApplyEnv: what will be saved if the plan ends well
    journal,  \* the undo of what the plan created
    host,     \* the kernel and the container runtime
    dying,    \* interface names of a deleted namespace's veths, still taken
    faults

vars == <<cur, saved, job, phase, todo, env, journal, host, dying, faults>>

Nodes == Range(NodeOrder)

-----------------------------------------------------------------------------
(* Topologies.  A node is a namespace or a container (of two sets of        *)
(* options) and runs at most one background command, in two versions; its   *)
(* one data interface is e0, an end of a link or a port of the one network. *)

Kinds == {"absent", "ns", "c1", "c2"}
IsContainer(kind) == kind \in {"c1", "c2"}

Present(t) == {n \in Nodes : t.kind[n] # "absent"}
InOrder(S) == SelectSeq(NodeOrder, LAMBDA n : n \in S)

\* Where links end besides in nodes.
Root == "root"
MgmtNs == "mgmt"

LinkEnds(t) == UNION {{l.a, l.b} : l \in t.links}

Ifaces(t, n) == {<<n, "e0">> : e \in (LinkEnds(t) \cup Range(t.net)) \cap {n}}
                \cup {<<n, "mgmt0">> : m \in {t.mgmt} \ {None}}
                \cup {<<n, "mv0">> : m \in t.macvlans \cap {n}}

-----------------------------------------------------------------------------
(* Ops.  `end` is the link end the op makes or deletes, <<namespace, name>>,*)
(* `far` the other end, `ifaces` the interfaces of LinksUp and Stack, and   *)
(* `arg` the rest of the payload.                                           *)

Op(what, node, end, far, arg) ==
    [op |-> what, node |-> node, end |-> end, far |-> far, ifaces |-> {}, arg |-> arg]

NodeOp(what, node, arg) == Op(what, node, None, None, arg)
LinkOp(what, end) == Op(what, end[1], end, None, None)
IfacesOp(what, node, ends) == [NodeOp(what, node, None) EXCEPT !.ifaces = ends]

MgmtBridge == <<Root, "br">>
MgmtPeer(idx) == <<Root, ToString(idx)>>
Bridge == <<MgmtNs, "br">>
NetworkPeer(k) == <<MgmtNs, ToString(k)>>

CreateNode(t, n) == IF IsContainer(t.kind[n]) THEN NodeOp("CreateContainer", n, t.kind[n])
                                              ELSE NodeOp("CreateNamespace", n, None)

\* A peer is named by the node's place among all nodes, in name order.
CreateMgmtVeth(t, n, idx) == Op("CreateMgmtVeth", n, MgmtPeer(idx), <<n, "mgmt0">>, t.mgmt)

\* A port's peer is named by its place among the network's members.
CreateNetworkVeth(t, k) == Op("CreateNetworkVeth", t.net[k], <<t.net[k], "e0">>, NetworkPeer(k), None)

Each(s, F(_)) == [i \in 1 .. Len(s) |-> F(s[i])]
When(cond, s) == IF cond THEN s ELSE << >>

\* Every op of a deploy, in stage order (the planner's order within a stage).
Plan(t) ==
    LET nodes == InOrder(Present(t))
        execs == SelectSeq(nodes, LAMBDA n : t.exec[n] # None)
    IN  Each(nodes, LAMBDA n : CreateNode(t, n))
        \o When(t.mgmt # None,
                <<Op("CreateMgmtBridge", Root, MgmtBridge, None, t.mgmt)>>
                \o [i \in 1 .. Len(nodes) |-> CreateMgmtVeth(t, nodes[i], i)])
        \o When(t.net # << >>,
                <<NodeOp("CreateMgmtNamespace", MgmtNs, None),
                  Op("CreateBridge", MgmtNs, Bridge, None, None)>>
                \o [k \in 1 .. Len(t.net) |-> CreateNetworkVeth(t, k)])
        \o Each(SetToSeq(t.links),
                LAMBDA l : Op("CreateVeth", l.a, <<l.a, "e0">>, <<l.b, "e0">>, l.mtu))
        \o Each(InOrder(t.macvlans),
                LAMBDA n : Op("CreateMacvlan", n, <<n, "mv0">>, None, None))
        \o Each(SelectSeq(nodes, LAMBDA n : Ifaces(t, n) # {}),
                LAMBDA n : IfacesOp("LinksUp", n, Ifaces(t, n)))
        \o Each(nodes, LAMBDA n : IfacesOp("Stack", n, Ifaces(t, n)))
        \o Each(execs, LAMBDA n : NodeOp("Exec", n, t.exec[n]))

Stages == <<"Namespaces", "MgmtBridge", "Networks", "Links", "HostLinks",
            "LinksUp", "Stack", "Processes">>

Stage(o) ==
    CASE o.op \in {"CreateNamespace", "CreateContainer", "DeleteNamespace",
                   "RemoveContainer"} -> "Namespaces"
      [] o.op \in {"CreateMgmtBridge", "CreateMgmtVeth", "DeleteHostLink"} -> "MgmtBridge"
      [] o.op \in {"CreateMgmtNamespace", "CreateBridge", "DeleteBridge",
                   "CreateNetworkVeth"} -> "Networks"
      [] o.op \in {"CreateVeth", "DeleteLink"} -> "Links"
      [] o.op = "CreateMacvlan" -> "HostLinks"
      [] o.op = "LinksUp" -> "LinksUp"
      [] o.op = "Stack" -> "Stack"
      [] o.op \in {"Exec", "KillExec", "KillNodeProcesses"} -> "Processes"

\* A stable sort by stage, in the order given.
Sorted(ops, stages) ==
    FlattenSeq(Each(stages, LAMBDA s : SelectSeq(ops, LAMBDA o : Stage(o) = s)))

\* Two ops with the same key describe the same resource.
Key(o) ==
    CASE o.op \in {"CreateNamespace", "CreateMgmtNamespace", "DeleteNamespace"} -> <<"ns", o.node>>
      [] o.op \in {"CreateContainer", "RemoveContainer"} -> <<"container", o.node>>
      [] o.op \in {"CreateMgmtBridge", "CreateMgmtVeth", "DeleteHostLink"} -> <<"hostlink", o.end>>
      [] o.op \in {"CreateBridge", "DeleteBridge"} -> <<"bridge", o.end>>
      [] o.op \in {"CreateNetworkVeth", "CreateVeth", "CreateMacvlan", "DeleteLink"} -> <<"link", o.end>>
      [] o.op \in {"Exec", "KillExec"} -> <<"exec", o.node>>
      [] OTHER -> <<o.op, o.node>>

\* The op that undoes this one when its resource leaves the topology: one, or
\* none where another removal implies it.
InverseOf(o) ==
    CASE o.op \in {"CreateNamespace", "CreateMgmtNamespace"} -> <<NodeOp("DeleteNamespace", o.node, None)>>
      [] o.op = "CreateContainer" -> <<NodeOp("RemoveContainer", o.node, None)>>
      [] o.op \in {"CreateMgmtBridge", "CreateMgmtVeth"} -> <<LinkOp("DeleteHostLink", o.end)>>
      [] o.op = "CreateBridge" -> <<LinkOp("DeleteBridge", o.end)>>
      [] o.op \in {"CreateNetworkVeth", "CreateVeth", "CreateMacvlan"} -> <<LinkOp("DeleteLink", o.end)>>
      [] o.op = "Exec" -> <<NodeOp("KillExec", o.node, None)>>
      [] OTHER -> << >>

\* What a new namespace for the node needs again.
LivesInNode(o, n) ==
    \/ o.op \in {"CreateNetworkVeth", "CreateMgmtVeth", "CreateMacvlan", "Exec"} /\ o.node = n
    \/ o.op = "CreateVeth" /\ n \in {o.end[1], o.far[1]}

-----------------------------------------------------------------------------
(* Plan::diff: the removals, in reverse stage order, then the changes.      *)

Inverses(ops) == FlattenSeq(Each(ops, InverseOf))

\* The current plan's op for the same resource.
InPlan(o, plan) == {p \in Range(plan) : Key(p) = Key(o)}

\* Nodes (and the mgmt namespace) whose namespace goes away.
DyingNodes(removals) ==
    {o.node : o \in {r \in Range(removals) : r.op \in {"DeleteNamespace", "RemoveContainer"}}}

\* Mutant: a removed node's processes are left running.
RemovalsWithoutKill(current, desired) ==
    LET gone == Inverses(SelectSeq(current, LAMBDA o : InPlan(o, desired) = {}))
    IN  SelectSeq(gone, LAMBDA o : ~(o.op \in {"DeleteLink", "KillExec", "DeleteBridge"}
                                     /\ o.node \in DyingNodes(gone)))

\* The removals of what is gone, less what goes with a namespace, and the
\* processes of a node that goes, which nothing else stops.
Removals(current, desired) ==
    LET gone == Inverses(SelectSeq(current, LAMBDA o : InPlan(o, desired) = {}))
        nodes == DyingNodes(gone)
        kept == SelectSeq(gone, LAMBDA o :
                    ~(o.op \in {"DeleteLink", "KillExec", "DeleteBridge"} /\ o.node \in nodes))
    IN  kept \o Each(InOrder(nodes), LAMBDA n : NodeOp("KillNodeProcesses", n, None))

\* An op of both plans that runs again whatever its payload.
AlwaysRuns(o) == o.op \in {"LinksUp", "Stack"}

\* An op of both plans whose payload changed: its resource is made again.  (A
\* bridge's edits are not applied.)
Replaced(o, current) == /\ InPlan(o, current) \notin {{}, {o}}
                        /\ ~AlwaysRuns(o)
                        /\ o.op # "CreateBridge"

Recreated(current, desired) ==
    {o.node : o \in {d \in Range(desired) : d.op = "CreateContainer" /\ Replaced(d, current)}}

\* Mutant: what lived in a re-created container is left out.
ChangesOfPayload(current, desired) ==
    SelectSeq(desired, LAMBDA o : InPlan(o, current) = {} \/ AlwaysRuns(o) \/ Replaced(o, current))

Changes(current, desired) ==
    SelectSeq(desired, LAMBDA o :
        \/ InPlan(o, current) = {}
        \/ AlwaysRuns(o)
        \/ Replaced(o, current)
        \/ \E n \in Recreated(current, desired) : LivesInNode(o, n))

Diff(current, desired) ==
    LET replaced == SelectSeq(current, LAMBDA o : \E d \in Range(desired) :
                                           Key(d) = Key(o) /\ Replaced(d, current))
    IN  Sorted(Removals(current, desired) \o Inverses(replaced), Reverse(Stages))
        \o Changes(current, desired)

\* reattach: the links of the restarted node planned as new, and all else that
\* lived in its old namespace.
ReattachPlan(t, n) ==
    LET without == [t EXCEPT !.links = {l \in @ : n \notin {l.a, l.b}}]
        diff == Diff(Plan(without), Plan(t))
    IN  Sorted(diff \o SelectSeq(Plan(t), LAMBDA o : LivesInNode(o, n) /\ o \notin Range(diff)),
               Stages)

-----------------------------------------------------------------------------
(* The host.  A link is its set of ends (one for a bridge or a macvlan),    *)
(* with the payload it was made from and the bridge it is a port of; `up`   *)
(* and `addr` are the ends brought up and configured; `procs` counts the    *)
(* processes of each node and version, and `strays` are the commands that   *)
(* go on in a container though the host's end of their exec was killed.     *)

Link(ends, arg, port) == [ends |-> ends, arg |-> arg, port |-> port]

Spaces(h) == {s[1] : s \in h.spaces} \cup {Root}
Ends(h) == UNION {l.ends : l \in h.links}
EndsIn(space, ends) == {e \in ends : e[1] = space}

Versions == {"v1", "v2"}
Stopped == [v \in Versions |-> 0]
Started(t) == [n \in Nodes |-> [v \in Versions |-> IF t.exec[n] = v THEN 1 ELSE 0]]

Master(o) == IF o.op = "CreateMgmtVeth" THEN MgmtBridge
             ELSE IF o.op = "CreateNetworkVeth" THEN Bridge ELSE None

CreatesLink(o) == o.op \in {"CreateMgmtBridge", "CreateMgmtVeth", "CreateBridge",
                            "CreateNetworkVeth", "CreateVeth", "CreateMacvlan"}
NewEnds(o) == {o.end} \cup (IF o.far = None THEN {} ELSE {o.far})

\* The host a fresh deploy of t leaves.
HostOf(t) ==
    LET made == {o \in Range(Plan(t)) : CreatesLink(o)}
        mine == UNION {Ifaces(t, n) : n \in Present(t)}
    IN  [spaces |-> {<<n, t.kind[n]>> : n \in Present(t)}
                    \cup (IF t.net = << >> THEN {} ELSE {<<MgmtNs, "ns">>}),
         links  |-> {Link(NewEnds(o), o.arg, Master(o)) : o \in made},
         up     |-> mine,
         addr   |-> mine,
         procs  |-> Started(t),
         strays |-> {}]

\* The state a fresh deploy of t saves.
SavedOf(t) ==
    LET nodes == InOrder(Present(t))
    IN  [nodes |-> Present(t),
         execs |-> t.exec,
         peers |-> IF t.mgmt = None THEN {} ELSE {<<nodes[i], MgmtPeer(i)>> : i \in 1 .. Len(nodes)}]

\* Deleting a link takes both its ends; a bridge lets go of its ports.
WithoutLinks(h, gone) ==
    LET ends == UNION {l.ends : l \in gone}
    IN  [h EXCEPT !.links = {[l EXCEPT !.port = IF @ \in ends THEN None ELSE @] : l \in @ \ gone},
                  !.up = @ \ ends,
                  !.addr = @ \ ends]

DeleteEnd(h, end) == WithoutLinks(h, {l \in h.links : end \in l.ends})

IsContainerNode(h, n) == \E s \in h.spaces : s[1] = n /\ IsContainer(s[2])

\* A namespace that goes takes every link with an end in it.  A container's
\* processes go with it; a namespace's keep running.
DeleteSpace(h, n) ==
    LET rest == WithoutLinks(h, {l \in h.links : EndsIn(n, l.ends) # {}})
    IN  [rest EXCEPT !.spaces = {s \in @ : s[1] # n},
                     !.procs = IF IsContainerNode(h, n) THEN [@ EXCEPT ![n] = Stopped] ELSE @,
                     !.strays = {s \in @ : s[1] # n}]

\* The far ends of those links, whose names stay taken until the kernel's
\* cleanup of the namespace has run.
Orphaned(h, n) == {e \in UNION {l.ends : l \in {k \in h.links : EndsIn(n, k.ends) # {}}} : e[1] # n}

\* kill_tracked, and stop_in_container for what its exec started in a
\* container: a process already gone is none to stop.
Kill(h, n, ver) ==
    IF ver = None \/ h.procs[n][ver] = 0 THEN h ELSE [h EXCEPT !.procs[n][ver] = @ - 1]

-----------------------------------------------------------------------------
(* execute_one: what an op needs, and what it does to the host, to the      *)
(* environment and to the journal.                                          *)

\* The node's handle is known and its namespace is there.
HasHandle(n) == n \in env.nodes /\ n \in Spaces(host)

\* All an op needs, but for the names it takes being free.
Fits(o) ==
    CASE o.op \in {"CreateNamespace", "CreateContainer", "CreateMgmtNamespace"} -> o.node \notin Spaces(host)
      [] o.op = "CreateMgmtBridge" -> o.end \notin Ends(host)
      [] o.op = "CreateBridge" -> MgmtNs \in Spaces(host) /\ o.end \notin Ends(host)
      [] o.op \in {"CreateMgmtVeth", "CreateNetworkVeth"} ->
             HasHandle(o.node) /\ Master(o) \in Ends(host) /\ NewEnds(o) \cap Ends(host) = {}
      [] o.op = "CreateVeth" ->
             HasHandle(o.end[1]) /\ HasHandle(o.far[1]) /\ NewEnds(o) \cap Ends(host) = {}
      [] o.op = "CreateMacvlan" -> HasHandle(o.node) /\ o.end \notin Ends(host)
      [] o.op \in {"LinksUp", "Stack"} ->
             HasHandle(o.node) /\ o.ifaces \subseteq Ends(host)
      [] o.op = "Exec" -> HasHandle(o.node)
      [] OTHER -> TRUE      \* a removal warns and goes on

\* A name the op takes is still held by a link being torn down.
Clashes(o) == CreatesLink(o) /\ NewEnds(o) \cap dying # {}

\* A removal's effect on the host.
Removed(o, h) ==
    CASE o.op \in {"DeleteNamespace", "RemoveContainer"} -> DeleteSpace(h, o.node)
      [] o.op \in {"DeleteLink", "DeleteHostLink", "DeleteBridge"} -> DeleteEnd(h, o.end)
      [] o.op = "KillExec" -> Kill(h, o.node, env.execs[o.node])
      [] o.op = "KillNodeProcesses" -> [h EXCEPT !.procs[o.node] = Stopped]

Created(o, h) ==
    CASE o.op \in {"CreateNamespace", "CreateMgmtNamespace"} -> [h EXCEPT !.spaces = @ \cup {<<o.node, "ns">>}]
      [] o.op = "CreateContainer" -> [h EXCEPT !.spaces = @ \cup {<<o.node, o.arg>>}]
      [] CreatesLink(o) -> [h EXCEPT !.links = @ \cup {Link(NewEnds(o), o.arg, Master(o))}]
      [] o.op = "LinksUp" -> [h EXCEPT !.up = @ \cup o.ifaces]
      [] o.op = "Stack" -> [h EXCEPT !.addr = @ \cup o.ifaces]
      [] o.op = "Exec" -> [h EXCEPT !.procs[o.node][o.arg] = @ + 1]

IsRemoval(o) == o.op \in {"DeleteNamespace", "RemoveContainer", "DeleteLink", "DeleteHostLink",
                          "DeleteBridge", "KillExec", "KillNodeProcesses"}

Effect(o, h) == IF IsRemoval(o) THEN Removed(o, h) ELSE Created(o, h)

\* The names a removal leaves taken, and those it frees.
DyingAfter(o) ==
    IF o.op \in {"DeleteNamespace", "RemoveContainer"}
    THEN {e \in dying : e[1] # o.node} \cup Orphaned(host, o.node)
    ELSE IF o.op \in {"DeleteLink", "DeleteHostLink", "DeleteBridge"} THEN dying \ {o.end} ELSE dying

EnvAfter(o) ==
    CASE o.op \in {"CreateNamespace", "CreateContainer"} -> [env EXCEPT !.nodes = @ \cup {o.node}]
      [] o.op \in {"DeleteNamespace", "RemoveContainer"} -> [env EXCEPT !.nodes = @ \ {o.node}]
      [] o.op = "CreateMgmtVeth" ->
             [env EXCEPT !.peers = {p \in @ : p[1] # o.node} \cup {<<o.node, o.end>>}]
      [] o.op = "DeleteHostLink" -> [env EXCEPT !.peers = {p \in @ : p[2] # o.end}]
      [] o.op = "Exec" -> [env EXCEPT !.execs[o.node] = o.arg]
      [] o.op \in {"KillExec", "KillNodeProcesses"} -> [env EXCEPT !.execs[o.node] = None]
      [] OTHER -> env

\* Mutants: a background command is not recorded; nor is the mgmt namespace.
UndoWithoutProcess(o) == IF o.op = "Exec" \/ IsRemoval(o) THEN << >> ELSE InverseOf(o)
UndoWithoutMgmtNs(o) ==
    CASE o.op = "Exec" -> <<NodeOp("KillProcess", o.node, o.arg)>>
      [] o.op = "CreateMgmtNamespace" \/ IsRemoval(o) -> << >>
      [] OTHER -> InverseOf(o)

\* What the op records in the journal: what it creates, never what it removes.
\* A macvlan is made in the root namespace, recorded there, and then moved.
UndoOf(o) ==
    CASE o.op = "Exec" -> <<NodeOp("KillProcess", o.node, o.arg)>>
      [] o.op = "CreateMacvlan" -> <<LinkOp("DeleteHostLink", <<Root, "mv0">>)>>
      [] IsRemoval(o) -> << >>
      [] OTHER -> InverseOf(o)

-----------------------------------------------------------------------------

Init ==
    /\ cur \in Topologies
    /\ saved = SavedOf(cur)
    /\ host = HostOf(cur)
    /\ job = None /\ phase = "idle" /\ todo = << >>
    /\ env = None /\ journal = << >> /\ dying = {} /\ faults = 0

Begin(change) ==
    /\ job' = change
    /\ phase' = "run" /\ todo' = change.plan /\ env' = saved /\ journal' = << >>

\* A node that is a namespace in one and a container in the other keeps its
\* links' and commands' keys, and the diff does not make them again: a container
\* node's changes "require redeploy" (docs/cli/apply.md).
SameKinds(t, u) ==
    \A n \in Present(t) \cap Present(u) : IsContainer(t.kind[n]) <=> IsContainer(u.kind[n])

\* apply of t to a lab at rest.
Apply(t) ==
    /\ phase = "idle" /\ job = None
    /\ SameKinds(cur, t)
    /\ Begin([op |-> "apply", to |-> t, plan |-> Diff(Plan(cur), Plan(t))])
    /\ UNCHANGED <<cur, saved, host, dying, faults>>

\* The namespace of a restarted container is new, and empty (external).
NewNamespace(n) ==
    /\ host' = [DeleteSpace(host, n) EXCEPT !.spaces = host.spaces]
    /\ dying' = {e \in dying : e[1] # n} \cup Orphaned(host, n)

\* restart of a container node: the runtime gives it a new namespace, and
\* what was in the old one is put back.
Restart(n) ==
    /\ phase = "idle" /\ job = None
    /\ IsContainer(cur.kind[n])
    /\ NewNamespace(n)
    /\ Begin([op |-> "restart", to |-> n, plan |-> ReattachPlan(cur, n)])
    /\ UNCHANGED <<cur, saved, faults>>

\* The command that failed, run again: planned from the same state file and
\* the same input, its plan is the same.
Retry ==
    /\ phase = "idle" /\ job # None
    /\ IF job.op = "restart" THEN NewNamespace(job.to) ELSE UNCHANGED <<host, dying>>
    /\ Begin(job)
    /\ UNCHANGED <<cur, saved, faults>>

\* One op of the plan.
Step ==
    /\ phase = "run" /\ todo # << >>
    /\ LET o == Head(todo) IN
       /\ Fits(o) /\ ~Clashes(o)
       /\ host' = Effect(o, host)
       /\ dying' = DyingAfter(o)
       /\ env' = EnvAfter(o)
       /\ journal' = journal \o UndoOf(o)
    /\ todo' = Tail(todo)
    /\ UNCHANGED <<cur, saved, job, phase, faults>>

Unwinding == phase' = "unwind" /\ todo' = << >> /\ UNCHANGED <<cur, saved, job, env, journal, host, dying>>

\* An op that cannot be done.
OpFails ==
    /\ phase = "run" /\ todo # << >>
    /\ ~Fits(Head(todo)) \/ Clashes(Head(todo))
    /\ Unwinding
    /\ UNCHANGED faults

\* A cancellation, or an error from outside the model, before an op or in the
\* last one.
Fault ==
    /\ phase = "run" /\ faults < MaxFaults
    /\ Unwinding
    /\ faults' = faults + 1

\* An undo's effect on the host: a removal, or the recorded pid killed, which
\* for a command in a container is its exec client; nothing stops the command.
Undone(o, h) ==
    IF o.op = "KillProcess"
    THEN [Kill(h, o.node, o.arg) EXCEPT
             !.strays = IF IsContainerNode(h, o.node) /\ h.procs[o.node][o.arg] > 0
                        THEN @ \cup {<<o.node, o.arg>>} ELSE @]
    ELSE Removed(o, h)

\* One entry of the journal undone, the newest first.
Undo ==
    /\ phase = "unwind" /\ journal # << >>
    /\ host' = Undone(Last(journal), host)
    /\ dying' = DyingAfter(Last(journal))
    /\ journal' = Front(journal)
    /\ UNCHANGED <<cur, saved, job, phase, todo, env, faults>>

\* The command fails, and the state file is as it was.
RolledBack ==
    /\ phase = "unwind" /\ journal = << >>
    /\ phase' = "idle" /\ env' = None
    /\ UNCHANGED <<cur, saved, job, todo, journal, host, dying, faults>>

\* The plan is done: the topology and the environment are saved.
Commit ==
    /\ phase = "run" /\ todo = << >>
    /\ cur' = IF job.op = "apply" THEN job.to ELSE cur
    /\ saved' = env
    /\ job' = None /\ phase' = "idle" /\ env' = None /\ journal' = << >>
    /\ UNCHANGED <<todo, host, dying, faults>>

\* The kernel's cleanup of a deleted namespace reaches a veth (external).
Reap == \E e \in dying : /\ dying' = dying \ {e}
                         /\ UNCHANGED <<cur, saved, job, phase, todo, env, journal, host, faults>>

Next ==
    \/ \E t \in Topologies : Apply(t)
    \/ \E n \in Nodes : Restart(n)
    \/ Retry \/ Step \/ OpFails \/ Fault \/ Undo \/ RolledBack \/ Commit \/ Reap

Spec == Init /\ [][Next]_vars

\* The executor goes on, the command that failed is repeated, and the kernel
\* gets to the namespaces it has to clean up.
FairSpec == Spec /\ WF_vars(Step \/ OpFails \/ Undo \/ RolledBack \/ Commit) /\ WF_vars(Retry) /\ WF_vars(Reap)

-----------------------------------------------------------------------------

\* A change that went through leaves the host and the state file as a fresh
\* deploy of the new topology would: every link made again that a diff of keys
\* cannot see is gone, no process left of a node removed or run twice, the mgmt
\* peers saved under their new names.  (Plan::diff, reattach_ctx.)  Not so the
\* strays of a rollback: nothing stops them, and repeated, the change starts
\* the command a second time.
Converges ==
    phase = "idle" /\ job = None =>
        host = [HostOf(cur) EXCEPT !.strays = host.strays] /\ saved = SavedOf(cur)

\* No op of a plan meets a host it does not fit: a name taken, a handle or an
\* interface missing, at the first attempt and when it is repeated on what a
\* failed one left.  (Names the kernel is about to free are left aside.)
OpsFit == phase = "run" /\ todo # << >> => Fits(Head(todo))

\* A change that failed leaves nothing the running lab did not have: "Every
\* kernel or host mutation `apply.rs` performs records its inverse".  (Journal.)
\* Of a command in a container it is the exec client that goes: the command
\* itself may stay, a stray, where the container was there before.
NothingNewLeft ==
    phase = "idle" /\ job # None =>
        LET was == HostOf(cur)
        IN  /\ host.spaces \subseteq was.spaces
            /\ \A l \in host.links : \E w \in was.links : l.ends = w.ends /\ l.arg = w.arg
            /\ \A n \in Nodes : \A v \in Versions : host.procs[n][v] <= was.procs[n][v]
            /\ \A s \in host.strays : IsContainer(cur.kind[s[1]])

\* A failed change that is repeated goes through in the end, however far the
\* failed attempts got: what they left never stops the next one for good.
RepeatedChangeEnds == job # None ~> job = None
=============================================================================
