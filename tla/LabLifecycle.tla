---------------------------- MODULE LabLifecycle ----------------------------
(***************************************************************************)
(* One lab's life on one host: deploy, apply, destroy and                  *)
(* `destroy --orphans` (the reaper) by concurrent tasks, under the lab's   *)
(* lock (LabMutex, implemented by LabLock).                                *)
(*                                                                         *)
(* What a lab owns on the host is a set of resources: its namespaces       *)
(* (by name, with an ownership tag), its containers (by the id the runtime *)
(* gives out once) and its host-wide registrations (subnets of the pool,   *)
(* claims of the host registry).  What it has on disk are state.json,      *)
(* topology.toml and, while a run is under way or after one died, the undo *)
(* journal journal.json.  A run creates a resource, then journals its      *)
(* inverse, then tags it; each is a step, and a kill, a panic or a failure *)
(* may come between any two.                                               *)
(*                                                                         *)
(* The bounds are the constants: the tasks, the resources and MaxMishaps.  *)
(* Ops and Faults say what may happen in an instance.                      *)
(***************************************************************************)
EXTENDS Naturals, FiniteSets, SequencesExt

CONSTANTS Tasks,        \* CLI runs and daemon jobs on the lab
          Namespaces,   \* the namespaces its nodes may have
          Containers,   \* container ids, each given out once
          Registrations, \* \subseteq {"subnets", "claims"}: what it may register
          Nobody,       \* no task
          Absent,       \* a file that does not exist
          Ops,          \* \subseteq {"deploy", "apply", "destroy", "reap"}
          Faults,       \* \subseteq {"op", "pool", "save", "panic", "delete", "kill"}
          MaxMishaps    \* how many kills and failed deletes there may be

Nodes     == Namespaces \cup Containers
Resources == Nodes \cup Registrations

ASSUME LifecycleConstants ==
    /\ Nobody \notin Tasks
    /\ Namespaces \cap Containers = {} /\ Nodes \cap {"subnets", "claims"} = {}
    /\ Registrations \subseteq {"subnets", "claims"}
    /\ Absent \notin Seq(Resources) /\ \A s \in SUBSET Nodes : s # Absent
    /\ MaxMishaps \in Nat

VARIABLES holder,   \* who has the lab's lock
          live,     \* the resources that exist on the host
          tags,     \* the namespaces with an ownership tag
          made,     \* the container ids given out so far
          saved,    \* state.json: the nodes it claims, or Absent
          topo,     \* topology.toml: the nodes it declares, or Absent
          journal,  \* journal.json: a sequence of resources, or Absent
          pc,       \* task -> where it is
          me,       \* task -> its locals
          quiet,    \* history: the reap nobody else has run beside
          spilled,  \* history: the subnets a pool that ran full left behind
          mishaps   \* history: the kills and the failed deletes so far

disk == <<saved, topo, journal>>
host == <<live, tags, made>>
vars == <<holder, host, disk, pc, me, quiet, spilled, mishaps>>

\* A task's locals.
Blank ==
    [op      |-> "none",
     nodes   |-> {},      \* the handle: state.json as it was loaded
     topo    |-> {},      \* the handle: topology.toml as it was loaded
     want    |-> {},      \* the topology to reach
     rem     |-> {},      \* nodes still to delete
     add     |-> {},      \* nodes still to create
     env     |-> {},      \* ApplyEnv: the nodes the lab has so far
     cur     |-> Nobody,  \* the node under creation
     entries |-> <<>>,    \* Journal::entries
     after   |-> "idle",  \* what follows the unwinding
     before  |-> {},      \* history: live when this run began to create
     known   |-> FALSE,   \* reaper: the lab was in state::list()
     failed  |-> FALSE]   \* history: a delete of this run failed

Init ==
    /\ holder = Nobody
    /\ live = {} /\ tags = {} /\ made = {}
    /\ saved = Absent /\ topo = Absent /\ journal = Absent
    /\ pc = [t \in Tasks |-> "idle"]
    /\ me = [t \in Tasks |-> Blank]
    /\ quiet = Nobody /\ spilled = {}
    /\ mishaps = 0

-----------------------------------------------------------------------------
\* Helpers

Goto(t, place) == pc' = [pc EXCEPT ![t] = place]

\* The nodes state.json claims (none when there is no file).
Claimed == IF saved = Absent THEN {} ELSE saved

\* The run returns: its guard is dropped and its locals are gone.
Leave(t) ==
    /\ holder' = IF holder = t THEN Nobody ELSE holder
    /\ Goto(t, "idle")
    /\ me' = [me EXCEPT ![t] = Blank]

Mishap == mishaps < MaxMishaps /\ mishaps' = mishaps + 1

\* A delete that only logs a failure, in a step that leaves the locals l.
Delete(t, r, l) ==
    \/ /\ live' = live \ {r}
       /\ me' = [me EXCEPT ![t] = l]
       /\ UNCHANGED mishaps
    \/ /\ r \in live /\ "delete" \in Faults /\ Mishap
       /\ me' = [me EXCEPT ![t] = [l EXCEPT !.failed = TRUE]]
       /\ UNCHANGED live

\* Journal::record: push the inverse and rewrite the file.
Record(t, r) ==
    /\ journal' = Append(me[t].entries, r)
    /\ me' = [me EXCEPT ![t].entries = Append(@, r)]

\* The runtime refuses a name in use; guard_namespace_absent a live one.
CanCreate(n) == n \notin IF n \in Namespaces THEN live ELSE made

-----------------------------------------------------------------------------
\* Deploy

\* lock_for, then AlreadyExists if there is a state.json, then the journal
\* an interrupted run left.  (Only the lock's holder writes these files, so
\* the three are one step.)
Deploy(t) ==
    /\ pc[t] = "idle" /\ "deploy" \in Ops
    /\ holder = Nobody
    /\ saved = Absent
    /\ holder' = t
    /\ \E want \in SUBSET Resources :
        /\ want \cap Nodes # {} /\ want \cap made = {}
        /\ me' = [me EXCEPT ![t] =
            [Blank EXCEPT !.op = "deploy", !.want = want, !.add = want \cap Nodes,
                          !.entries = IF journal = Absent THEN <<>> ELSE journal,
                          !.after = "allocate",
                          !.before = live]]
    /\ Goto(t, IF journal = Absent THEN "allocate" ELSE "unwind")
    /\ UNCHANGED <<host, disk>>

\* substitute_auto_subnets: the pool has the subnets before a journal does.
Allocate(t) ==
    /\ pc[t] = "allocate"
    /\ IF "subnets" \in me[t].want
       THEN live' = live \cup {"subnets"} /\ Goto(t, "allocated")
       ELSE Goto(t, "claim") /\ UNCHANGED live
    /\ UNCHANGED <<holder, tags, made, disk, me>>

\* A later network of the topology finds the pool full: the error returns
\* with what the earlier ones got still in the pool.
AllocateFails(t) ==
    /\ pc[t] = "allocate" /\ "pool" \in Faults
    /\ "subnets" \in me[t].want
    /\ live' \in {live, live \cup {"subnets"}}
    /\ Leave(t)
    /\ UNCHANGED <<tags, made, disk>>

\* Mutant: the release of the subnets is not journaled.
ForgetSubnets(t) ==
    /\ pc[t] = "allocated"
    /\ Goto(t, "claim")
    /\ UNCHANGED <<holder, host, disk, me>>

RecordSubnets(t) ==
    /\ pc[t] = "allocated"
    /\ Record(t, "subnets")
    /\ Goto(t, "claim")
    /\ UNCHANGED <<holder, host, saved, topo>>

\* The release is journaled before the claim is made.
RecordClaims(t) ==
    /\ pc[t] = "claim"
    /\ IF "claims" \in me[t].want
       THEN Record(t, "claims") /\ Goto(t, "claiming")
       ELSE Goto(t, "execute") /\ UNCHANGED <<journal, me>>
    /\ UNCHANGED <<holder, host, saved, topo>>

Claim(t) ==
    /\ pc[t] = "claiming"
    /\ live' = live \cup {"claims"}
    /\ Goto(t, "execute")
    /\ UNCHANGED <<holder, tags, made, disk, me>>

-----------------------------------------------------------------------------
\* Executing a plan (apply::execute): removals first, then creations

\* Op::DeleteNamespace, Op::RemoveContainer: not journaled, untagged
\* whether or not the delete worked.
RemoveNode(t) ==
    /\ pc[t] = "execute"
    /\ \E n \in me[t].rem :
        /\ Delete(t, n, [me[t] EXCEPT !.rem = @ \ {n}, !.env = @ \ {n}])
        /\ tags' = tags \ {n}
    /\ UNCHANGED <<holder, made, disk, pc>>

Create(t) ==
    /\ pc[t] = "execute" /\ me[t].rem = {}
    /\ \E n \in me[t].add :
        /\ CanCreate(n)
        /\ live' = live \cup {n}
        /\ made' = made \cup ({n} \cap Containers)
        /\ me' = [me EXCEPT ![t] = [me[t] EXCEPT !.add = @ \ {n}, !.cur = n]]
    /\ Goto(t, "created")
    /\ UNCHANGED <<holder, tags, disk>>

RecordNode(t) ==
    /\ pc[t] = "created"
    /\ Record(t, me[t].cur)
    /\ Goto(t, "recorded")
    /\ UNCHANGED <<holder, host, saved, topo>>

\* Mutant: leaves the namespace without a tag.
TagNone(t) ==
    /\ pc[t] = "recorded"
    /\ me' = [me EXCEPT ![t] = [me[t] EXCEPT !.env = @ \cup {me[t].cur}, !.cur = Nobody]]
    /\ Goto(t, "execute")
    /\ UNCHANGED <<holder, host, disk>>

\* The namespace's tag; then ApplyEnv has the node.
Tag(t) ==
    /\ pc[t] = "recorded"
    /\ tags' = tags \cup ({me[t].cur} \cap Namespaces)
    /\ me' = [me EXCEPT ![t] = [me[t] EXCEPT !.env = @ \cup {me[t].cur}, !.cur = Nobody]]
    /\ Goto(t, "execute")
    /\ UNCHANGED <<holder, live, made, disk>>

Executed(t) == pc[t] = "execute" /\ me[t].rem = {} /\ me[t].add = {}

\* An op fails or the run is cancelled: preflight, claim or tag too.
CanFail(t) ==
    \/ pc[t] \in {"claim", "claiming", "execute"} /\ "op" \in Faults
    \/ pc[t] = "recorded" /\ me[t].cur \in Namespaces /\ "op" \in Faults
    \/ pc[t] = "execute" /\ me[t].rem = {} /\ \E n \in me[t].add : ~CanCreate(n)
    \/ me[t].op = "deploy" /\ "save" \in Faults
       /\ (Executed(t) \/ pc[t] \in {"saving", "saved"})

\* The plan is dropped and the journal unwound.
StartUnwind(t, after) ==
    /\ me' = [me EXCEPT ![t] =
        [Blank EXCEPT !.op = me[t].op, !.entries = me[t].entries, !.after = after,
                      !.before = me[t].before, !.failed = me[t].failed]]
    /\ Goto(t, "unwind")

Fail(t) ==
    /\ CanFail(t)
    /\ StartUnwind(t, IF me[t].op = "deploy" THEN "undeployed" ELSE "leave")
    /\ UNCHANGED <<holder, host, disk>>

\* Drop for an armed Journal: the same inverses, and the file stays.
Panic(t) ==
    /\ "panic" \in Faults
    /\ \/ pc[t] \in {"claim", "execute"}
       \/ pc[t] \in {"saving", "saved"} /\ me[t].op = "deploy" /\ "save" \in Faults
    /\ StartUnwind(t, "dropped")
    /\ UNCHANGED <<holder, host, disk>>

-----------------------------------------------------------------------------
\* Journal::unwind

\* Mutant: stops at the oldest entry.
UnwindStopsEarly(t) ==
    /\ pc[t] = "unwind" /\ me[t].entries # <<>>
    /\ LET e == Last(me[t].entries) IN
        /\ Delete(t, e, [me[t] EXCEPT !.entries = IF Len(@) <= 2 THEN <<>> ELSE Front(@)])
        /\ tags' = tags \ {e}
    /\ UNCHANGED <<holder, made, disk, pc>>

\* One inverse, newest first; the tag goes whether or not the delete worked.
Unwind(t) ==
    /\ pc[t] = "unwind" /\ me[t].entries # <<>>
    /\ LET e == Last(me[t].entries) IN
        /\ Delete(t, e, [me[t] EXCEPT !.entries = Front(@)])
        /\ tags' = tags \ {e}
    /\ UNCHANGED <<holder, made, disk, pc>>

\* All undone: discard the file (Drop does not), then what the caller does.
Unwound(t) ==
    /\ pc[t] = "unwind" /\ me[t].entries = <<>>
    /\ journal' = IF me[t].after = "dropped" THEN journal ELSE Absent
    /\ \/ /\ me[t].after = "allocate"
          /\ Goto(t, "allocate")
          /\ me' = [me EXCEPT ![t].before = live]
          /\ UNCHANGED holder
       \/ /\ me[t].after = "reaped" \/ (me[t].after = "undeployed" /\ saved = Absent)
          /\ Goto(t, "remove_dir")
          /\ me' = [me EXCEPT ![t].before = {}]
          /\ UNCHANGED holder
       \/ /\ me[t].after \in {"leave", "dropped"}
             \/ (me[t].after = "undeployed" /\ saved # Absent)
          /\ Leave(t)
    /\ UNCHANGED <<host, saved, topo>>

-----------------------------------------------------------------------------
\* Saving (state::save writes two files), and the end of a run

\* merge_into's take_changed, which is per field: the file keeps what it
\* has unless this handle changed the field since it was loaded.
TakeChanged(t, field) ==
    IF me[t].env \cap field # me[t].nodes \cap field
    THEN me[t].env \cap field ELSE Claimed \cap field

\* Mutant: the state of the topology is written before the plan is executed.
DeploySavesEarly(t) ==
    /\ pc[t] = "execute" /\ me[t].op = "deploy"
    /\ saved' = me[t].want \cap Nodes
    /\ Goto(t, "saving")
    /\ UNCHANGED <<holder, host, topo, journal, me>>

\* deploy_inner: state.json, before the journal is discarded.
DeploySaves(t) ==
    /\ Executed(t) /\ me[t].op = "deploy"
    /\ saved' = me[t].env
    /\ Goto(t, "saving")
    /\ UNCHANGED <<holder, host, topo, journal, me>>

\* apply_ctx: the journal goes first, the state is merged and saved after.
ApplyDiscards(t) ==
    /\ Executed(t) /\ me[t].op = "apply"
    /\ journal' = Absent
    /\ Goto(t, "merging")
    /\ UNCHANGED <<holder, host, saved, topo, me>>

\* save_merged loads both files, so the lab must still be there.
ApplySaves(t) ==
    /\ pc[t] = "merging"
    /\ saved # Absent /\ topo # Absent
    /\ saved' = TakeChanged(t, Namespaces) \cup TakeChanged(t, Containers)
    /\ Goto(t, "saving")
    /\ UNCHANGED <<holder, host, topo, journal, me>>

\* The error returns; what the apply created stays.
ApplyNotSaved(t) ==
    /\ me[t].op = "apply"
    /\ \/ pc[t] = "merging" /\ (saved = Absent \/ topo = Absent)
       \/ pc[t] \in {"merging", "saving"} /\ "save" \in Faults
    /\ Leave(t)
    /\ UNCHANGED <<host, disk>>

SaveTopology(t) ==
    /\ pc[t] = "saving"
    /\ topo' = me[t].want \cap Nodes
    /\ Goto(t, "saved")
    /\ UNCHANGED <<holder, host, saved, journal, me>>

\* The assertions ran; a deploy's journal is discarded; the guard drops.
Finish(t) ==
    /\ pc[t] = "saved"
    /\ journal' = IF me[t].op = "deploy" THEN Absent ELSE journal
    /\ Leave(t)
    /\ UNCHANGED <<host, saved, topo>>

-----------------------------------------------------------------------------
\* Apply and destroy: a handle loaded before the lock is taken

\* state::load, without the lock: state.json ...
Load(t) ==
    /\ pc[t] = "idle" /\ saved # Absent
    /\ \E op \in Ops \cap {"apply", "destroy"} :
        me' = [me EXCEPT ![t] = [Blank EXCEPT !.op = op, !.nodes = saved]]
    /\ Goto(t, "loading")
    /\ UNCHANGED <<holder, host, disk>>

\* ... then topology.toml, without which the load fails.
LoadTopology(t) ==
    /\ pc[t] = "loading"
    /\ \/ /\ topo # Absent
          /\ me' = [me EXCEPT ![t].topo = topo]
          /\ Goto(t, "loaded")
          /\ UNCHANGED holder
       \/ topo = Absent /\ Leave(t)
    /\ UNCHANGED <<host, disk>>

\* lock_for gives up after its grace, or apply's preflight checks fail
\* before it has a journal.
Refused(t) ==
    /\ pc[t] = "loaded"
    /\ holder # Nobody \/ (me[t].op = "apply" /\ "op" \in Faults)
    /\ Leave(t)
    /\ UNCHANGED <<host, disk>>

\* The plans come from the handle, whatever the files say by now.
Apply(t) ==
    /\ pc[t] = "loaded" /\ me[t].op = "apply"
    /\ holder = Nobody
    /\ holder' = t
    /\ \E want \in (SUBSET Nodes) \ {{}} :
        /\ (want \ me[t].topo) \cap made = {}
        /\ me' = [me EXCEPT ![t] =
            [me[t] EXCEPT !.want = want, !.env = me[t].nodes, !.before = live,
                          !.rem = me[t].topo \ want, !.add = want \ me[t].topo]]
    /\ Goto(t, "execute")
    /\ UNCHANGED <<host, disk>>

\* destroy_ctx: the registrations first ...
Destroy(t) ==
    /\ pc[t] = "loaded" /\ me[t].op = "destroy"
    /\ holder = Nobody
    /\ holder' = t
    /\ live' = live \ Registrations
    /\ me' = [me EXCEPT ![t] = [Blank EXCEPT !.op = "destroy", !.rem = me[t].nodes]]
    /\ Goto(t, "destroy")
    /\ UNCHANGED <<tags, made, disk>>

\* ... then the containers, then the namespaces, with their tags.
DestroyNode(t) ==
    /\ pc[t] = "destroy"
    /\ \E n \in me[t].rem :
        /\ n \in Containers \/ me[t].rem \cap Containers = {}
        /\ Delete(t, n, [me[t] EXCEPT !.rem = @ \ {n}])
        /\ tags' = tags \ {n}
    /\ UNCHANGED <<holder, made, disk, pc>>

Destroyed(t) ==
    /\ pc[t] = "destroy" /\ me[t].rem = {}
    /\ Goto(t, "remove_dir")
    /\ UNCHANGED <<holder, host, disk, me>>

\* state::remove: remove_dir_all takes the files one by one.
RemoveDir(t) ==
    /\ pc[t] = "remove_dir"
    /\ \/ saved # Absent /\ saved' = Absent /\ UNCHANGED <<topo, journal>>
       \/ topo # Absent /\ topo' = Absent /\ UNCHANGED <<saved, journal>>
       \/ journal # Absent /\ journal' = Absent /\ UNCHANGED <<saved, topo>>
    /\ UNCHANGED <<holder, host, pc, me>>

\* The directory is gone (or could not be removed): the guard drops, and a
\* reaper goes on.
Removed(t) ==
    /\ pc[t] = "remove_dir"
    /\ disk = <<Absent, Absent, Absent>> \/ "save" \in Faults
    /\ IF me[t].op = "reap"
       THEN holder' = Nobody /\ Goto(t, "reap_claims") /\ UNCHANGED me
       ELSE Leave(t)
    /\ UNCHANGED <<host, disk>>

-----------------------------------------------------------------------------
\* The reaper (reap_orphans): pending journals, stale claims, tagged debris

\* The caller's state::list(), then the journals found.
Reap(t) ==
    /\ pc[t] = "idle" /\ "reap" \in Ops
    /\ me' = [me EXCEPT ![t] = [Blank EXCEPT !.op = "reap", !.known = saved # Absent]]
    /\ Goto(t, "reap_pending")
    /\ UNCHANGED <<holder, host, disk>>

\* labs_with_pending_journal ...
ReapPending(t) ==
    /\ pc[t] = "reap_pending"
    /\ Goto(t, IF journal = Absent THEN "reap_claims" ELSE "reap_filter")
    /\ UNCHANGED <<holder, host, disk, me>>

\* Mutant: skips the labs that have no state.
ReapFilterInverted(t) ==
    /\ pc[t] = "reap_filter"
    /\ Goto(t, IF saved # Absent THEN "reap_lock" ELSE "reap_claims")
    /\ UNCHANGED <<holder, host, disk, me>>

\* ... of the labs without state.
ReapFilter(t) ==
    /\ pc[t] = "reap_filter"
    /\ Goto(t, IF saved = Absent THEN "reap_lock" ELSE "reap_claims")
    /\ UNCHANGED <<holder, host, disk, me>>

\* Under the lock: unwind it, then remove the directory.  Its lock is held
\* (a deploy may be running): skipped.
ReapJournal(t) ==
    /\ pc[t] = "reap_lock"
    /\ \/ /\ holder = Nobody /\ journal # Absent
          /\ holder' = t
          /\ me' = [me EXCEPT ![t] = [me[t] EXCEPT !.entries = journal, !.after = "reaped",
                                                   !.before = live]]
          /\ Goto(t, "unwind")
       \/ /\ holder # Nobody \/ journal = Absent
          /\ Goto(t, "reap_claims")
          /\ UNCHANGED <<holder, me>>
    /\ UNCHANGED <<host, disk>>

\* Host claims of a lab that is gone, released under its lock (taken,
\* re-checked and dropped: one step).
ReapClaims(t) ==
    /\ pc[t] = "reap_claims"
    /\ live' = IF holder = Nobody /\ saved = Absent THEN live \ {"claims"} ELSE live
    /\ Goto(t, "reap_list")
    /\ UNCHANGED <<holder, tags, made, disk, me>>

\* find_orphans: the tagged namespaces of the host ...
ReapList(t) ==
    /\ pc[t] = "reap_list"
    /\ me' = [me EXCEPT ![t] = [me[t] EXCEPT !.rem = live \cap tags, !.known = FALSE]]
    /\ Goto(t, IF me[t].known THEN "reap_claimed" ELSE "reap_state")
    /\ UNCHANGED <<holder, host, disk>>

\* ... without those a listed lab's state.json claims (all of them, when it
\* cannot be read) ...
ReapClaimed(t) ==
    /\ pc[t] = "reap_claimed"
    /\ me' = [me EXCEPT ![t].rem = IF saved = Absent THEN {} ELSE @ \ saved]
    /\ Goto(t, "reap_group")
    /\ UNCHANGED <<holder, host, disk>>

\* ... and without those of an unlisted lab that has a state.json ...
ReapState(t) ==
    /\ pc[t] = "reap_state"
    /\ \/ saved = Absent /\ Goto(t, "reap_busy") /\ UNCHANGED me
       \/ /\ saved # Absent
          /\ me' = [me EXCEPT ![t].rem = {}]
          /\ Goto(t, "reap_group")
    /\ UNCHANGED <<holder, host, disk>>

\* ... or whose lock is held (protected_labs).
ReapBusy(t) ==
    /\ pc[t] = "reap_busy"
    /\ me' = [me EXCEPT ![t].rem = IF holder = Nobody THEN @ ELSE {}]
    /\ Goto(t, "reap_group")
    /\ UNCHANGED <<holder, host, disk>>

\* by_owner reads the tags again: what has none any more has no owner.
ReapGroup(t) ==
    /\ pc[t] = "reap_group"
    /\ me' = [me EXCEPT ![t] = [me[t] EXCEPT !.add = me[t].rem \ tags, !.rem = @ \cap tags]]
    /\ Goto(t, "reap_unowned")
    /\ UNCHANGED <<holder, host, disk>>

\* namespace::delete, and the tag with it when that worked (one step).
ReapNamespace(t, n, l) ==
    \/ n \in live /\ Delete(t, n, l) /\ tags' = tags \ (live \ live')
    \/ n \notin live /\ me' = [me EXCEPT ![t] = l] /\ UNCHANGED <<live, tags, mishaps>>

\* No owner, no lock.
ReapUnowned(t) ==
    /\ pc[t] = "reap_unowned"
    /\ \E n \in me[t].add : ReapNamespace(t, n, [me[t] EXCEPT !.add = @ \ {n}])
    /\ UNCHANGED <<holder, made, disk, pc>>

\* The owner's lock, or its namespaces are kept.
ReapOwner(t) ==
    /\ pc[t] = "reap_unowned" /\ me[t].add = {}
    /\ \/ /\ holder = Nobody /\ me[t].rem # {}
          /\ holder' = t
          /\ Goto(t, "reap_owned")
       \/ /\ holder # Nobody \/ me[t].rem = {}
          /\ Goto(t, "reaped")
          /\ UNCHANGED holder
    /\ UNCHANGED <<host, disk, me>>

ReapOwned(t) ==
    /\ pc[t] = "reap_owned"
    /\ \E n \in me[t].rem : ReapNamespace(t, n, [me[t] EXCEPT !.rem = @ \ {n}])
    /\ UNCHANGED <<holder, made, disk, pc>>

ReapRelease(t) ==
    /\ pc[t] = "reap_owned" /\ me[t].rem = {}
    /\ holder' = Nobody
    /\ Goto(t, "reaped")
    /\ UNCHANGED <<host, disk, me>>

Reaped(t) ==
    /\ pc[t] = "reaped"
    /\ Leave(t)
    /\ UNCHANGED <<host, disk>>

-----------------------------------------------------------------------------

\* SIGKILL: no destructor runs; the kernel drops the lock.
Kill(t) ==
    /\ pc[t] # "idle" /\ "kill" \in Faults /\ Mishap
    /\ Leave(t)
    /\ UNCHANGED <<host, disk>>

DeployStep(t) ==
    \/ Deploy(t) \/ Allocate(t) \/ AllocateFails(t) \/ RecordSubnets(t)
    \/ RecordClaims(t) \/ Claim(t) \/ DeploySaves(t)

ExecuteStep(t) ==
    \/ Create(t) \/ RecordNode(t) \/ Tag(t) \/ Fail(t) \/ Panic(t)
    \/ Unwound(t) \/ SaveTopology(t) \/ Finish(t)

HandleStep(t) ==
    \/ Load(t) \/ LoadTopology(t) \/ Refused(t)
    \/ Apply(t) \/ ApplyDiscards(t) \/ ApplySaves(t) \/ ApplyNotSaved(t)
    \/ Destroy(t) \/ Destroyed(t) \/ RemoveDir(t) \/ Removed(t)

ReapStep(t) ==
    \/ Reap(t) \/ ReapPending(t) \/ ReapFilter(t) \/ ReapJournal(t) \/ ReapClaims(t)
    \/ ReapList(t) \/ ReapClaimed(t) \/ ReapState(t) \/ ReapBusy(t) \/ ReapGroup(t)
    \/ ReapOwner(t) \/ ReapRelease(t) \/ Reaped(t)

\* The steps that delete, and a kill, count their own mishaps.
DeletingStep(t) ==
    RemoveNode(t) \/ Unwind(t) \/ DestroyNode(t) \/ ReapUnowned(t) \/ ReapOwned(t)

Step(t) ==
    \/ /\ DeployStep(t) \/ ExecuteStep(t) \/ HandleStep(t) \/ ReapStep(t)
       /\ UNCHANGED mishaps
    \/ DeletingStep(t)
    \/ Kill(t)

\* The subnets of a deploy that returned for want of more (AllocateFails),
\* until they are released or a deploy allocates them anew.
Spills(t) ==
    spilled' = IF pc'[t] = "allocated" THEN {}
               ELSE live' \cap (spilled \cup IF pc'[t] = "idle" THEN {"subnets"} \ live ELSE {})

Next ==
    \E t \in Tasks :
        /\ Step(t)
        /\ Spills(t)
        /\ quiet' = IF pc'[t] = "reap_pending" \/ (quiet = t /\ pc'[t] # "idle")
                    THEN t ELSE Nobody

Spec == Init /\ [][Next]_vars

-----------------------------------------------------------------------------
\* Properties

Places ==
    {"idle", "allocate", "allocated", "claim", "claiming", "execute", "created",
     "recorded", "unwind", "merging", "saving", "saved", "loading", "loaded",
     "destroy", "remove_dir", "reap_pending", "reap_filter", "reap_lock",
     "reap_claims", "reap_list", "reap_claimed", "reap_state", "reap_busy",
     "reap_group", "reap_unowned", "reap_owned", "reaped"}

Locals ==
    [op : {"none", "deploy", "apply", "destroy", "reap"},
     nodes : SUBSET Nodes, topo : SUBSET Nodes, want : SUBSET Resources,
     rem : SUBSET Nodes, add : SUBSET Nodes, env : SUBSET Nodes,
     cur : Nodes \cup {Nobody}, entries : Seq(Resources),
     after : {"idle", "allocate", "undeployed", "leave", "dropped", "reaped"},
     before : SUBSET Resources, known : BOOLEAN, failed : BOOLEAN]

\* Every variable has its type: tags are on namespaces only, and what the
\* files and the journal name are resources of the lab.
TypeOK ==
    /\ holder \in Tasks \cup {Nobody}
    /\ live \subseteq Resources
    /\ tags \subseteq Namespaces
    /\ made \subseteq Containers
    /\ saved \in (SUBSET Nodes) \cup {Absent}
    /\ topo \in (SUBSET Nodes) \cup {Absent}
    /\ journal = Absent \/ journal \in Seq(Resources)
    /\ pc \in [Tasks -> Places]
    /\ me \in [Tasks -> Locals]
    /\ quiet \in Tasks \cup {Nobody}
    /\ spilled \subseteq {"subnets"}
    /\ mishaps \in 0..MaxMishaps

\* What the lock's holder can still undo, save or delete.
InHand ==
    IF holder = Nobody THEN {}
    ELSE me[holder].env \cup me[holder].rem \cup {me[holder].cur}
         \cup Range(me[holder].entries)
         \cup (IF pc[holder] = "allocated" THEN {"subnets"} ELSE {})

\* What the journal names, and what a lab with a state.json may have registered.
Noted == IF journal = Absent THEN {} ELSE Range(journal)
Registered == IF saved = Absent THEN {} ELSE Registrations

\* What exists although nothing on the host says that it is this lab's.
Untracked == live \ (Claimed \cup tags \cup InHand \cup Noted \cup Registered)

\* Whatever runs interleave, fail or panic, a namespace is claimed by
\* state.json, journaled, tagged or in the hands of the run under way, so
\* that destroy, a rollback or the reaper can find it: only a kill, or a
\* delete that failed and was logged, may lose one, and only one each.
NamespacesTracked == Cardinality(Untracked \cap Namespaces) <= mishaps

\* The same of every resource, containers, subnets and host claims too: of
\* deploys and reaps, and of destroys that come one after another.  (An apply
\* discards its journal before it saves.)  The one exception is exactly what
\* a deploy got before the pool was full: those subnets are nobody's until a
\* destroy of the lab or another deploy of it (AllocateFails).
ResourcesTracked == TypeOK /\ Cardinality(Untracked \ spilled) <= mishaps

\* A rollback (a failed deploy or apply, or the Drop of a panic) removes all
\* that its run created.
RollbackComplete ==
    \A t \in Tasks :
        pc[t] = "unwind" /\ me[t].entries = <<>> /\ ~me[t].failed
            => live \subseteq me[t].before

\* A `destroy --orphans` that nothing runs beside, and none of whose deletes
\* failed, leaves the host with what state.json claims: no tagged namespace
\* besides, and for a lab that has none no journal and no host claim.
ReapLeavesNoDebris ==
    \A t \in Tasks :
        /\ pc[t] = "reaped" /\ quiet = t /\ ~me[t].failed
        /\ \A u \in Tasks \ {t} : pc[u] = "idle"
        => /\ live \cap tags \subseteq Claimed
           /\ saved = Absent => journal = Absent /\ "claims" \notin live

\* With no run under way, a lab that has its files has its nodes.
SavedLabIsLive ==
    holder = Nobody /\ mishaps = 0 /\ topo # Absent => Claimed \subseteq live

-----------------------------------------------------------------------------
\* The parts of the inductive invariants

\* The places of a run that has the lab's lock, and of those that create.
Held ==
    {"allocate", "allocated", "claim", "claiming", "execute", "created", "recorded", "unwind",
     "merging", "saving", "saved", "destroy", "remove_dir", "reap_owned"}
Creating == Held \ {"destroy", "remove_dir", "reap_owned"}

HolderIsAtWork == \A t \in Tasks : holder = t <=> pc[t] \in Held

\* What a run's locals hold where it is.
FitsAt(t) ==
    /\ pc[t] = "allocated" => "subnets" \in Registrations
    /\ pc[t] = "claiming" => "claims" \in Range(me[t].entries)
    /\ pc[t] \in {"created", "recorded"} => me[t].cur \in Nodes
    /\ pc[t] = "recorded" => me[t].entries # <<>> /\ Last(me[t].entries) = me[t].cur

\* A run that creates has journaled all that it created, but for its last.
UndoableBy(t) ==
    pc[t] \in Creating /\ ~me[t].failed =>
        live \subseteq me[t].before \cup Range(me[t].entries)
                       \cup (IF pc[t] = "created" THEN {me[t].cur} ELSE {})
                       \cup (IF pc[t] = "allocated" THEN {"subnets"} ELSE {})

\* The one node a run is about to tag, or to delete again.
AtHand(t) ==
    IF pc[t] \in {"created", "recorded"} THEN {me[t].cur}
    ELSE IF pc[t] = "unwind" /\ me[t].entries # <<>> THEN {Last(me[t].entries)} ELSE {}

\* The namespaces without a tag, but for that one: each cost a mishap.
Loose == {n \in live \cap Namespaces : n \notin tags /\ \A t \in Tasks : n \notin AtHand(t)}
LooseAreFew == IsFiniteSet(Loose) /\ Cardinality(Loose) <= mishaps

\* A reap that nobody runs beside, place by place.
Reaping(t) ==
    /\ pc[t] \in {"unwind", "remove_dir", "reap_pending", "reap_filter", "reap_lock", "reap_claims",
                  "reap_list", "reap_claimed", "reap_state", "reap_busy", "reap_group",
                  "reap_unowned", "reap_owned", "reaped"}
    /\ me[t].op = "reap" /\ (pc[t] = "unwind" => me[t].after = "reaped")
    /\ pc[t] \in {"reap_pending", "reap_filter", "reap_lock", "unwind", "remove_dir", "reap_claims",
                  "reap_list"} => (me[t].known <=> saved # Absent)
    /\ pc[t] \in {"reap_lock", "unwind", "remove_dir", "reap_state", "reap_busy"} => saved = Absent
    /\ pc[t] = "reap_claimed" => saved # Absent
    /\ pc[t] = "remove_dir" => journal = Absent
    /\ pc[t] \in {"reap_claims", "reap_list", "reap_claimed", "reap_state", "reap_busy", "reap_group",
                  "reap_unowned", "reap_owned", "reaped"} /\ saved = Absent => journal = Absent
    /\ pc[t] \in {"reap_list", "reap_claimed", "reap_state", "reap_busy", "reap_group",
                  "reap_unowned", "reap_owned", "reaped"} /\ saved = Absent => "claims" \notin live
    /\ pc[t] \in {"reap_claimed", "reap_state", "reap_busy", "reap_group", "reap_unowned",
                  "reap_owned"} /\ ~me[t].failed => live \cap tags \subseteq Claimed \cup me[t].rem
    /\ pc[t] = "reaped" /\ ~me[t].failed => live \cap tags \subseteq Claimed

QuietReaps ==
    \A t \in Tasks :
        quiet = t /\ (\A u \in Tasks \ {t} : pc[u] = "idle") => Reaping(t)

\* The places of a deploy under way.
Making == {"allocate", "allocated", "claim", "claiming", "execute", "created", "recorded",
           "saving", "saved"}

\* The nodes a deploy has made and journaled.
MadeBy(t) == me[t].env \cup (IF pc[t] = "recorded" THEN {me[t].cur} ELSE {})

\* What a run that is no apply knows of the files, place by place: with the
\* lock, or, of a handle loaded without it, as long as no other run comes
\* between.
Knows(t) ==
    /\ pc[t] # "merging"
    /\ pc[t] \in {"allocate", "allocated"} => me[t].entries = <<>> /\ journal = Absent
    /\ pc[t] \in Making =>
        /\ me[t].op = "deploy" /\ me[t].rem = {} /\ Noted = Range(me[t].entries)
        /\ MadeBy(t) \subseteq Noted /\ Noted \subseteq MadeBy(t) \cup Registrations
    /\ pc[t] \in Making \ {"saving", "saved"} => saved = Absent
    /\ pc[t] \in {"saving", "saved"} => saved = me[t].env
    /\ pc[t] = "unwind" =>
        /\ Range(me[t].entries) \subseteq Noted
        /\ me[t].after = "allocate" =>
              saved = Absent /\ me[t].op = "deploy" /\ me[t].rem = {} /\ me[t].env = {}
    /\ pc[t] \in {"loading", "loaded"} =>
        "destroy" \in Ops /\ me[t].op = "destroy" /\ saved = me[t].nodes
    /\ pc[t] = "destroy" => saved # Absent /\ me[t].rem \subseteq saved

\* A journal beside a state.json names the same nodes.
FilesAgree ==
    saved # Absent /\ journal # Absent => saved \subseteq Noted /\ Noted \subseteq saved \cup Registrations

\* What the disk and the tags tell: with a journal there, that alone.
OnDisk == tags \cup (IF journal = Absent THEN Claimed \cup Registered ELSE Noted)

\* What a run has made and not journaled yet.
JustMade(t) ==
    CASE pc[t] = "created" -> {me[t].cur} [] pc[t] = "allocated" -> {"subnets"} [] OTHER -> {}

\* Where run t, or whoever comes after it, finds what exists.
Findable(t) ==
    IF pc[t] = "destroy" THEN tags \cup me[t].rem
    ELSE IF pc[t] = "remove_dir" THEN tags
    ELSE IF pc[t] = "unwind" THEN tags \cup Range(me[t].entries)
    ELSE IF pc[t] \in Making THEN tags \cup Noted \cup JustMade(t)
    ELSE OnDisk

\* The rest, but for what spilled: each cost a mishap.
Missing(t) == live \ Findable(t)
Lost(t)    == Missing(t) \ spilled
LostAreFew ==
    \A t \in Tasks : holder \in {t, Nobody} => IsFiniteSet(Lost(t)) /\ Cardinality(Lost(t)) <= mishaps

\* Without a mishap, a save that fails and another run, what state.json
\* claims exists until a destroy; a reap spares it.
Intact(t) ==
    /\ mishaps = 0 /\ pc[t] \notin {"destroy", "remove_dir"} => Claimed \subseteq live
    /\ pc[t] \in Making => me[t].env \subseteq live
    /\ pc[t] \in {"created", "recorded"} => me[t].cur \in live
    /\ pc[t] \in {"unwind", "reap_lock", "reap_busy"} => saved = Absent
    /\ pc[t] \in {"reap_group", "reap_unowned", "reap_owned"} => me[t].rem \cap Claimed = {}
    /\ pc[t] = "reap_unowned" => me[t].add \cap Claimed = {}

IInv ==
    /\ TypeOK
    /\ HolderIsAtWork
    /\ \A t \in Tasks : FitsAt(t) /\ UndoableBy(t)
=============================================================================
