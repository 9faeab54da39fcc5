# A TLA+ model of nlink-lab

nlink-lab turns a topology file into network namespaces, containers and links
on one Linux host, changes them while they run, and takes them down again.
Several processes do this at once: CLI runs, a daemon's jobs, tests,
scenarios, a GUI. They share the host and a few files, and meet only at a
lock per lab. This directory models what is concurrent, persistent or hard to
order in that: the lock, a lab's life under it, how one topology is changed
into another, the state of a running lab, the daemon's queues, jobs and
events, and the GUI's hold on a file that others write. The modules are
translated from the source; `PROJECT.json` maps every definition to its lines.

## The system

| Component | State | Operations | Meets the others through |
|---|---|---|---|
| Per-lab lock (`state.rs`) | `.locks/<lab>.lock`, its flock, the record in it | `lock`, `lock_for`, `lock_wait`, `remove_file`, drop | every change of a lab |
| State store (`state.rs`) | `state.json`, `topology.toml` | `exists`, `load`, `save`, `remove` | read without the lock by `load` and the reaper |
| Deploy, apply, destroy (`deploy/`, `running.rs`) | the host's namespaces, tags, containers | `deploy_ctx`, `apply_ctx`, `destroy_ctx` | lock, files, journal, pool, registry |
| Plan and diff (`deploy/op.rs`, `deploy/plan`, `deploy/apply.rs`) | none; the host it executes against | `plan`, `Plan::diff`, `execute`, `reattach_ctx` | apply, restart |
| Undo journal (`deploy/rollback.rs`) | `journal.json`, the entries in memory | `record`, `discard`, `unwind`, drop | read by the next deploy and by the reaper |
| Reaper (`host.rs`, `netns_tag.rs`) | none | `reap_orphans` | reads tags, files and locks one after another |
| Running lab (`running.rs`, `lab.rs`) | a copy of `state.json` and its baseline; the kernel's traffic control; processes | `begin`, `refresh`, `change_tc`, `commit`, spawn, kill | lock, `state.json` |
| Replay (`replay.rs`) | a handle of its own | `replay_tick`, `replay_end` | lock and kernel, the file only with `keep` |
| Scenario (`scenario.rs`) | what it touched, and how that was | steps, `put_back` | a running lab's operations |
| Subnet pool, host registry | one JSON file each, for all labs | allocate, claim, free, release | deploy, destroy, reaper |
| Event log (`events.rs`) | `events.ndjson` and its predecessor | `append`, rotate, tail | every change; the daemon's registry |
| Daemon jobs (`nlink-labd/jobs.rs`, `server.rs`) | a queue and a thread per lab, the listed operations, each one's log and channel | enqueue, idle exit, record, subscribe, follow, attach, cancel | the operations above; clients |
| Daemon hub (`nlink-labd/hub.rs`) | what the last scan saw, collectors, a broadcast channel | scan, update, want, collect, subscribe | files of all labs; clients |
| GUI design tab (`gui/reduce.rs`, `effect.rs`, `doc.rs`) | editor, file time, loads and saves under way | load, edit, save, poll, close | the topology file |
| Client; parser, validator, renderer; node services; observation; other front ends | - | - | data for, or callers of, the above |

What is hard in it, and what makes each part correct:

- **The lock file is deleted.** A waiter may hold the flock of an inode nobody
  else will open; a forked child may keep a flock its owner dropped. One guard
  per lab at a time, and a call that returns.
- **A run dies anywhere.** Creation, journal entry and tag are three steps, and
  a save is two files. What a lab has on the host must be findable: in
  `state.json`, the journal, a tag or the memory of the run under way. A
  rollback removes all its run created.
- **The reaper looks from outside.** It reads tags, state and lock at
  different moments of somebody else's run.
- **A diff sees keys.** It never looks at the host, and a namespace that goes
  takes with it links the two plans have in common. Its ops must fit what they
  meet, also after a failed attempt removed things nobody put back, and the
  result must be what a fresh deploy leaves.
- **Handles are stale.** Each has a copy of the state from its last look. A
  three-way merge under the lock must lose no change and revive none, and the
  kernel must end as the file says.
- **Threads come and go.** A queue's thread leaves when idle, fails to start or
  dies in a panic, while clients enqueue. Every accepted change runs, alone
  and in order, and its asker is answered.
- **Followers are slow and late.** Bounded channels overrun; a client attaches
  in the middle; a log is rotated under its reader. Each must see the right
  things once and in order, or be told of the gap, and must end.
- **A file has two writers.** An editor must neither lose what was typed nor
  show an old text as the file's.

`PROJECT.json` lists these hazards at their lines, with the properties aimed
at each.

## Modules

- `LabMutex`: what the lock promises. Somebody holds the lab or nobody does.
- `LabLock`: the protocol. `path` is the inode the lock path names, `owner`
  each inode's flock, `rec` the holder record in it; a task goes
  `open -> opened -> flocked -> acquired -> held -> [unlinked] -> closing`.
  `Flock`, `FlockRetry`, `FlockRefused`, `Revalidate`, `RevalidateFails` are
  the branches of `acquire_with`; `Record`, `RemoveFile`, `ClearRecord`,
  `Close` the life of a `LabLock`. Another error of flock than EWOULDBLOCK may
  come at any time: the caller gets Locked, and `lock_wait` tries on. `Expire` is the clock, `Fork` and
  `ChildExec` another thread's spawn, `Kill` SIGKILL. An inode number is
  reused once nothing refers to it. `acquire_with` can also block inside
  flock; no caller asks it to, so that branch is left out. Pids are not
  reused (the code asks `/proc` whether a recorded holder lives).
- `LabLifecycle`: one lab, any number of tasks that deploy, apply, destroy and
  reap it. Resources are namespaces, containers and the two registrations;
  links, addresses and processes live and die with their namespace. `holder`
  is `LabMutex`'s. Every file write and every host change is a step of its
  own, unlocked reads too. Steps under the lock that no other task can tell
  apart are one.
- `ApplyPlan`: one lab at rest, and a change of it. `Plan` is the planner's
  sequence of ops, `Key`, `InverseOf`, `LivesInNode`, `Stage` the methods of
  `Op`, `Diff` is `Plan::diff` and `ReattachPlan` what a container's restart
  executes. `Step` is `execute_one` with its effect on the host, on `ApplyEnv`
  and on the journal; `OpFails` its refusal, `Fault` a cancellation or an error
  from outside, `Undo` one entry of `unwind`. The host is the namespaces, the
  links with their payload and bridge, what is up and configured, the count
  of processes, and the `strays`: commands that go on in a container after
  their exec client was killed. `Undone` is an inverse's effect, which for a
  process is that kill only; the forward removal (`Kill`) stops the command in
  the container too. The kernel is external: it tears the veths of a deleted
  namespace down later (`dying`, `Reap`), and their names are taken until
  then.
- `RuntimeState`: one running lab with handles on it. `mine` and `base` are a
  `RunningLab`'s fields and its `Baseline`. `Begin` is the lock and
  `refresh`, `ChangeTc` is `change_tc` with `reconcile_node_tc`, `Commit` is
  `save_merged`. `Abort` distinguishes a `Lab`, which reads the file again
  after a failure, from an engine, which keeps its memory. `Ticked` and
  `ReplayEnd` are a replay's, which ends in the same way after a tick that
  failed. nlink's reconciliation is external, modelled by
  what the code passes to it: declared is set, no longer declared is removed,
  the rest is left alone.
- `LabQueues`: the daemon's queue per lab. `Enqueue`, `EnqueueNew` and
  `EnqueueFails` are the branches of `enqueue`, each under the `queues` mutex;
  `ThreadStarts`, `Receive`, `Idle`, `IdleLeave`, `IdleStay`, `Answer` and
  `Panic` are `spawn_queue`'s thread; `MakeJob` and `Surplus` the list of
  operations and what it forgets.
- `Jobs`: one operation and the calls about it. `QueuedEvent` to
  `FinishedEvent` are `record`; `Store` and `Done` the two halves of `finish`;
  `Subscribe`, `ReplayLog`, `GoLive`, `TakeEvent`, `Lagged`, `SeeDone`,
  `Drain`, `Return` the life of `follow`; `Leave` and the cancels what
  `server.rs` routes. `OpStream` is what a follower is promised.
- `EventLog`: writers that append under an flock and rotate, and the scan that
  tails the file by inode and offset without a lock.
- `Hub`: `Scan`, `Settle`, `AnnounceLabs`, `AnnounceTopology` are the
  registry's loop, `Want`, `DropWant` and `Collect` the collectors,
  `Check` to `Leave` a subscription. A broadcast channel is an inbox per
  receiver that drops its oldest note.
- `Design`: the reducer's messages as atomic actions, and its effects
  (`LoadReads`, `LoadStats`, `SaveWrites`, `SaveStats`, `PollStats`) as steps
  of their own that answer in any order.
- `MC...`: instances, with one `.cfg` per run.
- `..._proofs`: the theorems about a module, for all values of its constants.

Composition: `LabLock` implements `LabMutex`, whose `holder` is the lock of
`LabLifecycle` and `RuntimeState`; `LabQueues` implements `LabMutex` too, with
a lab's queue as the lock and the changes as tasks; `Jobs` implements
`OpStream` and assumes of its queue what `LabQueues`' `EveryChangeEnds` says.
`ApplyPlan` is the inside of `LabLifecycle`'s execution of an apply, with what
a node contains and without the crash of the run.

`acked`, `mishaps`, `quiet`, `spilled`, `arrived`, `by`, `published`, `lost`, `broken`,
`races`, a design's `mine`, and a task's `before` and `failed` are history: the
guards of faults read some as a bound, nothing else reads them.

## Runs

| Run | Instance | States | Checks |
|---|---|---|---|
| `lock` | 2 tasks and their forks, 2 inodes, 2 attempts, fair | 55 thousand | `TypeOK`, `MutualExclusion`, `HolderOwnsPath`, `RecordNamesHolder`, `ImplementsMutex`, `EveryCallReturns` |
| `lifecycle_concurrent` | 2 tasks, 2 namespaces, every operation, 1 mishap | 2.2 million | `NamespacesTracked`, `RollbackComplete`, `ReapLeavesNoDebris` |
| `lifecycle_sequential` | 1 task, 2 namespaces, 2 containers, both registrations, 2 mishaps | 1.4 million | `ResourcesTracked`, `RollbackComplete`, `SavedLabIsLive` |
| `apply` | 2 nodes, every valid topology of namespaces, containers, a link or a network, mgmt, a command; 1 fault; fair | 0.8 million | `Converges`, `OpsFit`, `NothingNewLeft`, `RepeatedChangeEnds` |
| `apply_rollback` | the same with a macvlan | violation | `NothingNewLeft` |
| `runtime` | a Lab and an engine, both ends of a link, 2 pids, 1 mishap | 1.7 million | `FileHoldsWhatWasSet`, `KernelMatchesFile`, `ProcsTracked` |
| `replay` | a Lab and a replay, 2 endpoints of one node, 1 mishap | 0.6 million | `FileHoldsWhatWasSet`, `KernelMatchesFile` |
| `queues` | 2 labs, 3 changes, 3 threads, fair | 0.3 million | `NoWorkLost`, `InOrder`, `UnfinishedIsListed`, `ImplementsMutex`, `EveryChangeEnds` |
| `jobs` | 2 calls, 2 reports, a channel and a log of one, fair | 0.4 million | `ResultIsFinal`, `OwnerMayLeave`, `ImplementsStream`, `EveryCallEnds` |
| `eventlog` | 2 writers, 3 inodes, 5 events, files of two lines, fair | 0.15 million | `LogKept`, `TailIsExact`, `EveryAppendReturns`, `EveryEventSeen` |
| `hub` | a subscription beside the telemetry, 2 revisions, a channel of two, fair | 0.5 million | `FollowerIsCurrent`, `CollectorIsWanted`, `SubscriptionEnds` |
| `design` | 2 texts, 2 writes, 2 loads, fair | 1.0 million | `EditsKept`, `CleanShowsFile`, `ChangeIsNoticed` |

Type invariants are conjuncts of one invariant of each module.

**Bounds.** Two inodes are the one at the path and a detached one, which is
what the revalidation tells apart; two attempts are one that may be retried
and a last one. In the life of a lab two tasks are the run and whoever meets
it, two namespaces are one done and one to do, and a mishap can fall at any
step; a second mishap is a recovery that is interrupted. Two nodes are enough
for a link whose far end stays, for a peer whose number shifts when the node
before it leaves, and for a port that changes place; one fault can fall at any
op of any change, and the kernel's late teardown adds failures of its own. For
the running state two committing handles are enough for a lost update, a
declared and an undeclared endpoint for the two meanings of "cleared". Three
threads are one that dies or leaves, one that takes over and another lab's;
`Keep = 0` puts the retention at its limit at once. Channels, logs and files
of one or two entries overrun and rotate with the few events there are: five
events rotate twice, after which an inode number comes back. A mishap is a
kill, a failed delete or a refusal by the kernel or the disk; the properties
count them where a loss is unavoidable ("at most one namespace per kill").

Deadlock is not checked where the system may stop: all tasks dead or ids given
out (lock, lifecycle), all changes, calls or writes used up (queues, jobs,
design). It is checked in the others. Runs with liveness use no symmetry.

**Fairness.** `lock`: a task inside a call is scheduled and its deadline
passes; the calls poll and never wait in the kernel. No holder is assumed to
let go and no child to exec. `apply`: the executor goes on, the kernel gets to
the namespaces it has to clean up, and the command that failed is run again,
which is what `RepeatedChangeEnds` is about. `queues`: threads are scheduled
and a change returns or panics; nobody is forced to ask. `jobs`: the daemon's
tasks run, the queue works (shown by `queues`), a client reads or goes away.
`eventlog`: a writer that began goes on, strongly fair for the flock since the
kernel serves its waiters; the registry scans on its timer. `hub`: the
registry's loop, threads and tasks run. `design`: effects answer and the
poll timer ticks; users and other programs are free.

## The finding

`apply_rollback`: a macvlan (and an ipvlan) is made in the root namespace,
recorded in the journal as a link there, and then moved into its node.
`unwind` looks for it in the root namespace and finds nothing. If the node was
there before the apply it stays, although `rollback.rs` says that every
mutation records its inverse; the next apply, planned from the unchanged
state, fails on the name when it moves the new one in.

## Disagreements met without a run of their own

The first three need no failure, only two runs that overlap; `LabLifecycle`
has their steps apart and reaches them with two tasks (the third with a
container).

- `protected_labs` asks for the state file and then for the lock
  (`host.rs:336`), and the reaper does not ask for the file again once it has
  the lock. A deploy that saves and lets go between the two looks is taken for
  debris, and the namespaces its `state.json` claims are deleted.
  `docs/cli/destroy.md:128` says that what has no state file is reaped and a
  lab that is being deployed is left alone.
- `apply_ctx` plans from a handle loaded before the lock (`deploy/mod.rs:570`),
  and the map of namespaces is merged as a whole. Of two applies that loaded
  the same state, the second to save drops from `state.json` the node that the
  first one added; `running.rs:1325` says otherwise.
- `destroy_ctx` works from the copy of the state its handle loaded before the
  lock (`running.rs:2932`). A container that an apply added in between is not
  removed, and its id is gone with `state.json`.
- `state.rs:1318` says the reaper unwinds every pending journal; it skips the
  labs that have a state file. Nothing else unwinds the journal of a killed
  apply either: a deploy answers AlreadyExists before it looks, the next
  apply's `Journal::new` begins an empty one over it, and a destroy removes
  the directory with it. Its namespaces keep their tags; a container it had
  started is lost.
- `Undo::KillProcess` (`rollback.rs:236`) kills the pid the deploy started. For
  a background command in a container that is the exec client, and `apply.rs`
  says of it (1350 and 1488) that stopping it alone leaves the command
  running; `stop_in_container` is called by the removals and not by `unwind`,
  though `rollback.rs` says that every mutation records its inverse. After a
  failed apply the command stays in a container that was there before, and the
  repeated apply starts it again. `Converges` and `NothingNewLeft` set these
  `strays` apart; with `strays = {}` asked for, TLC reaches one with a fault
  right after the exec.
- `docs/API.md:171` says that a subscription to a lab ends when the lab goes
  away. A receiver that lagged may have lost the note; the code tells the
  client (`hub.rs:340`), goes on and never looks at the labs again, so the
  subscription stays, and the collector it wants with it, until its client
  leaves. `SubscriptionEnds` leaves a lagged receiver out; without that TLC
  finds the subscription that never ends.
- A collector that returns because its lab is gone leaves its entry in the
  map; `CollectorIsWanted` says that one runs only while wanted, not that one
  runs whenever wanted.
- A tick on a partitioned endpoint rewrites its `saved_impairments` entry, so
  the replaying handle takes the partition for its own change. If an operator
  heals it, a replay that ends with `keep` saves the partition again. The
  `replay` run ends without `keep`.
- `docs/API.md:146` says an attached call may leave without ending the
  operation; its `on_disconnect` is `Cancel` and it does end it.
  `OwnerMayLeave` is about the call that started it.
- After a failed apply the file has what was removed. Repeating the apply
  converges; applying the old file does not, since nothing differs from the
  file.
- A node that changes between namespace and container keeps its links' and
  commands' keys, and they are not made again. `docs/cli/apply.md` says that
  changes of container nodes require a redeploy; `SameKinds` leaves this
  change out.
- A change that reuses the name of a veth's far end right after its namespace
  was deleted may fail with EEXIST. `OpsFit` leaves names about to be freed
  aside; `RepeatedChangeEnds` covers what follows.
- The tail of the event log loses or repeats lines when a rotation falls
  between a scan's look and its read, or a new file has the old inode number
  (`broken`); a lab destroyed and deployed again between two scans is not seen
  to have gone; an edit typed while a save runs loses its mark (`races`); an
  edit typed while a tab without edits reloads drops the reload, and the
  change is not asked about (`ChangeIsNoticed` starts from a file time the tab
  does not know yet).
  The properties name these cases and hold in all others.
- `restart` sets a container's new pid and saves without a refresh
  (`running.rs:1447`); a concurrent change of the containers map is lost.

## Proofs

Every theorem below is about the same `Spec` the runs check, for all values of
the constants that the module's named assumption allows (sets of any size, any
bounds; counters are naturals). Each module defines its inductive invariant
`IInv` at its end, or in its proof module where the operators of the proof are
needed; the proof module shows that the initial states satisfy it, that each
action keeps it, and what follows. The theorems have no hypothesis unless it is
named here.

**`LabLock_proofs`** proves `TypeOK`, `MutualExclusion`, `HolderOwnsPath`,
`RecordNamesHolder` and the refinement `ImplementsMutex`. Mutual exclusion is
not inductive: it says nothing of a task that has the flock and has not
compared inodes yet. `IInv` adds what the code relies on: `FlockAgrees` (an
inode's owner and the tasks' places agree, so an inode has at most one task
past its flock), `GuardAtPath` (a guard's inode is the one at the path),
`RecordFresh` (a living writer's record is in the file it holds) and
`AttemptsLeft`. Two guards are then both at the path, the same inode, with one
owner. The key step is that only the task that has the path's flock unlinks
it. For the refinement, a step that changes who is guarded is `Revalidate`
(acquire), or `RemoveFile`, `ClearRecord` or `Kill` of the holder (release);
all others stutter.

**`LabLifecycle_proofs`** proves `RollbackComplete`, `NamespacesTracked` and
`ReapLeavesNoDebris`, for any tasks, resources, operations and mishaps.
`HolderIsAtWork` says that exactly the lock's holder is at a place that needs
it. `FitsAt` says what a run's locals are at each place, `UndoableBy` that all
a creating run added since it began is among its entries or just made: so when
the entries are used up and no delete failed, `live` is what it was before.
`LooseAreFew` counts the live namespaces without a tag, but for the one each
run is about to tag or to delete again (`AtHand`): there are at most `mishaps`
of them, since each step adds one at most, and only with a mishap.
`QuietReaps` says, of a reap that nobody runs beside, which of its
looks still hold at each of its later places.

The same module proves `ResourcesTracked` and `SavedLabIsLive`, each under
hypotheses on `Ops`, `Faults` and `Tasks` without which it is false; the
instance of `lifecycle_sequential` meets them.

- `ResourcesTracked` is proved for histories without an apply: deploys and
  reaps of any number of tasks that overlap as they like, and destroys when
  one task takes all the runs; every fault may happen, a save that fails among
  them. TLC finds a counterexample with an apply (it discards its journal
  before it saves, so one kill in between loses every container it made) and
  with two tasks and destroy (a destroy that was given the handle of a lab
  that has since been destroyed and deployed again).
- `SavedLabIsLive` is proved for one task, without an apply and without a save
  that fails. TLC finds a counterexample with an apply (what it removed stays
  in `state.json` when a later step fails), and with a reap beside a deploy
  (the first disagreement above). A save that fails after `state.json` was
  written has the deploy rolled back beside it.

The invariant (`Tracked`) has three parts. `Knows` says what a run knows of
the files at each place: while a deploy creates, the journal names its
entries, which are the nodes it made and registrations, and there is no
`state.json`; once saved, the file names exactly these nodes; an unwinding
run's entries are all in the journal. `FilesAgree` is what is left of that
when a run is killed: a journal beside a `state.json` names the same nodes, so
unwinding it and destroying the lab find the same. `LostAreFew` counts what
exists, has not `spilled`, and is not where the run under way, or the next
one, will look (`Findable`), which is narrower than what `ResourcesTracked` asks for: a run
that unwinds looks at its entries and not at the file. A step adds one at
most, and only with a mishap. The exception is one action's: a deploy that
finds the pool full returns with what it got still in the pool, in no journal
(`AllocateFails`). `spilled` is exactly that, until it is released or a deploy
allocates anew; a subnet lost in any other way breaks the property, as the
mutant that forgets to journal the subnets shows. For the tasks that wait, it is enough that a
step of a run without the lock changes neither file, creates nothing and
untags nothing that stays (`OutsiderIsHarmless`), and that without the lock
all find the same. `Intact` is the strengthening for `SavedLabIsLive`: the
nodes in a deploy's `env` exist, and what a reaper that is alone has picked is
not claimed. The assumption on the constants says that `Absent` is neither a
journal nor a set of nodes.

**`RuntimeState_proofs`** proves `ProcsTracked`, `FileHoldsWhatWasSet` and
`KernelMatchesFile`. `ProcsTracked` needs no hypothesis; the counting is as
above. `FileHoldsWhatWasSet` is proved with `"keep" \notin Ops` and
`Faulty \subseteq Labs \cup Replays`, the two runs' instances: a replay that
ends with `keep` saves all it ticked, and what a Lab healed meanwhile with it;
and an engine keeps its memory after a refusal and may later save what was
never acknowledged. Both are what the code does, and with them the property
is false. `SavedOrOwn` is the strengthening: a handle differs from its
baseline only in what it did not save, and its baseline from the file only
where others saved, so the three-way merge takes each endpoint from whoever
changed it last. `KernelMatchesFile` needs the first hypothesis only, since it
speaks of histories without a refusal; its invariant, `KernelFollows`, gives
the kernel's view at each place of a change or of a replay, and `OnlyPlayed`
what a replay may have changed.

**`LabQueues_proofs`** proves `NoWorkLost`, `InOrder`, the action property
`UnfinishedIsListed` and that a lab's queue implements `LabMutex`. `IInv` adds
`MapAgrees` (the map names a lab's one queue that serves), `CountIsTrue` (the
position a client is told is what its channel and its thread hold),
`AcceptedOnce`, `WorkingHasWork`, `LastArrived` and `DroppedByDead`. A thread
that leaves looks at its receiver under the mutex of `enqueue`; that is why
none of its work is lost, and why no second thread works the lab.

**`Jobs_proofs`** proves `ResultIsFinal`, `OwnerMayLeave` and that the calls
implement `OpStream`. The invariant relates what a follower read of the log,
where the channel's receiver started and how many events it missed; a step of
one call maps to the step of `OpStream` of that name, or to a stutter.

**`EventLog_proofs`** proves `LogKept` and `TailIsExact`. For `LogKept`, only a
writer that has the flock of the file at the path appends or rotates, so the
two files stay consecutive runs of numbers. `TailIsExact` says that what was
published, what a rotation took unread and what lies ahead of the cursor are
together the numbers written, each once; `Tailed` ties the cursor's inode and
offset to them.

**`Hub_proofs`** proves `FollowerIsCurrent` and `CollectorIsWanted`.
`Announced` is what the registry last said: a scan on its way is the only
difference from `labs`. `HasTheNews` says that the last labs note in a
receiver's inbox is that, and, when there is none, that the view it was given
is that or what is about to be said. It is kept because a subscription
attaches to the channel before it reads the registry, and because one note
stands for a whole scan.

**`Design_proofs`** proves `EditsKept` and `CleanShowsFile`. `EditsSafe` says
that while something typed is not written, no load of this generation is from
disk and a save that runs is of that text. `InStep` says that a text and a time
that an effect took from the file belong together as long as that is the
file's time, and so do the editor's: a write in between makes the time old or,
between the two looks, is one of the `races`.

Only model-checked:

- every liveness property, because fairness and `ENABLED` are beyond the
  prover;
- `ApplyPlan`: `Converges`, `OpsFit` and `NothingNewLeft` rest on folds over
  the plan's sequences, whose results need induction over data.

## Not modelled

The map covers about 5 % of the repository's implementation lines. Most of
the rest is of three kinds. The parser, its lowering, the validator, the
formatter and the renderer (some 30 000 lines) are functions from text to
data and back, with unit, round-trip and fuzz tests; they keep no state, and a
model of them would be their transliteration. The CLI, the GUI's other
views, the drawing and the shared API types present data or call the
operations modelled. Firewall, DNS, FRR, Wi-Fi, WireGuard, container and
cgroup code configures other programs, and its results live as long as the
node.

Besides: `force_cleanup` works without state and answers to no invariant of
it; observation changes nothing; host veths and management bridges in the
reaper, the schema of the files and its migration, and pid reuse in the holder
record are left out; the drift watch of the hub is a collector like the
metrics one; a panic of the blocking load or save of a design tab, which
answers `Done` and leaves the tab loading or saving (`effect.rs:192`), is left
out; live sessions of the daemon run operations of `RuntimeState`; of
the planner, radios, FRR, DNS, sysctls, taps, foreign nodes, healthchecks,
depends-on, the mgmt network the host does not reach and the layers inside a
`Stack` are left out. A scenario's steps are operations of `RuntimeState`; its
`put_back` is not modelled.

## Plan

1. Proofs: what holds of `ResourcesTracked` when applies take part: what an
   apply made is lost only from when it discards its journal to when it saves.
2. `RuntimeState`: `save_state` without a refresh (restart), pair rules, a
   scenario's `put_back` beside an operator.
3. Labs that compete for subnets and host claims, with the reaper: no two labs
   have the same one.
4. `ApplyPlan`: ipvlans, bridge edits, the mgmt network inside the lab, and an
   apply of another topology after a failed one.
5. Pure algorithms against a reference: the merge, free-subnet search, trace
   sampling.
