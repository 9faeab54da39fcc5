------------------------ MODULE RuntimeState_proofs ------------------------
(***************************************************************************)
(* RuntimeState for any handles, endpoints, impairments and faults: the    *)
(* inductive invariant IInv, that processes stay tracked, that the file    *)
(* holds what was set, and that the kernel goes with the file.             *)
(***************************************************************************)
EXTENDS RuntimeState, FiniteSetTheorems, TLAPS

-----------------------------------------------------------------------------
\* What the operators on states return

Tc == [imp : Impairments, cut : BOOLEAN]
Maps == [Endpoints -> Impairments \cup {Absent}]

\* What the topology declares is an impairment.
LEMMA DeclaredIs == \A e \in Endpoints : Declared[e] \in Impairments
BY RuntimeConstants DEF Impairments, Range

\* A fresh lab's state is a state.
LEMMA DeployedState == Deployed \in States
BY DEF Deployed, States

\* The fields of a state, and that it has no others.
LEMMA StateFields ==
    ASSUME NEW s \in States
    PROVE  /\ s.live \in Maps /\ s.cut \in Maps /\ s.pids \in SUBSET Pids
           /\ s = [live |-> s.live, cut |-> s.cut, pids |-> s.pids]
BY DEF States, Maps

\* Two maps and a set of processes make a state.
LEMMA StateIs ==
    ASSUME NEW l \in Maps, NEW c \in Maps, NEW p \in SUBSET Pids
    PROVE  [live |-> l, cut |-> c, pids |-> p] \in States
BY DEF States, Maps

\* live_view is well typed, and what it shows of each endpoint.
LEMMA ViewType ==
    ASSUME NEW s \in States
    PROVE  /\ View(s) \in [Endpoints -> Tc]
           /\ \A e \in Endpoints : /\ View(s)[e].imp = IF s.live[e] = Absent THEN Declared[e] ELSE s.live[e]
                                   /\ View(s)[e].cut = (s.cut[e] # Absent)
<1>1. \A e \in Endpoints : (IF s.live[e] = Absent THEN Declared[e] ELSE s.live[e]) \in Impairments
  BY DeclaredIs, StateFields DEF Maps
<1>2. \A e \in Endpoints : (s.cut[e] # Absent) \in BOOLEAN
  OBVIOUS
<1>3. \A e \in Endpoints : [imp |-> IF s.live[e] = Absent THEN Declared[e] ELSE s.live[e],
         cut |-> s.cut[e] # Absent] \in Tc
  BY <1>1, <1>2 DEF Tc
<1>4. QED
  BY <1>3 DEF View

\* merge_map: of an up-to-date handle it gives the handle's map, of a handle
\* that changed nothing the file's.
LEMMA MergeMapType ==
    ASSUME NEW f \in Maps, NEW b \in Maps, NEW m \in Maps
    PROVE  /\ MergeMap(f, b, m) \in Maps
           /\ MergeMap(b, b, m) = m
           /\ MergeMap(f, b, b) = f
BY DEF MergeMap, Maps

\* merge_pids likewise; it drops no process while the handle drops none.
LEMMA MergePidsType ==
    ASSUME NEW f \in SUBSET Pids, NEW b \in SUBSET Pids, NEW m \in SUBSET Pids
    PROVE  /\ MergePids(f, b, m) \in SUBSET Pids
           /\ MergePids(b, b, m) = m
           /\ MergePids(f, b, b) = f
           /\ b \subseteq m => f \subseteq MergePids(f, b, m)
BY DEF MergePids

\* merge_into likewise.
LEMMA MergeType ==
    ASSUME NEW f \in States, NEW b \in States, NEW m \in States
    PROVE  /\ Merge(f, b, m) \in States
           /\ Merge(b, b, m) = m
           /\ Merge(f, b, b) = f
           /\ b.pids \subseteq m.pids => f.pids \subseteq Merge(f, b, m).pids
           /\ Merge(f, b, m).live = MergeMap(f.live, b.live, m.live)
           /\ Merge(f, b, m).cut = MergeMap(f.cut, b.cut, m.cut)
           /\ Merge(f, b, m).pids = MergePids(f.pids, b.pids, m.pids)
<1>1. /\ f.live \in Maps /\ f.cut \in Maps /\ f.pids \in SUBSET Pids
      /\ b.live \in Maps /\ b.cut \in Maps /\ b.pids \in SUBSET Pids
      /\ m.live \in Maps /\ m.cut \in Maps /\ m.pids \in SUBSET Pids
  BY StateFields
<1>2. Merge(f, b, m) \in States
  <2>1. /\ MergeMap(f.live, b.live, m.live) \in Maps /\ MergeMap(f.cut, b.cut, m.cut) \in Maps
        /\ MergePids(f.pids, b.pids, m.pids) \in SUBSET Pids
    <3>1. MergeMap(f.live, b.live, m.live) \in Maps
      BY <1>1, MergeMapType, Zenon
    <3>2. MergeMap(f.cut, b.cut, m.cut) \in Maps
      BY <1>1, MergeMapType, Zenon
    <3>3. MergePids(f.pids, b.pids, m.pids) \in SUBSET Pids
      BY <1>1 DEF MergePids
    <3>4. QED
      BY <3>1, <3>2, <3>3
  <2>2. QED
    BY <2>1, StateIs, Zenon DEF Merge
<1>3. Merge(b, b, m) = m
  <2>1. Merge(b, b, m) = [live |-> m.live, cut |-> m.cut, pids |-> m.pids]
    BY <1>1, MergeMapType, MergePidsType DEF Merge
  <2>2. QED
    BY <2>1, StateFields
<1>4. Merge(f, b, b) = f
  <2>1. Merge(f, b, b) = [live |-> f.live, cut |-> f.cut, pids |-> f.pids]
    BY <1>1, MergeMapType, MergePidsType DEF Merge
  <2>2. QED
    BY <2>1, StateFields
<1>5. QED
  BY <1>1, <1>2, <1>3, <1>4, MergePidsType DEF Merge

EditOps == {"impair", "tick", "clear", "partition", "heal"}

\* What an edit makes of the fields.
LEMMA EditedType ==
    ASSUME NEW s \in States, NEW o, o.op \in EditOps, o.val \in Values \cup {Clean}, NEW e \in Endpoints
    PROVE  /\ Edited(s, o, e) \in States
           /\ Edited(s, o, e).pids = s.pids
           /\ \A d \in Endpoints \ {e} : /\ Edited(s, o, e).live[d] = s.live[d]
                                         /\ Edited(s, o, e).cut[d] = s.cut[d]
           /\ o.op \in {"impair", "tick"} =>
                Edited(s, o, e).live[e] = o.val /\ Edited(s, o, e).cut[e] = IF s.cut[e] = Absent THEN Absent ELSE o.val
           /\ o.op = "clear" => 
                Edited(s, o, e).live[e] = (IF Declared[e] = Clean THEN Absent ELSE Clean) /\ Edited(s, o, e).cut[e] = Absent
           /\ o.op = "partition" => Edited(s, o, e).live = s.live /\ Edited(s, o, e).cut[e] = View(s)[e].imp
           /\ o.op = "heal" => Edited(s, o, e).live = s.live /\ Edited(s, o, e).cut[e] = Absent
<1>0. /\ s.live \in Maps /\ s.cut \in Maps /\ s.pids \in SUBSET Pids
      /\ s = [live |-> s.live, cut |-> s.cut, pids |-> s.pids]
  BY StateFields
<1>1. PICK l \in Impairments \cup {Absent}, c \in Impairments \cup {Absent} :
        /\ o.op \in {"impair", "tick"} => l = o.val /\ c = IF s.cut[e] = Absent THEN Absent ELSE o.val
        /\ o.op = "clear" => l = (IF Declared[e] = Clean THEN Absent ELSE Clean) /\ c = Absent
        /\ o.op = "partition" => l = s.live[e] /\ c = View(s)[e].imp
        /\ o.op = "heal" => l = s.live[e] /\ c = Absent
  <2>1. o.val \in Impairments /\ Clean \in Impairments /\ View(s)[e].imp \in Impairments
        /\ s.live[e] \in Impairments \cup {Absent}
    BY <1>0, ViewType DEF Impairments, Tc, Maps
  <2>2. QED
    BY <2>1 DEF EditOps
<1>2. Edited(s, o, e) = [live |-> [s.live EXCEPT ![e] = l], cut |-> [s.cut EXCEPT ![e] = c], pids |-> s.pids]
  <2>1. CASE o.op \in {"impair", "tick"}
    BY <1>0, <1>1, <2>1 DEF Edited
  <2>2. CASE o.op = "clear"
    BY <1>0, <1>1, <2>2 DEF Edited
  <2>3. CASE o.op = "partition" \/ o.op = "heal"
    <3>1. [s.live EXCEPT ![e] = l] = s.live
      BY <1>0, <1>1, <2>3 DEF Maps
    <3>2. QED
      BY <1>0, <1>1, <2>3, <3>1 DEF Edited
  <2>4. QED
    BY <2>1, <2>2, <2>3 DEF EditOps
<1>3. [s.live EXCEPT ![e] = l] \in Maps /\ [s.cut EXCEPT ![e] = c] \in Maps
  BY <1>0 DEF Maps
<1>4. Edited(s, o, e) \in States
  BY <1>0, <1>2, <1>3, StateIs
<1>5. /\ Edited(s, o, e).live = [s.live EXCEPT ![e] = l]
      /\ Edited(s, o, e).cut = [s.cut EXCEPT ![e] = c] /\ Edited(s, o, e).pids = s.pids
  BY <1>2
<1>6. (o.op = "partition" \/ o.op = "heal") => [s.live EXCEPT ![e] = l] = s.live
  BY <1>0, <1>1 DEF Maps
<1>7. /\ [s.live EXCEPT ![e] = l][e] = l /\ [s.cut EXCEPT ![e] = c][e] = c
      /\ \A d \in Endpoints \ {e} : /\ [s.live EXCEPT ![e] = l][d] = s.live[d]
                                    /\ [s.cut EXCEPT ![e] = c][d] = s.cut[d]
  BY <1>0 DEF Maps
<1>8. QED
  BY <1>1, <1>4, <1>5, <1>6, <1>7

\* restore_entry of a target: the base there, the handle elsewhere.
LEMMA RestoredType ==
    ASSUME NEW s \in States, NEW b \in States, NEW on
    PROVE  /\ Restored(s, b, on) \in States
           /\ Restored(s, b, on).pids = s.pids
           /\ \A e \in Endpoints :
                /\ Restored(s, b, on).live[e] = IF e \in Range(on) THEN b.live[e] ELSE s.live[e]
                /\ Restored(s, b, on).cut[e] = IF e \in Range(on) THEN b.cut[e] ELSE s.cut[e]
<1>0. /\ s.live \in Maps /\ s.cut \in Maps /\ s.pids \in SUBSET Pids
      /\ b.live \in Maps /\ b.cut \in Maps
      /\ s = [live |-> s.live, cut |-> s.cut, pids |-> s.pids]
  BY StateFields
<1>1. Restored(s, b, on) = [live |-> [e \in Endpoints |-> IF e \in Range(on) THEN b.live[e] ELSE s.live[e]],
                            cut |-> [e \in Endpoints |-> IF e \in Range(on) THEN b.cut[e] ELSE s.cut[e]],
                            pids |-> s.pids]
  BY DEF Restored
<1>2. /\ [e \in Endpoints |-> IF e \in Range(on) THEN b.live[e] ELSE s.live[e]] \in Maps
      /\ [e \in Endpoints |-> IF e \in Range(on) THEN b.cut[e] ELSE s.cut[e]] \in Maps
  BY <1>0 DEF Maps
<1>3. QED
  BY <1>0, <1>1, <1>2, StateIs

\* reconcile_node_tc is well typed, and what it makes of each endpoint.
LEMMA ReconciledType ==
    ASSUME NEW k \in [Endpoints -> Tc], NEW nodes, NEW before \in [Endpoints -> Tc], NEW after \in [Endpoints -> Tc]
    PROVE  /\ Reconciled(k, nodes, before, after) \in [Endpoints -> Tc]
           /\ \A e \in Endpoints : 
               /\ NodeOf[e] \notin nodes => Reconciled(k, nodes, before, after)[e] = k[e]
               /\ NodeOf[e] \in nodes => 
                   /\ Reconciled(k, nodes, before, after)[e].imp =
                        IF after[e].imp # Clean THEN after[e].imp
                           ELSE IF before[e].imp # Clean THEN Clean ELSE k[e].imp
                   /\ Reconciled(k, nodes, before, after)[e].cut = (after[e].cut \/ (k[e].cut /\ ~before[e].cut))
<1>1. \A e \in Endpoints : 
        /\ k[e] \in Tc /\ k[e].imp \in Impairments /\ k[e].cut \in BOOLEAN
        /\ before[e].imp \in Impairments /\ before[e].cut \in BOOLEAN
        /\ after[e].imp \in Impairments /\ after[e].cut \in BOOLEAN
  BY DEF Tc
<1>2. Clean \in Impairments
  BY DEF Impairments
<1>3. \A e \in Endpoints : (IF after[e].imp # Clean THEN after[e].imp
                      ELSE IF before[e].imp # Clean THEN Clean ELSE k[e].imp) \in Impairments
  BY <1>1, <1>2
<1>4. \A e \in Endpoints : (after[e].cut \/ (k[e].cut /\ ~before[e].cut)) \in BOOLEAN
  OBVIOUS
<1>5. \A e \in Endpoints : [imp |-> IF after[e].imp # Clean THEN after[e].imp
                      ELSE IF before[e].imp # Clean THEN Clean ELSE k[e].imp,
              cut |-> after[e].cut \/ (k[e].cut /\ ~before[e].cut)] \in Tc
  BY <1>3, <1>4 DEF Tc
<1>6. QED
  BY <1>1, <1>5 DEF Reconciled

-----------------------------------------------------------------------------
\* The lock and the operation under way

Fits(o, h) ==
    /\ o \in UnderWay
    /\ Range(o.left) \subseteq Range(o.on)
    /\ o.op \in {"impair", "tick"} => o.val \in Values
    /\ o.op \in {"tick", "end", "keep"} => o.on \in Targets /\ h \in Replays
    /\ o.op \in {"spawn", "spawned"} => o.on = <<>>
    /\ h \in Replays => o.op \in {"none", "tick", "end", "keep"}

Locks ==
    /\ pc \in [Handles -> {"none", "ready", "locked"}]
    /\ {h \in Handles : pc[h] = "locked"} = {holder} \ {Nobody}

\* What TodoOK says of one handle.
LEMMA TodoIs ==
    ASSUME TodoOK, NEW h \in Handles
    PROVE  Fits(todo[h], h) /\ (pc[h] # "locked" => todo[h] = NoOp)
BY DEF TodoOK, Fits

\* TodoOK survives a step that gives one handle an operation that fits.
LEMMA NextTodo ==
    ASSUME TodoOK, NEW h \in Handles, NEW o, todo' = [todo EXCEPT ![h] = o], Fits(o, h),
           pc'[h] # "locked" => o = NoOp, \A g \in Handles \ {h} : pc'[g] = pc[g]
    PROVE  TodoOK'
<1>1. todo' \in [Handles -> UnderWay] /\ todo'[h] = o /\ \A g \in Handles \ {h} : todo'[g] = todo[g]
  BY DEF TodoOK, Fits
<1>2. \A g \in Handles : Fits(todo'[g], g) /\ (pc'[g] # "locked" => todo'[g] = NoOp)
  BY <1>1, TodoIs
<1>3. QED
  BY <1>1, <1>2, Zenon DEF TodoOK, Fits

\* No operation fits everyone.
LEMMA NoOpFits == \A h \in Handles : Fits(NoOp, h)
<1>1. <<>> \in Seq(Endpoints)
  OBVIOUS
<1>2. NoOp \in UnderWay
  BY <1>1 DEF NoOp, UnderWay
<1>3. QED
  BY <1>2 DEF Fits, NoOp

\* The handle under way is the one that has the lock.
LEMMA OneHolder ==
    ASSUME IInv, NEW h \in Handles
    PROVE  /\ pc[h] = "locked" <=> holder = h
           /\ holder = Nobody <=> \A g \in Handles : pc[g] # "locked"
BY RuntimeConstants DEF IInv, TypeOK

\* A process just spawned is the lock holder's.
LEMMA SpawnedHolds ==
    ASSUME IInv, NEW h \in Handles, todo[h].op = "spawned"
    PROVE  holder = h
<1>1. NoOp.op # "spawned" /\ TodoOK
  BY DEF NoOp, IInv
<1>2. QED
  BY <1>1, OneHolder, TodoIs

\* The lock is free and nothing is under way.
AllFree ==
    /\ holder = Nobody
    /\ \A g \in Handles : pc[g] # "locked" /\ todo[g] = NoOp

\* When an operation returns, the lock is free and nothing is under way.
LEMMA Returned ==
    ASSUME IInv, NEW h \in Handles, pc[h] = "locked", Return(h)
    PROVE  AllFree' /\ Locks' /\ TodoOK'
<1>1. holder = h /\ \A g \in Handles \ {h} : pc[g] # "locked"
  BY OneHolder
<1>2. pc \in [Handles -> {"none", "ready", "locked"}] /\ TodoOK
  BY DEF IInv, TypeOK
<1>3. todo' = [todo EXCEPT ![h] = NoOp] /\ pc' = [pc EXCEPT ![h] = "ready"] /\ holder' = Nobody
  BY DEF Return
<1>4. \A g \in Handles : todo'[g] = NoOp
  <2>1. SUFFICES ASSUME NEW g \in Handles PROVE todo'[g] = NoOp
    OBVIOUS
  <2>2. CASE g = h
    BY <1>2, <1>3, <2>2 DEF TodoOK
  <2>3. QED
    BY <1>1, <1>2, <1>3 DEF TodoOK
<1>5. AllFree'
  BY <1>1, <1>2, <1>3, <1>4 DEF AllFree
<1>6. Locks'
  BY <1>2, <1>3, <1>5 DEF Locks, AllFree
<1>7. TodoOK'
  BY <1>2, <1>3, NoOpFits, NextTodo
<1>8. QED
  BY <1>5, <1>6, <1>7

-----------------------------------------------------------------------------
\* What an action does to the memory of its handle

Cells ==
    /\ file \in States
    /\ kernel \in [Endpoints -> Tc]
    /\ procs \subseteq Pids
    /\ base \in [Handles -> States] /\ mine \in [Handles -> States]
    /\ playing \in [Handles -> SUBSET Targets]
    /\ acked \in [Endpoints -> Tc]
    /\ mishaps \in 0..MaxMishaps

\* The type invariant in two parts, now and after a step.
LEMMA TypeIs == (TypeOK <=> Cells /\ Locks) /\ (TypeOK <=> Cells /\ Locks)'
BY Zenon DEF TypeOK, Cells, Locks, Tc

\* A step that sets the base and the fields of one handle.
LEMMA MemoryIs ==
    ASSUME IInv, NEW h \in Handles, NEW b \in States, NEW m \in States, b.pids \subseteq m.pids,
           base' = [base EXCEPT ![h] = b], mine' = [mine EXCEPT ![h] = m]
    PROVE  /\ base' \in [Handles -> States] /\ mine' \in [Handles -> States]
           /\ PidsKept'
           /\ base'[h] = b /\ mine'[h] = m
           /\ \A g \in Handles \ {h} : base'[g] = base[g] /\ mine'[g] = mine[g]
<1>1. base \in [Handles -> States] /\ mine \in [Handles -> States] /\ PidsKept
  BY DEF IInv, TypeOK
<1>2. /\ base' \in [Handles -> States] /\ mine' \in [Handles -> States]
      /\ base'[h] = b /\ mine'[h] = m
      /\ \A g \in Handles \ {h} : base'[g] = base[g] /\ mine'[g] = mine[g]
  BY <1>1
<1>3. PidsKept'
  BY <1>1, <1>2 DEF PidsKept
<1>4. QED
  BY <1>2, <1>3

\* The memory of a handle is well typed and forgets no process.
LEMMA BaseSame ==
    ASSUME IInv, NEW h \in Handles
    PROVE  /\ base = [base EXCEPT ![h] = base[h]] /\ mine = [mine EXCEPT ![h] = mine[h]]
           /\ base[h] \in States /\ mine[h] \in States /\ file \in States
           /\ base[h].pids \subseteq mine[h].pids
BY DEF IInv, TypeOK, PidsKept

\* What a failed operation leaves in memory (resync for a Lab).
LEMMA Aborted ==
    ASSUME IInv, NEW h \in Handles, NEW m \in States, base[h].pids \subseteq m.pids, Abort(h, m)
    PROVE  /\ base' \in [Handles -> States] /\ mine' \in [Handles -> States]
           /\ PidsKept'
           /\ h \in Labs => base'[h] = file /\ mine'[h] = file
           /\ h \notin Labs => base'[h] = base[h] /\ mine'[h] = m
           /\ \A g \in Handles \ {h} : base'[g] = base[g] /\ mine'[g] = mine[g]
<1>1. CASE h \in Labs
  <2>1. base' = [base EXCEPT ![h] = file] /\ mine' = [mine EXCEPT ![h] = file]
    BY <1>1 DEF Abort
  <2>2. QED
    BY <1>1, <2>1, BaseSame, MemoryIs
<1>2. CASE h \notin Labs
  <2>1. base' = [base EXCEPT ![h] = base[h]] /\ mine' = [mine EXCEPT ![h] = m]
    BY <1>2, BaseSame DEF Abort
  <2>2. QED
    BY <1>2, <2>1, BaseSame, MemoryIs
<1>3. QED
  BY <1>1, <1>2

\* The endpoint a change is at.
LEMMA ChangesAt ==
    ASSUME IInv, NEW h \in Handles, Changes(h)
    PROVE  /\ todo[h].op \in EditOps /\ todo[h].val \in Values \cup {Clean}
           /\ Head(todo[h].left) \in Endpoints /\ Head(todo[h].left) \in Range(todo[h].on)
           /\ Tail(todo[h].left) \in Seq(Endpoints)
           /\ Range(Tail(todo[h].left)) \subseteq Range(todo[h].left)
<1>1. Fits(todo[h], h)
  BY TodoIs DEF IInv
<1>2. /\ todo[h].left \in Seq(Endpoints) /\ todo[h].left # <<>> /\ todo[h].op \in EditOps
      /\ Range(todo[h].left) \subseteq Range(todo[h].on) /\ todo[h].val \in Values \cup {Clean}
  BY <1>1 DEF Fits, UnderWay, Changes, EditOps
<1>3. ASSUME NEW q \in Seq(Endpoints), q # <<>>
      PROVE  Head(q) \in Endpoints /\ Head(q) \in Range(q) /\ Tail(q) \in Seq(Endpoints) 
             /\ Range(Tail(q)) \subseteq Range(q)
  <2>1. /\ Len(q) \in Nat \ {0} /\ Tail(q) \in Seq(Endpoints) /\ Len(Tail(q)) = Len(q) - 1
        /\ Head(q) = q[1] /\ \A i \in 1..Len(Tail(q)) : Tail(q)[i] = q[i + 1]
    BY <1>3
  <2>2. DOMAIN q = 1..Len(q) /\ DOMAIN Tail(q) = 1..Len(Tail(q))
    BY <1>3, <2>1
  <2>3. \A i \in DOMAIN Tail(q) : i + 1 \in DOMAIN q
    BY <2>1, <2>2
  <2>4. QED
    BY <1>3, <2>1, <2>2, <2>3 DEF Range
<1>4. QED
  BY <1>2, <1>3

\* clear_impairment's deletion of the root qdisc.
LEMMA KernelBeforeType ==
    ASSUME kernel \in [Endpoints -> Tc], NEW o, NEW e \in Endpoints
    PROVE  /\ KernelBefore(o, e) \in [Endpoints -> Tc]
           /\ \A d \in Endpoints \ {e} : KernelBefore(o, e)[d] = kernel[d]
           /\ KernelBefore(o, e)[e].cut = kernel[e].cut
           /\ KernelBefore(o, e)[e].imp = IF o.op = "clear" THEN Clean ELSE kernel[e].imp
<1>1. Clean \in Impairments
  BY DEF Impairments
<1>2. /\ [kernel[e] EXCEPT !.imp = Clean] \in Tc
      /\ [kernel[e] EXCEPT !.imp = Clean].imp = Clean
      /\ [kernel[e] EXCEPT !.imp = Clean].cut = kernel[e].cut
  BY <1>1 DEF Tc
<1>3. [kernel EXCEPT ![e].imp = Clean] = [kernel EXCEPT ![e] = [kernel[e] EXCEPT !.imp = Clean]]
  OBVIOUS
<1>4. QED
  BY <1>2, <1>3 DEF KernelBefore

\* The kernel a change makes.
LEMMA ChangedKernel ==
    ASSUME IInv, NEW h \in Handles, Changes(h), NEW e \in Endpoints, e = Head(todo[h].left)
    PROVE  /\ Edited(mine[h], todo[h], e) \in States
           /\ Edited(mine[h], todo[h], e).pids = mine[h].pids
           /\ Reconciled(KernelBefore(todo[h], e), {NodeOf[e]}, View(mine[h]),
                         View(Edited(mine[h], todo[h], e))) \in [Endpoints -> Tc]
<1>1. mine[h] \in States /\ kernel \in [Endpoints -> Tc]
  BY DEF IInv, TypeOK, Tc
<1>2. todo[h].op \in EditOps /\ todo[h].val \in Values \cup {Clean}
  BY ChangesAt
<1>3. Edited(mine[h], todo[h], e) \in States /\ Edited(mine[h], todo[h], e).pids = mine[h].pids
  BY <1>1, <1>2, EditedType
<1>4. View(mine[h]) \in [Endpoints -> Tc] /\ View(Edited(mine[h], todo[h], e)) \in [Endpoints -> Tc]
  BY <1>1, <1>3, ViewType
<1>5. KernelBefore(todo[h], e) \in [Endpoints -> Tc]
  BY <1>1, KernelBeforeType
<1>6. QED
  <2>1. ASSUME NEW k \in [Endpoints -> Tc], NEW before \in [Endpoints -> Tc], NEW after \in [Endpoints -> Tc]
        PROVE  Reconciled(k, {NodeOf[e]}, before, after) \in [Endpoints -> Tc]
    BY ReconciledType
  <2>2. QED
    BY <1>3, <1>4, <1>5, <2>1, Zenon

\* What replay_end makes of the handle and the kernel is well typed.
LEMMA PutBackType ==
    ASSUME IInv, NEW h \in Handles
    PROVE  /\ Restored(mine[h], base[h], todo[h].on) \in States
           /\ Restored(mine[h], base[h], todo[h].on).pids = mine[h].pids
           /\ PutBack(h) \in [Endpoints -> Tc]
<1>1. mine[h] \in States /\ base[h] \in States /\ kernel \in [Endpoints -> Tc]
  BY DEF IInv, TypeOK, Tc
<1>2. /\ Restored(mine[h], base[h], todo[h].on) \in States
      /\ Restored(mine[h], base[h], todo[h].on).pids = mine[h].pids
  BY <1>1, RestoredType
<1>3. View(mine[h]) \in [Endpoints -> Tc] /\ View(Restored(mine[h], base[h], todo[h].on)) \in [Endpoints -> Tc]
  BY <1>1, <1>2, ViewType
<1>4. QED
  <2>1. ASSUME NEW nodes, NEW before \in [Endpoints -> Tc], NEW after \in [Endpoints -> Tc]
        PROVE  Reconciled(kernel, nodes, before, after) \in [Endpoints -> Tc]
    BY <1>1, ReconciledType
  <2>2. QED
    BY <1>2, <1>3, <2>1, Zenon DEF PutBack

\* So is a kernel that took part of a change.
LEMMA PartlyType ==
    ASSUME kernel \in [Endpoints -> Tc], NEW k \in [Endpoints -> Tc], Partly(k)
    PROVE  kernel' \in [Endpoints -> Tc]
BY DEF Partly

\* What a commit answers for, endpoint by endpoint.
LEMMA AnsweredType ==
    ASSUME acked \in [Endpoints -> Tc], NEW o, NEW v \in [Endpoints -> Tc]
    PROVE  /\ Answered(o, v) \in [Endpoints -> Tc]
           /\ \A e \in Endpoints :
               /\ e \notin Range(o.on) => Answered(o, v)[e] = acked[e]
               /\ e \in Range(o.on) =>
                    /\ o.op \in {"impair", "keep"} => Answered(o, v)[e] = [imp |-> v[e].imp, cut |-> acked[e].cut]
                    /\ o.op \in {"partition", "heal"} => Answered(o, v)[e] = [imp |-> acked[e].imp, cut |-> v[e].cut]
                    /\ o.op \notin {"impair", "keep", "partition", "heal"} => Answered(o, v)[e] = v[e]
<1>1. ASSUME NEW a \in Tc, NEW w \in Tc
      PROVE  /\ [a EXCEPT !.imp = w.imp] = [imp |-> w.imp, cut |-> a.cut]
             /\ [a EXCEPT !.cut = w.cut] = [imp |-> a.imp, cut |-> w.cut]
             /\ [imp |-> w.imp, cut |-> a.cut] \in Tc /\ [imp |-> a.imp, cut |-> w.cut] \in Tc
  BY DEF Tc
<1>2. \A e \in Endpoints : acked[e] \in Tc /\ v[e] \in Tc
  OBVIOUS
<1>3. DEFINE A(e) == IF e \notin Range(o.on) THEN acked[e]
                     ELSE CASE o.op \in {"impair", "keep"} -> [acked[e] EXCEPT !.imp = v[e].imp]
                            [] o.op \in {"partition", "heal"} -> [acked[e] EXCEPT !.cut = v[e].cut]
                            [] OTHER -> v[e]
<1>4. \A e \in Endpoints :
         /\ e \notin Range(o.on) => A(e) = acked[e]
         /\ e \in Range(o.on) =>
              /\ o.op \in {"impair", "keep"} => A(e) = [imp |-> v[e].imp, cut |-> acked[e].cut]
              /\ o.op \in {"partition", "heal"} => A(e) = [imp |-> acked[e].imp, cut |-> v[e].cut]
              /\ o.op \notin {"impair", "keep", "partition", "heal"} => A(e) = v[e]
  <2>1. SUFFICES ASSUME NEW e \in Endpoints, e \in Range(o.on)
                 PROVE  /\ o.op \in {"impair", "keep"} => A(e) = [imp |-> v[e].imp, cut |-> acked[e].cut]
                        /\ o.op \in {"partition", "heal"} => A(e) = [imp |-> acked[e].imp, cut |-> v[e].cut]
                        /\ o.op \notin {"impair", "keep", "partition", "heal"} => A(e) = v[e]
    OBVIOUS
  <2>2. CASE o.op \in {"impair", "keep"}
    <3>1. A(e) = [acked[e] EXCEPT !.imp = v[e].imp]
      BY <2>1, <2>2
    <3>2. QED
      BY <1>1, <1>2, <2>2, <3>1
  <2>3. CASE o.op \in {"partition", "heal"}
    <3>1. A(e) = [acked[e] EXCEPT !.cut = v[e].cut]
      BY <2>1, <2>3
    <3>2. QED
      BY <1>1, <1>2, <2>3, <3>1
  <2>4. CASE o.op \notin {"impair", "keep", "partition", "heal"}
    BY <2>1, <2>4
  <2>5. QED
    BY <2>2, <2>3, <2>4
<1>5. Answered(o, v) = [e \in Endpoints |-> A(e)]
  BY DEF Answered
<1>6. HIDE DEF A
<1>7. \A e \in Endpoints : A(e) \in Tc
  <2>1. SUFFICES ASSUME NEW e \in Endpoints PROVE A(e) \in Tc
    OBVIOUS
  <2>2. /\ [imp |-> v[e].imp, cut |-> acked[e].cut] \in Tc
        /\ [imp |-> acked[e].imp, cut |-> v[e].cut] \in Tc
    BY <1>1, <1>2
  <2>3. \/ A(e) = acked[e] \/ A(e) = v[e]
        \/ A(e) = [imp |-> v[e].imp, cut |-> acked[e].cut]
        \/ A(e) = [imp |-> acked[e].imp, cut |-> v[e].cut]
    BY <1>4
  <2>4. QED
    BY <1>2, <2>2, <2>3
<1>8. QED
  BY <1>4, <1>5, <1>7

-----------------------------------------------------------------------------
\* The inductive invariant, but for the processes

Kept == Cells' /\ Locks' /\ TodoOK' /\ Refreshed' /\ PidsKept'

\* With the lock free, nobody has to have the file's copy.
LEMMA FreeIsRefreshed == AllFree' => Refreshed'
BY DEF AllFree, Refreshed

\* The parts of the invariant, by name.
LEMMA Hypotheses ==
    ASSUME IInv
    PROVE  /\ Cells /\ Locks /\ TodoOK /\ Refreshed /\ PidsKept
           /\ MaxMishaps \in Nat
BY TypeIs, RuntimeConstants DEF IInv

\* Load keeps the invariant, but for the processes.
LEMMA LoadKeeps ==
    ASSUME IInv, NEW h \in Handles, Load(h)
    PROVE  Kept
<1>1. /\ base' \in [Handles -> States] /\ mine' \in [Handles -> States] /\ PidsKept'
      /\ \A g \in Handles \ {h} : base'[g] = base[g] /\ mine'[g] = mine[g]
  BY BaseSame, MemoryIs DEF Load
<1>2. Cells'
  BY <1>1, Hypotheses DEF Cells, Load
<1>3. pc' \in [Handles -> {"none", "ready", "locked"}] /\ pc'[h] = "ready" /\ pc[h] = "none"
      /\ \A g \in Handles \ {h} : pc'[g] = pc[g]
  BY Hypotheses DEF Locks, Load
<1>4. Locks'
  <2>1. {g \in Handles : pc'[g] = "locked"} = {g \in Handles : pc[g] = "locked"}
    BY <1>3
  <2>2. QED
    BY <1>3, <2>1, Hypotheses DEF Locks, Load
<1>5. TodoOK'
  <2>1. todo[h] = NoOp /\ Fits(NoOp, h)
    BY <1>3, Hypotheses, TodoIs, NoOpFits
  <2>2. todo' = [todo EXCEPT ![h] = NoOp]
    BY <2>1, Hypotheses DEF TodoOK, Load
  <2>3. QED
    BY <1>3, <2>1, <2>2, Hypotheses, NextTodo
<1>6. Refreshed'
  BY <1>1, <1>3, Hypotheses DEF Refreshed, Load
<1>7. QED
  BY <1>1, <1>2, <1>4, <1>5, <1>6 DEF Kept

\* What a handle may be asked to do fits it.
LEMMA OperationFits ==
    ASSUME IInv, NEW h \in Handles, NEW o \in Operations(h)
    PROVE  Fits(o, h) /\ o.op \in OpNames
<1>1. \A e \in Endpoints : <<e>> \in Seq(Endpoints)
  OBVIOUS
<1>2. <<>> \in Seq(Endpoints) /\ Targets \subseteq Seq(Endpoints) /\ playing[h] \subseteq Targets
  BY Hypotheses, RuntimeConstants DEF Cells
<1>3. PICK name \in OpNames \cap Ops, on \in Seq(Endpoints), v \in Values \cup {Clean} :
        /\ o = [op |-> name, on |-> on, left |-> on, val |-> v]
        /\ name \in {"impair", "tick"} => v \in Values
        /\ name \in {"tick", "end", "keep"} => on \in Targets /\ h \in Replays
        /\ name \in {"spawn", "spawned"} => on = <<>>
        /\ h \in Replays => name \in {"none", "tick", "end", "keep"}
  <2>1. CASE h \in Replays
    <3>1. \/ \E on \in Targets, v \in Values : o = [op |-> "tick", on |-> on, left |-> on, val |-> v]
          \/ \E on \in playing[h], name \in {"end", "keep"} : o = [op |-> name, on |-> on, left |-> on, val |-> Clean]
      BY <2>1 DEF Operations
    <3>2. o.op \in Ops
      BY DEF Operations
    <3>3. QED
      BY <1>2, <2>1, <3>1, <3>2 DEF OpNames
  <2>2. CASE h \notin Replays
    <3>1. \/ \E on \in Targets, v \in Values : o = [op |-> "impair", on |-> on, left |-> on, val |-> v]
          \/ \E e \in Endpoints, name \in {"clear", "partition", "heal"} :
                o = [op |-> name, on |-> <<e>>, left |-> <<e>>, val |-> Clean]
          \/ o = [op |-> "spawn", on |-> <<>>, left |-> <<>>, val |-> Clean]
      BY <2>2 DEF Operations
    <3>2. o.op \in Ops
      BY DEF Operations
    <3>3. CASE \E on \in Targets, v \in Values : o = [op |-> "impair", on |-> on, left |-> on, val |-> v]
      BY <1>2, <2>2, <3>2, <3>3 DEF OpNames
    <3>4. CASE \E e \in Endpoints, name \in {"clear", "partition", "heal"} :
                o = [op |-> name, on |-> <<e>>, left |-> <<e>>, val |-> Clean]
      <4>1. PICK e \in Endpoints, name \in {"clear", "partition", "heal"} :
                o = [op |-> name, on |-> <<e>>, left |-> <<e>>, val |-> Clean]
        BY <3>4
      <4>2. PICK on \in Seq(Endpoints) : on = <<e>>
        BY <1>1
      <4>3. o = [op |-> name, on |-> on, left |-> on, val |-> Clean] /\ o.op = name
        BY <4>1, <4>2
      <4>4. QED
        BY <2>2, <3>2, <4>1, <4>3 DEF OpNames
    <3>5. CASE o = [op |-> "spawn", on |-> <<>>, left |-> <<>>, val |-> Clean]
      <4>1. PICK on \in Seq(Endpoints) : on = <<>>
        BY <1>2
      <4>2. o = [op |-> "spawn", on |-> on, left |-> on, val |-> Clean] /\ o.op = "spawn"
        BY <3>5, <4>1
      <4>3. QED
        BY <2>2, <3>2, <4>1, <4>2 DEF OpNames
    <3>6. QED
      BY <3>1, <3>3, <3>4, <3>5
  <2>3. QED
    BY <2>1, <2>2
<1>4. o \in UnderWay
  BY <1>3 DEF UnderWay
<1>5. o.op = name /\ o.on = on /\ o.left = on /\ o.val = v
  BY <1>3
<1>6. QED
  BY <1>3, <1>4, <1>5 DEF Fits

\* Begin keeps it: the merge with the file forgets no process.
LEMMA BeginKeeps ==
    ASSUME IInv, NEW h \in Handles, Begin(h)
    PROVE  Kept
<1>1. /\ Merge(file, base[h], mine[h]) \in States
      /\ file.pids \subseteq Merge(file, base[h], mine[h]).pids
  BY BaseSame, MergeType
<1>2. /\ base' \in [Handles -> States] /\ mine' \in [Handles -> States] /\ PidsKept'
      /\ base'[h] = file
      /\ \A g \in Handles \ {h} : base'[g] = base[g] /\ mine'[g] = mine[g]
  BY <1>1, BaseSame, MemoryIs DEF Begin
<1>3. Cells'
  BY <1>2, Hypotheses DEF Cells, Begin
<1>4. pc' \in [Handles -> {"none", "ready", "locked"}] /\ pc'[h] = "locked"
      /\ \A g \in Handles \ {h} : pc'[g] = pc[g] /\ pc'[g] # "locked"
  BY Hypotheses, OneHolder DEF Locks, Begin
<1>5. Locks'
  BY <1>4, RuntimeConstants DEF Locks, Begin
<1>6. TodoOK'
  <2>1. PICK o \in Operations(h) : todo' = [todo EXCEPT ![h] = o]
    BY DEF Begin
  <2>2. QED
    BY <1>4, <2>1, Hypotheses, OperationFits, NextTodo
<1>7. Refreshed'
  BY <1>2, <1>4 DEF Refreshed, Begin
<1>8. QED
  BY <1>2, <1>3, <1>5, <1>6, <1>7 DEF Kept

\* A partition of what is partitioned keeps it.
LEMMA AlreadyPartitionedKeeps ==
    ASSUME IInv, NEW h \in Handles, AlreadyPartitioned(h)
    PROVE  Kept /\ AllFree'
<1>1. AllFree' /\ Locks' /\ TodoOK'
  BY Returned DEF AlreadyPartitioned
<1>2. Cells' /\ PidsKept'
  BY Hypotheses DEF Cells, PidsKept, AlreadyPartitioned
<1>3. QED
  BY <1>1, <1>2, FreeIsRefreshed DEF Kept

\* A heal of what is not partitioned keeps it.
LEMMA NotPartitionedKeeps ==
    ASSUME IInv, NEW h \in Handles, NotPartitioned(h)
    PROVE  Kept /\ AllFree'
<1>1. AllFree' /\ Locks' /\ TodoOK'
  BY Returned DEF NotPartitioned, Abort
<1>2. base' \in [Handles -> States] /\ mine' \in [Handles -> States] /\ PidsKept'
  BY BaseSame, Aborted DEF NotPartitioned
<1>3. Cells'
  BY <1>2, Hypotheses DEF Cells, NotPartitioned
<1>4. QED
  BY <1>1, <1>2, <1>3, FreeIsRefreshed DEF Kept

\* A refusal is counted.
LEMMA MishapCounts ==
    ASSUME IInv, NEW h, Mishap(h)
    PROVE  mishaps' \in 0..MaxMishaps /\ mishaps' = mishaps + 1
BY Hypotheses DEF Mishap, Cells

\* change_tc of one endpoint keeps it.
LEMMA ChangeTcKeeps ==
    ASSUME IInv, NEW h \in Handles, ChangeTc(h)
    PROVE  Kept
<1>1. PICK e \in Endpoints : e = Head(todo[h].left)
  BY ChangesAt DEF ChangeTc
<1>2. PICK m \in States : m = Edited(mine[h], todo[h], e) /\ m.pids = mine[h].pids
  BY <1>1, ChangedKernel DEF ChangeTc
<1>3. mine' = [mine EXCEPT ![h] = m] /\ base' = [base EXCEPT ![h] = base[h]]
  BY <1>1, <1>2, BaseSame DEF ChangeTc
<1>4. base' \in [Handles -> States] /\ mine' \in [Handles -> States] /\ PidsKept'
  BY <1>2, <1>3, BaseSame, MemoryIs
<1>5. kernel' \in [Endpoints -> Tc]
  BY <1>1, ChangedKernel DEF ChangeTc
<1>6. Cells'
  BY <1>4, <1>5, Hypotheses DEF Cells, ChangeTc
<1>7. Locks' /\ pc[h] = "locked" /\ pc' = pc
  BY Hypotheses DEF Locks, ChangeTc, Changes
<1>8. TodoOK'
  <2>1. PICK t \in Seq(Endpoints) : t = Tail(todo[h].left) /\ Range(t) \subseteq Range(todo[h].left)
    BY ChangesAt DEF ChangeTc
  <2>2. todo' = [todo EXCEPT ![h] = [todo[h] EXCEPT !.left = t]]
    BY <2>1 DEF ChangeTc
  <2>3. Fits(todo[h], h)
    BY TodoIs, Hypotheses
  <2>4. /\ [todo[h] EXCEPT !.left = t] \in UnderWay
        /\ [todo[h] EXCEPT !.left = t].left = t /\ [todo[h] EXCEPT !.left = t].on = todo[h].on
        /\ [todo[h] EXCEPT !.left = t].op = todo[h].op /\ [todo[h] EXCEPT !.left = t].val = todo[h].val
    BY <2>3 DEF Fits, UnderWay
  <2>5. Fits([todo[h] EXCEPT !.left = t], h)
    BY <2>1, <2>3, <2>4 DEF Fits
  <2>6. QED
    BY <1>7, <2>2, <2>5, Hypotheses, NextTodo
<1>9. Refreshed'
  BY <1>7, Hypotheses DEF Refreshed, ChangeTc
<1>10. QED
  BY <1>4, <1>6, <1>7, <1>8, <1>9 DEF Kept

\* A refused change_tc keeps it.
LEMMA ChangeFailsKeeps ==
    ASSUME IInv, NEW h \in Handles, ChangeFails(h)
    PROVE  Kept /\ AllFree'
<1>1. AllFree' /\ Locks' /\ TodoOK'
  BY Returned DEF ChangeFails, Changes, Abort
<1>2. base' \in [Handles -> States] /\ mine' \in [Handles -> States] /\ PidsKept'
  BY BaseSame, Aborted DEF ChangeFails
<1>3. PICK e \in Endpoints : e = Head(todo[h].left)
  BY ChangesAt DEF ChangeFails
<1>4. PICK k \in [Endpoints -> Tc] : Partly(k)
  BY <1>3, ChangedKernel DEF ChangeFails
<1>5. kernel' \in [Endpoints -> Tc]
  BY <1>4, PartlyType, Hypotheses DEF Cells
<1>6. playing' \in [Handles -> SUBSET Targets]
  <2>1. todo[h].op = "tick" => todo[h].on \in Targets
    BY TodoIs, Hypotheses DEF Fits
  <2>2. QED
    BY <2>1, Hypotheses DEF Cells, ChangeFails
<1>7. Cells'
  BY <1>2, <1>5, <1>6, MishapCounts, Hypotheses DEF Cells, ChangeFails
<1>8. QED
  BY <1>1, <1>2, <1>7, FreeIsRefreshed DEF Kept

\* A spawn keeps it.
LEMMA SpawnKeeps ==
    ASSUME IInv, NEW h \in Handles, Spawn(h)
    PROVE  Kept
<1>1. PICK p \in Pids : /\ procs' = procs \cup {p}
                        /\ mine' = [mine EXCEPT ![h].pids = mine[h].pids \cup {p}]
  BY DEF Spawn
<1>2. PICK m \in States : m = [mine[h] EXCEPT !.pids = mine[h].pids \cup {p}]
                          /\ m.pids = mine[h].pids \cup {p}
  <2>1. PICK q \in SUBSET Pids : q = mine[h].pids \cup {p}
    BY BaseSame, StateFields
  <2>2. [mine[h] EXCEPT !.pids = q] \in States /\ [mine[h] EXCEPT !.pids = q].pids = q
    BY <2>1, BaseSame DEF States
  <2>3. QED
    BY <2>1, <2>2
<1>3. mine' = [mine EXCEPT ![h] = m] /\ base' = [base EXCEPT ![h] = base[h]]
  BY <1>1, <1>2, BaseSame DEF Spawn
<1>4. base[h].pids \subseteq m.pids
  BY <1>2, BaseSame
<1>5. base' \in [Handles -> States] /\ mine' \in [Handles -> States] /\ PidsKept'
  BY <1>3, <1>4, BaseSame, MemoryIs
<1>6. Cells'
  BY <1>1, <1>5, Hypotheses DEF Cells, Spawn
<1>7. Locks' /\ pc[h] = "locked" /\ pc' = pc
  BY Hypotheses DEF Locks, Spawn
<1>8. TodoOK'
  <2>1. todo' = [todo EXCEPT ![h] = [todo[h] EXCEPT !.op = "spawned"]] /\ todo[h].op = "spawn"
    BY DEF Spawn
  <2>2. Fits(todo[h], h)
    BY TodoIs, Hypotheses
  <2>3. /\ [todo[h] EXCEPT !.op = "spawned"] \in UnderWay
        /\ [todo[h] EXCEPT !.op = "spawned"].left = todo[h].left
        /\ [todo[h] EXCEPT !.op = "spawned"].on = todo[h].on
        /\ [todo[h] EXCEPT !.op = "spawned"].op = "spawned"
    BY <2>2 DEF Fits, UnderWay
  <2>4. Fits([todo[h] EXCEPT !.op = "spawned"], h)
    BY <2>1, <2>2, <2>3 DEF Fits
  <2>5. QED
    BY <1>7, <2>1, <2>4, Hypotheses, NextTodo
<1>9. Refreshed'
  BY <1>7, Hypotheses DEF Refreshed, Spawn
<1>10. QED
  BY <1>5, <1>6, <1>7, <1>8, <1>9 DEF Kept

\* A spawn that fails keeps it.
LEMMA SpawnFailsKeeps ==
    ASSUME IInv, NEW h \in Handles, SpawnFails(h)
    PROVE  Kept /\ AllFree'
<1>1. AllFree' /\ Locks' /\ TodoOK'
  BY Returned DEF SpawnFails, Abort
<1>2. base' \in [Handles -> States] /\ mine' \in [Handles -> States] /\ PidsKept'
  BY BaseSame, Aborted DEF SpawnFails
<1>3. Cells'
  BY <1>2, Hypotheses DEF Cells, SpawnFails
<1>4. QED
  BY <1>1, <1>2, <1>3, FreeIsRefreshed DEF Kept

\* kill_process keeps it.
LEMMA KillProcessKeeps ==
    ASSUME IInv, NEW h \in Handles, NEW p \in Pids, KillProcess(h, p)
    PROVE  Kept
<1>1. UNCHANGED <<holder, file, kernel, pc, base, mine, todo, playing, acked, mishaps>>
      /\ procs' = procs \ {p}
  BY DEF KillProcess, handles
<1>2. Cells' /\ Locks' /\ PidsKept' /\ Refreshed'
  BY <1>1, Hypotheses DEF Cells, Locks, PidsKept, Refreshed
<1>3. TodoOK'
  BY <1>1, Hypotheses DEF TodoOK
<1>4. QED
  BY <1>2, <1>3 DEF Kept

\* A commit keeps it, and saves exactly what the handle has.
LEMMA CommitKeeps ==
    ASSUME IInv, NEW h \in Handles, Commit(h)
    PROVE  Kept /\ AllFree' /\ file' = mine[h]
<1>1. pc[h] = "locked" /\ Return(h)
  BY DEF Commit, Ready
<1>2. AllFree' /\ Locks' /\ TodoOK'
  BY <1>1, Returned
<1>3. file' = mine[h]
  BY <1>1, BaseSame, MergeType, Hypotheses DEF Commit, Refreshed
<1>4. base' = [base EXCEPT ![h] = mine[h]] /\ mine' = [mine EXCEPT ![h] = mine[h]]
  BY BaseSame DEF Commit
<1>5. base' \in [Handles -> States] /\ mine' \in [Handles -> States] /\ PidsKept'
  BY <1>4, BaseSame, MemoryIs
<1>6. acked' \in [Endpoints -> Tc]
  BY BaseSame, ViewType, AnsweredType, Hypotheses DEF Cells, Commit
<1>7. playing' \in [Handles -> SUBSET Targets]
  BY Hypotheses DEF Cells, Commit
<1>8. Cells'
  BY <1>3, <1>5, <1>6, <1>7, BaseSame, Hypotheses DEF Cells, Commit
<1>9. QED
  BY <1>2, <1>3, <1>5, <1>8, FreeIsRefreshed DEF Kept

\* A commit that fails keeps it.
LEMMA CommitFailsKeeps ==
    ASSUME IInv, NEW h \in Handles, CommitFails(h)
    PROVE  Kept /\ AllFree'
<1>1. AllFree' /\ Locks' /\ TodoOK'
  BY Returned DEF CommitFails, Ready, Abort
<1>2. base' \in [Handles -> States] /\ mine' \in [Handles -> States] /\ PidsKept'
  BY BaseSame, Aborted DEF CommitFails
<1>3. Cells'
  BY <1>2, MishapCounts, Hypotheses DEF Cells, CommitFails
<1>4. QED
  BY <1>1, <1>2, <1>3, FreeIsRefreshed DEF Kept

\* The end of a tick keeps it.
LEMMA TickedKeeps ==
    ASSUME IInv, NEW h \in Handles, Ticked(h)
    PROVE  Kept /\ AllFree'
<1>1. AllFree' /\ Locks' /\ TodoOK'
  BY Returned DEF Ticked
<1>2. todo[h].on \in Targets
  BY TodoIs, Hypotheses DEF Fits, Ticked
<1>3. playing' \in [Handles -> SUBSET Targets]
  BY <1>2, Hypotheses DEF Cells, Ticked
<1>4. Cells' /\ PidsKept'
  BY <1>3, Hypotheses DEF Cells, PidsKept, Ticked
<1>5. QED
  BY <1>1, <1>4, FreeIsRefreshed DEF Kept

\* replay_end keeps it.
LEMMA ReplayEndKeeps ==
    ASSUME IInv, NEW h \in Handles, ReplayEnd(h)
    PROVE  Kept /\ AllFree'
<1>1. AllFree' /\ Locks' /\ TodoOK'
  BY Returned DEF ReplayEnd
<1>2. PICK m \in States : m = Restored(mine[h], base[h], todo[h].on) /\ m.pids = mine[h].pids
  BY PutBackType
<1>3. mine' = [mine EXCEPT ![h] = m] /\ base' = [base EXCEPT ![h] = base[h]]
  BY <1>2, BaseSame DEF ReplayEnd
<1>4. base' \in [Handles -> States] /\ mine' \in [Handles -> States] /\ PidsKept'
  BY <1>2, <1>3, BaseSame, MemoryIs
<1>5. playing' \in [Handles -> SUBSET Targets] /\ kernel' \in [Endpoints -> Tc]
  BY PutBackType, Hypotheses DEF Cells, ReplayEnd
<1>6. Cells'
  BY <1>4, <1>5, Hypotheses DEF Cells, ReplayEnd
<1>7. QED
  BY <1>1, <1>4, <1>6, FreeIsRefreshed DEF Kept

\* A refused replay_end keeps it.
LEMMA ReplayEndFailsKeeps ==
    ASSUME IInv, NEW h \in Handles, ReplayEndFails(h)
    PROVE  Kept /\ AllFree'
<1>1. AllFree' /\ Locks' /\ TodoOK'
  BY Returned DEF ReplayEndFails, Abort
<1>2. PICK m \in States : m = Restored(mine[h], base[h], todo[h].on) /\ m.pids = mine[h].pids
  BY PutBackType
<1>3. base' \in [Handles -> States] /\ mine' \in [Handles -> States] /\ PidsKept'
  BY <1>2, BaseSame, Aborted DEF ReplayEndFails
<1>4. kernel' \in [Endpoints -> Tc]
  BY PutBackType, PartlyType, Hypotheses DEF Cells, ReplayEndFails
<1>5. playing' \in [Handles -> SUBSET Targets]
  BY Hypotheses DEF Cells, ReplayEndFails
<1>6. Cells'
  BY <1>3, <1>4, <1>5, MishapCounts, Hypotheses DEF Cells, ReplayEndFails
<1>7. QED
  BY <1>1, <1>3, <1>6, FreeIsRefreshed DEF Kept

\* What is left of a handle whose process is gone.
LEMMA Forgotten ==
    ASSUME IInv, NEW h \in Handles, Forget(h)
    PROVE  /\ base' \in [Handles -> States] /\ mine' \in [Handles -> States] /\ PidsKept'
           /\ base'[h] = Deployed /\ mine'[h] = Deployed
           /\ \A g \in Handles \ {h} : base'[g] = base[g] /\ mine'[g] = mine[g]
           /\ pc' \in [Handles -> {"none", "ready", "locked"}] /\ pc'[h] = "none"
           /\ \A g \in Handles \ {h} : pc'[g] = pc[g]
           /\ {g \in Handles : pc'[g] = "locked"} = {g \in Handles : pc[g] = "locked"} \ {h}
<1>1. /\ base' \in [Handles -> States] /\ mine' \in [Handles -> States] /\ PidsKept'
      /\ base'[h] = Deployed /\ mine'[h] = Deployed
      /\ \A g \in Handles \ {h} : base'[g] = base[g] /\ mine'[g] = mine[g]
  BY DeployedState, MemoryIs DEF Forget
<1>2. /\ pc' \in [Handles -> {"none", "ready", "locked"}] /\ pc'[h] = "none"
      /\ \A g \in Handles \ {h} : pc'[g] = pc[g]
  BY Hypotheses DEF Forget, Locks
<1>3. QED
  BY <1>1, <1>2

\* A handle's end keeps it.
LEMMA ExitKeeps ==
    ASSUME IInv, NEW h \in Handles, Exit(h)
    PROVE  Kept
<1>1. Cells'
  BY Forgotten, Hypotheses DEF Cells, Exit
<1>2. Locks'
  <2>1. {g \in Handles : pc'[g] = "locked"} = {g \in Handles : pc[g] = "locked"}
    BY Forgotten DEF Exit
  <2>2. QED
    BY <2>1, Forgotten, Hypotheses DEF Locks, Exit
<1>3. TodoOK'
  <2>1. todo[h] = NoOp /\ Fits(NoOp, h)
    BY Hypotheses, TodoIs, NoOpFits DEF Exit
  <2>2. todo' = [todo EXCEPT ![h] = NoOp]
    BY <2>1, Hypotheses DEF TodoOK, Exit
  <2>3. QED
    BY <2>1, <2>2, Forgotten, Hypotheses, NextTodo DEF Exit
<1>4. Refreshed'
  BY Forgotten, Hypotheses DEF Refreshed, Exit
<1>5. QED
  BY <1>1, <1>2, <1>3, <1>4, Forgotten DEF Kept, Exit

\* A kill keeps it: the lock goes with its holder.
LEMMA KillKeeps ==
    ASSUME IInv, NEW h \in Handles, Kill(h)
    PROVE  Kept
<1>1. mishaps' \in 0..MaxMishaps
  BY Hypotheses DEF Cells, Kill
<1>2. playing' \in [Handles -> SUBSET Targets]
  BY Hypotheses DEF Cells, Kill
<1>3. Cells'
  BY <1>1, <1>2, Forgotten, Hypotheses DEF Cells, Kill
<1>4. Locks'
  <2>1. {g \in Handles : pc'[g] = "locked"} = ({holder} \ {Nobody}) \ {h}
    BY Forgotten, Hypotheses DEF Locks, Kill
  <2>2. ({holder} \ {Nobody}) \ {h} = {holder'} \ {Nobody}
    BY RuntimeConstants DEF Kill
  <2>3. QED
    BY <2>1, <2>2, Forgotten DEF Locks, Kill
<1>5. TodoOK'
  <2>1. todo' = [todo EXCEPT ![h] = NoOp]
    BY DEF Kill
  <2>2. QED
    BY <2>1, NoOpFits, Forgotten, Hypotheses, NextTodo DEF Kill
<1>6. Refreshed'
  BY Forgotten, Hypotheses DEF Refreshed, Kill
<1>7. QED
  BY <1>3, <1>4, <1>5, <1>6, Forgotten DEF Kept, Kill

-----------------------------------------------------------------------------
\* The processes

Lost == procs \ file.pids
SomeSpawned == \E g \in Handles : todo[g].op = "spawned"

\* A part of a finite set is finite and no larger.
LEMMA SubsetCard ==
    ASSUME NEW P, IsFiniteSet(P), NEW Q, Q \subseteq P
    PROVE  /\ IsFiniteSet(Q) /\ Cardinality(Q) \in Nat /\ Cardinality(P) \in Nat
           /\ Cardinality(Q) <= Cardinality(P)
BY FS_Subset, FS_CardinalityType

\* Naming one process less loses at most one more.
LEMMA OneMore ==
    ASSUME NEW P, IsFiniteSet(P), NEW F, NEW p, NEW n \in Nat, Cardinality(P \ (F \cup {p})) <= n
    PROVE  Cardinality(P \ F) <= n + 1
<1>1. IsFiniteSet(P \ (F \cup {p})) /\ Cardinality(P \ (F \cup {p})) \in Nat
  BY SubsetCard
<1>2. PICK Q : Q = P \ (F \cup {p})
  OBVIOUS
<1>3. /\ IsFiniteSet(Q \cup {p})
      /\ Cardinality(Q \cup {p}) = Cardinality(Q) \/ Cardinality(Q \cup {p}) = Cardinality(Q) + 1
  BY <1>1, <1>2, FS_AddElement
<1>4. Cardinality(P \ F) <= Cardinality(Q \cup {p}) /\ Cardinality(P \ F) \in Nat
  BY <1>2, <1>3, SubsetCard
<1>5. QED
  BY <1>1, <1>2, <1>3, <1>4

\* At most one process more than the mishaps is not in the file, and none
\* more unless one was just spawned.
LEMMA AtMostOneMore ==
    ASSUME IInv
    PROVE  /\ IsFiniteSet(procs) /\ mishaps \in Nat /\ Cardinality(Lost) \in Nat
           /\ Cardinality(Lost) <= mishaps + 1
           /\ ~SomeSpawned => Cardinality(Lost) <= mishaps
<1>1. IsFiniteSet(procs) /\ mishaps \in Nat
  BY Hypotheses DEF IInv, FewLost, Cells
<1>2. Cardinality(Lost) \in Nat
  BY <1>1, SubsetCard DEF Lost
<1>3. ~SomeSpawned => Cardinality(Lost) <= mishaps
  BY DEF IInv, FewLost, SomeSpawned, Lost
<1>4. SomeSpawned => \E p \in mine[holder].pids : Cardinality(procs \ (file.pids \cup {p})) <= mishaps
  BY DEF IInv, FewLost, SomeSpawned
<1>5. Cardinality(Lost) <= mishaps + 1
  <2>1. CASE SomeSpawned
    <3>1. PICK p : Cardinality(procs \ (file.pids \cup {p})) <= mishaps
      BY <1>4, <2>1
    <3>2. QED
      BY <1>1, <3>1, OneMore DEF Lost
  <2>2. CASE ~SomeSpawned
    BY <1>1, <1>2, <1>3, <2>2
  <2>3. QED
    BY <2>1, <2>2
<1>6. QED
  BY <1>1, <1>2, <1>3, <1>5

\* While the holder has spawned nothing, nobody has.
LEMMA OtherHolder ==
    ASSUME IInv, NEW h \in Handles, pc[h] = "locked", todo[h].op # "spawned"
    PROVE  ~SomeSpawned
BY OneHolder, SpawnedHolds DEF SomeSpawned

\* FewLost where no spawn is under way.
LEMMA FreeFew ==
    ASSUME ~SomeSpawned', IsFiniteSet(procs'), Cardinality(Lost') <= mishaps'
    PROVE  FewLost'
BY DEF FewLost, SomeSpawned, Lost

\* With the lock free no spawn is under way.
LEMMA FreeNone == AllFree' => ~SomeSpawned'
<1>1. NoOp.op # "spawned"
  BY DEF NoOp
<1>2. QED
  BY <1>1 DEF AllFree, SomeSpawned

\* The processes the file does not name are the same.
LEMMA QuietReturn ==
    ASSUME IInv, NEW h \in Handles, pc[h] = "locked", todo[h].op # "spawned", AllFree',
           procs' = procs, file' = file, mishaps' = mishaps
    PROVE  FewLost'
<1>1. ~SomeSpawned' /\ Cardinality(Lost) <= mishaps /\ IsFiniteSet(procs)
  BY AtMostOneMore, OtherHolder, FreeNone
<1>2. QED
  BY <1>1, FreeFew DEF Lost

\* A mishap may lose the process just spawned.
LEMMA MishapReturn ==
    ASSUME IInv, ~SomeSpawned', procs' = procs, file' = file, mishaps' = mishaps + 1
    PROVE  FewLost'
<1>1. Cardinality(Lost) <= mishaps + 1 /\ IsFiniteSet(procs)
  BY AtMostOneMore
<1>2. QED
  BY <1>1, FreeFew DEF Lost

\* The memory of the handle that spawned stays.
LEMMA QuietFew ==
    ASSUME IInv, SomeSpawned' <=> SomeSpawned, SomeSpawned => mine'[holder'].pids = mine[holder].pids,
           procs' \subseteq procs, file' = file, mishaps' \in {mishaps, mishaps + 1}
    PROVE  FewLost'
<1>1. IsFiniteSet(procs) /\ IsFiniteSet(procs') /\ mishaps \in Nat
  BY AtMostOneMore, SubsetCard
<1>2. CASE SomeSpawned
  <2>1. PICK p \in mine[holder].pids : Cardinality(procs \ (file.pids \cup {p})) <= mishaps
    BY <1>2 DEF IInv, FewLost, SomeSpawned
  <2>2. IsFiniteSet(procs \ (file.pids \cup {p}))
    BY <1>1, SubsetCard
  <2>3. /\ Cardinality(procs' \ (file.pids \cup {p})) <= Cardinality(procs \ (file.pids \cup {p}))
        /\ Cardinality(procs' \ (file.pids \cup {p})) \in Nat
        /\ Cardinality(procs \ (file.pids \cup {p})) \in Nat
    BY <2>2, SubsetCard
  <2>4. Cardinality(procs' \ (file'.pids \cup {p})) <= mishaps' /\ p \in mine'[holder'].pids
    BY <1>1, <1>2, <2>1, <2>3
  <2>5. QED
    BY <1>1, <1>2, <2>4 DEF FewLost, SomeSpawned
<1>3. CASE ~SomeSpawned
  <2>1. Cardinality(Lost) <= mishaps /\ IsFiniteSet(Lost)
    BY <1>1, <1>3, AtMostOneMore, SubsetCard DEF Lost
  <2>2. Lost' \subseteq Lost
    BY DEF Lost
  <2>3. Cardinality(Lost') <= Cardinality(Lost) /\ Cardinality(Lost') \in Nat /\ Cardinality(Lost) \in Nat
    BY <2>1, <2>2, SubsetCard
  <2>4. QED
    BY <1>1, <1>3, <2>1, <2>3, FreeFew
<1>4. QED
  BY <1>2, <1>3

\* Begin loses no process.
LEMMA BeginFew ==
    ASSUME IInv, NEW h \in Handles, Begin(h)
    PROVE  FewLost'
<1>1. \A g \in Handles : todo[g] = NoOp
  BY OneHolder, TodoIs, Hypotheses DEF Begin
<1>2. NoOp.op # "spawned" /\ "spawned" \notin OpNames
  BY DEF NoOp, OpNames
<1>3. ~SomeSpawned
  BY <1>1, <1>2 DEF SomeSpawned
<1>4. PICK o : todo' = [todo EXCEPT ![h] = o] /\ o.op # "spawned"
  BY <1>2, OperationFits DEF Begin
<1>5. \A g \in Handles : todo'[g].op # "spawned"
  BY <1>1, <1>2, <1>4, Hypotheses DEF TodoOK
<1>6. ~SomeSpawned'
  BY <1>5 DEF SomeSpawned
<1>7. QED
  BY <1>3, <1>6, QuietFew DEF Begin

\* change_tc loses none.
LEMMA ChangeFew ==
    ASSUME IInv, NEW h \in Handles, ChangeTc(h)
    PROVE  FewLost'
<1>1. todo[h].op # "spawned" /\ pc[h] = "locked"
  BY DEF ChangeTc, Changes
<1>2. ~SomeSpawned
  BY <1>1, OtherHolder
<1>3. \A g \in Handles : todo'[g].op = todo[g].op
  <2>1. todo' = [todo EXCEPT ![h] = [todo[h] EXCEPT !.left = Tail(todo[h].left)]]
        /\ todo \in [Handles -> UnderWay]
    BY Hypotheses DEF ChangeTc, TodoOK
  <2>2. [todo[h] EXCEPT !.left = Tail(todo[h].left)].op = todo[h].op
    BY <2>1 DEF UnderWay
  <2>3. QED
    BY <2>1, <2>2
<1>4. ~SomeSpawned'
  BY <1>2, <1>3 DEF SomeSpawned
<1>5. QED
  BY <1>2, <1>4, QuietFew DEF ChangeTc

\* A spawn: the file does not name the process yet, the handle does.
LEMMA SpawnFew ==
    ASSUME IInv, NEW h \in Handles, Spawn(h)
    PROVE  FewLost'
<1>1. todo[h].op # "spawned" /\ pc[h] = "locked" /\ holder = h /\ holder' = h
  BY OneHolder DEF Spawn
<1>2. Cardinality(Lost) <= mishaps /\ IsFiniteSet(procs) /\ IsFiniteSet(Lost)
  BY <1>1, OtherHolder, AtMostOneMore, SubsetCard DEF Lost
<1>3. PICK p \in Pids : /\ procs' = procs \cup {p}
                        /\ mine' = [mine EXCEPT ![h].pids = mine[h].pids \cup {p}]
  BY DEF Spawn
<1>4. p \in mine'[holder'].pids
  <2>1. mine'[h] = [mine[h] EXCEPT !.pids = mine[h].pids \cup {p}]
    BY <1>3, Hypotheses DEF Cells
  <2>2. mine'[h].pids = mine[h].pids \cup {p}
    BY <2>1, BaseSame DEF States
  <2>3. QED
    BY <1>1, <2>2
<1>5. procs' \ (file'.pids \cup {p}) \subseteq Lost
  BY <1>3 DEF Spawn, Lost
<1>6. Cardinality(procs' \ (file'.pids \cup {p})) <= mishaps'
  <2>1. /\ Cardinality(procs' \ (file'.pids \cup {p})) \in Nat /\ Cardinality(Lost) \in Nat
        /\ Cardinality(procs' \ (file'.pids \cup {p})) <= Cardinality(Lost)
    BY <1>2, <1>5, SubsetCard
  <2>2. QED
    BY <1>2, <2>1, AtMostOneMore DEF Spawn
<1>7. IsFiniteSet(procs')
  BY <1>2, <1>3, FS_AddElement
<1>8. \E g \in Handles : todo'[g].op = "spawned"
  <2>1. todo'[h] = [todo[h] EXCEPT !.op = "spawned"] /\ todo[h] \in UnderWay
    BY Hypotheses DEF TodoOK, Spawn
  <2>2. QED
    BY <2>1 DEF UnderWay
<1>9. QED
  BY <1>4, <1>6, <1>7, <1>8 DEF FewLost

\* The save names the process that was spawned.
LEMMA CommitFew ==
    ASSUME IInv, NEW h \in Handles, Commit(h)
    PROVE  FewLost'
<1>1. holder = h /\ pc[h] = "locked" /\ file = base[h]
  BY OneHolder, Hypotheses DEF Commit, Ready, Refreshed
<1>2. ~SomeSpawned' /\ file' = mine[h] /\ procs' = procs /\ mishaps' = mishaps
  BY CommitKeeps, FreeNone DEF Commit
<1>3. file.pids \subseteq file'.pids
  BY <1>1, <1>2, BaseSame
<1>4. Cardinality(Lost') <= mishaps
  <2>1. PICK F : /\ procs \ file'.pids \subseteq procs \ F
                 /\ Cardinality(procs \ F) <= mishaps
    <3>1. CASE SomeSpawned
      <4>1. PICK p \in mine[holder].pids : Cardinality(procs \ (file.pids \cup {p})) <= mishaps
        BY <3>1 DEF IInv, FewLost, SomeSpawned
      <4>2. QED
        BY <1>1, <1>2, <1>3, <4>1
    <3>2. CASE ~SomeSpawned
      <4>1. Cardinality(procs \ file.pids) <= mishaps
        BY <3>2, AtMostOneMore DEF Lost
      <4>2. QED
        BY <1>3, <4>1
    <3>3. QED
      BY <3>1, <3>2
  <2>2. IsFiniteSet(procs \ F)
    BY AtMostOneMore, SubsetCard
  <2>3. /\ Cardinality(procs \ file'.pids) <= Cardinality(procs \ F)
        /\ Cardinality(procs \ file'.pids) \in Nat /\ Cardinality(procs \ F) \in Nat
    BY <2>1, <2>2, SubsetCard
  <2>4. QED
    BY <1>2, <2>1, <2>3, AtMostOneMore DEF Lost
<1>5. QED
  BY <1>2, <1>4, AtMostOneMore, FreeFew

\* A step of a handle that has no operation under way loses none.
LEMMA OutsideFew ==
    ASSUME IInv, NEW h \in Handles, pc[h] # "locked", todo' = todo, holder' = holder,
           \A g \in Handles \ {h} : mine'[g] = mine[g],
           procs' \subseteq procs, file' = file, mishaps' = mishaps
    PROVE  FewLost'
<1>1. SomeSpawned' <=> SomeSpawned
  BY DEF SomeSpawned
<1>2. SomeSpawned => mine'[holder'].pids = mine[holder].pids
  BY SpawnedHolds, OneHolder DEF SomeSpawned
<1>3. QED
  BY <1>1, <1>2, QuietFew

\* A kill loses at most the process that was just spawned.
LEMMA KillFew ==
    ASSUME IInv, NEW h \in Handles, Kill(h)
    PROVE  FewLost'
<1>1. NoOp.op # "spawned" /\ todo' = [todo EXCEPT ![h] = NoOp]
  BY DEF NoOp, Kill
<1>2. todo'[h].op # "spawned" /\ \A g \in Handles \ {h} : todo'[g] = todo[g]
  BY <1>1, Hypotheses DEF TodoOK
<1>3. CASE holder = h
  <2>1. ~SomeSpawned'
    BY <1>2, <1>3, SpawnedHolds DEF SomeSpawned
  <2>2. QED
    BY <2>1, MishapReturn DEF Kill
<1>4. CASE holder # h
  <2>1. todo[h].op # "spawned"
    BY <1>4, SpawnedHolds
  <2>2. SomeSpawned' <=> SomeSpawned
    BY <1>2, <2>1 DEF SomeSpawned
  <2>3. SomeSpawned => mine'[holder'].pids = mine[holder].pids
    BY <1>4, SpawnedHolds, Forgotten DEF SomeSpawned, Kill
  <2>4. QED
    BY <2>2, <2>3, QuietFew DEF Kill
<1>5. QED
  BY <1>3, <1>4

-----------------------------------------------------------------------------
\* The theorems

\* The parts kept make the invariant.
LEMMA KeptIs == Kept /\ FewLost' => IInv'
BY TypeIs DEF Kept, IInv

\* The inductive invariant of the runtime state, for any handles, endpoints,
\* operations and faults: types, the lock held by the handle under way, that
\* handle's copy of the file current (refresh), no process forgotten by
\* merge_pids, and few processes untracked.
THEOREM RuntimeInvariant == Spec => []IInv
<1>1. Init => IInv
  <2>1. SUFFICES ASSUME Init PROVE IInv
    OBVIOUS
  <2>2. View(Deployed) \in [Endpoints -> Tc]
    BY DeployedState, ViewType
  <2>3. Cells
    BY <2>1, <2>2, DeployedState, RuntimeConstants DEF Init, Cells
  <2>4. Locks
    BY <2>1, RuntimeConstants DEF Init, Locks
  <2>5. TodoOK
    <3>1. \A h \in Handles : todo[h] = NoOp
      BY <2>1 DEF Init
    <3>2. todo \in [Handles -> UnderWay]
      BY <2>1, NoOpFits DEF Init, Fits
    <3>3. QED
      BY <3>1, <3>2, NoOpFits, Zenon DEF TodoOK, Fits
  <2>6. Refreshed /\ PidsKept
    BY <2>1 DEF Init, Refreshed, PidsKept
  <2>7. FewLost
    <3>1. \A h \in Handles : todo[h].op # "spawned"
      BY <2>1 DEF Init, NoOp
    <3>2. procs \ file.pids = {} /\ procs = {} /\ mishaps = 0
      BY <2>1 DEF Init
    <3>3. QED
      BY <3>1, <3>2, FS_EmptySet DEF FewLost
  <2>8. QED
    BY <2>3, <2>4, <2>5, <2>6, <2>7, TypeIs DEF IInv
<1>2. IInv /\ [Next]_vars => IInv'
  <2>1. SUFFICES ASSUME IInv, [Next]_vars PROVE IInv'
    OBVIOUS
  <2>2. CASE UNCHANGED vars
    <3>1. UNCHANGED <<holder, file, kernel, procs, pc, base, mine, todo, playing, acked, mishaps>>
      BY <2>2 DEF vars, handles
    <3>2. (TypeOK /\ Refreshed /\ PidsKept)'
      BY <2>1, <3>1 DEF IInv, TypeOK, Refreshed, PidsKept
    <3>3. TodoOK'
      BY <2>1, <3>1 DEF IInv, TodoOK
    <3>4. FewLost'
      BY <2>1, <3>1 DEF IInv, FewLost
    <3>5. QED
      BY <3>2, <3>3, <3>4 DEF IInv
  <2>3. ASSUME NEW h \in Handles, Load(h) PROVE IInv'
    BY <2>1, <2>3, LoadKeeps, OutsideFew, KeptIs, BaseSame, MemoryIs DEF Load
  <2>4. ASSUME NEW h \in Handles, Begin(h) PROVE IInv'
    BY <2>1, <2>4, BeginKeeps, BeginFew, KeptIs
  <2>5. ASSUME NEW h \in Handles, AlreadyPartitioned(h) PROVE IInv'
    BY <2>1, <2>5, AlreadyPartitionedKeeps, QuietReturn, KeptIs DEF AlreadyPartitioned
  <2>6. ASSUME NEW h \in Handles, NotPartitioned(h) PROVE IInv'
    BY <2>1, <2>6, NotPartitionedKeeps, QuietReturn, KeptIs DEF NotPartitioned
  <2>7. ASSUME NEW h \in Handles, ChangeTc(h) PROVE IInv'
    BY <2>1, <2>7, ChangeTcKeeps, ChangeFew, KeptIs
  <2>8. ASSUME NEW h \in Handles, ChangeFails(h) PROVE IInv'
    BY <2>1, <2>8, ChangeFailsKeeps, FreeNone, MishapCounts, MishapReturn, KeptIs DEF ChangeFails
  <2>9. ASSUME NEW h \in Handles, Spawn(h) PROVE IInv'
    BY <2>1, <2>9, SpawnKeeps, SpawnFew, KeptIs
  <2>10. ASSUME NEW h \in Handles, SpawnFails(h) PROVE IInv'
    BY <2>1, <2>10, SpawnFailsKeeps, QuietReturn, KeptIs DEF SpawnFails
  <2>11. ASSUME NEW h \in Handles, NEW p \in Pids, KillProcess(h, p) PROVE IInv'
    <3>1. pc[h] # "locked" /\ todo' = todo /\ holder' = holder /\ mine' = mine
          /\ procs' \subseteq procs /\ file' = file /\ mishaps' = mishaps
      BY <2>11 DEF KillProcess, handles
    <3>2. FewLost'
      BY <2>1, <3>1, OutsideFew
    <3>3. QED
      BY <2>1, <2>11, <3>2, KillProcessKeeps, KeptIs
  <2>12. ASSUME NEW h \in Handles, Commit(h) PROVE IInv'
    BY <2>1, <2>12, CommitKeeps, CommitFew, KeptIs
  <2>13. ASSUME NEW h \in Handles, CommitFails(h) PROVE IInv'
    BY <2>1, <2>13, CommitFailsKeeps, FreeNone, MishapCounts, MishapReturn, KeptIs DEF CommitFails
  <2>14. ASSUME NEW h \in Handles, Ticked(h) PROVE IInv'
    BY <2>1, <2>14, TickedKeeps, QuietReturn, KeptIs DEF Ticked
  <2>15. ASSUME NEW h \in Handles, ReplayEnd(h) PROVE IInv'
    BY <2>1, <2>15, ReplayEndKeeps, QuietReturn, KeptIs DEF ReplayEnd
  <2>16. ASSUME NEW h \in Handles, ReplayEndFails(h) PROVE IInv'
    BY <2>1, <2>16, ReplayEndFailsKeeps, FreeNone, MishapCounts, MishapReturn, KeptIs DEF ReplayEndFails
  <2>17. ASSUME NEW h \in Handles, Exit(h) PROVE IInv'
    <3>1. FewLost'
      BY <2>1, <2>17, Forgotten, OutsideFew DEF Exit
    <3>2. QED
      BY <2>1, <2>17, <3>1, ExitKeeps, KeptIs
  <2>18. ASSUME NEW h \in Handles, Kill(h) PROVE IInv'
    BY <2>1, <2>18, KillKeeps, KillFew, KeptIs
  <2>19. QED
    BY <2>1, <2>2, <2>3, <2>4, <2>5, <2>6, <2>7, <2>8, <2>9, <2>10, <2>11, <2>12, <2>13, <2>14,
       <2>15, <2>16, <2>17, <2>18 DEF Next
<1>3. QED
  BY <1>1, <1>2, PTL DEF Spec

\* Every background process is in state.json or in the memory of the handle
\* spawning it, but for one per refusal or kill (ProcsTracked).
THEOREM RuntimeProcsTracked == Spec => []ProcsTracked
<1>1. IInv => ProcsTracked
  <2>1. SUFFICES ASSUME IInv PROVE ProcsTracked
    OBVIOUS
  <2>2. PICK N : N = IF holder = Nobody THEN {} ELSE mine[holder].pids
    OBVIOUS
  <2>3. PICK F : procs \ (file.pids \cup N) \subseteq procs \ F /\ Cardinality(procs \ F) <= mishaps
    <3>1. CASE SomeSpawned
      <4>1. PICK p \in mine[holder].pids : Cardinality(procs \ (file.pids \cup {p})) <= mishaps
        BY <2>1, <3>1 DEF IInv, FewLost, SomeSpawned
      <4>2. holder # Nobody
        BY <2>1, <3>1, SpawnedHolds, RuntimeConstants DEF SomeSpawned
      <4>3. QED
        BY <2>2, <4>1, <4>2
    <3>2. CASE ~SomeSpawned
      BY <2>1, <3>2, AtMostOneMore DEF Lost
    <3>3. QED
      BY <3>1, <3>2
  <2>4. IsFiniteSet(procs \ F) /\ mishaps \in Nat
    BY <2>1, AtMostOneMore, SubsetCard
  <2>5. /\ Cardinality(procs \ (file.pids \cup N)) <= Cardinality(procs \ F)
        /\ Cardinality(procs \ (file.pids \cup N)) \in Nat /\ Cardinality(procs \ F) \in Nat
    BY <2>3, <2>4, SubsetCard
  <2>6. Cardinality(procs \ (file.pids \cup N)) <= mishaps
    BY <2>3, <2>4, <2>5
  <2>7. QED
    BY <2>1, <2>2, <2>6 DEF ProcsTracked, IInv
<1>2. QED
  BY <1>1, RuntimeInvariant, PTL

-----------------------------------------------------------------------------
\* What the file holds

\* What a handle that commits has while it has the lock.
LEMMA OwnBegins ==
    ASSUME IInv, SavedOrOwn, NEW h \in Handles \ Replays, Begin(h)
    PROVE  OnlyItsOwn(h)'
<1>1. mine'[h] = file /\ file' = file
  <2>1. Merge(file, base[h], mine[h]) = file
    BY BaseSame, MergeType DEF SavedOrOwn, Begin
  <2>2. QED
    BY <2>1, Hypotheses DEF Cells, Begin
<1>2. PICK o \in Operations(h) : todo' = [todo EXCEPT ![h] = o]
  BY DEF Begin
<1>3. todo'[h] = o
  BY <1>2, Hypotheses DEF TodoOK
<1>4. o.op \in {"partition", "heal"} => Len(o.left) = 1
  <2>1. \/ \E on \in Targets, v \in Values : o = [op |-> "impair", on |-> on, left |-> on, val |-> v]
        \/ \E e \in Endpoints, name \in {"clear", "partition", "heal"} :
              o = [op |-> name, on |-> <<e>>, left |-> <<e>>, val |-> Clean]
        \/ o = [op |-> "spawn", on |-> <<>>, left |-> <<>>, val |-> Clean]
    BY DEF Operations
  <2>2. CASE \E e \in Endpoints, name \in {"clear", "partition", "heal"} :
              o = [op |-> name, on |-> <<e>>, left |-> <<e>>, val |-> Clean]
    <3>1. PICK e \in Endpoints : o.left = <<e>>
      BY <2>2
    <3>2. Len(<<e>>) = 1
      OBVIOUS
    <3>3. QED
      BY <3>1, <3>2
  <2>3. QED
    BY <2>1, <2>2
<1>5. QED
  BY <1>1, <1>3, <1>4 DEF OnlyItsOwn

\* change_tc adds only what its operation is about.
LEMMA OwnChanges ==
    ASSUME IInv, SavedOrOwn, NEW h \in Handles \ Replays, ChangeTc(h)
    PROVE  OnlyItsOwn(h)'
<1>1. PICK e \in Endpoints : e = Head(todo[h].left) /\ e \in Range(todo[h].on)
  BY ChangesAt DEF ChangeTc
<1>2. PICK m \in States : m = Edited(mine[h], todo[h], e)
  BY <1>1, ChangedKernel DEF ChangeTc
<1>3. mine'[h] = m /\ file' = file
  BY <1>1, <1>2, Hypotheses DEF ChangeTc, Cells
<1>4. OnlyItsOwn(h) /\ Changes(h)
  BY DEF SavedOrOwn, ChangeTc, Changes
<1>5. todo[h].op \in EditOps /\ todo[h].val \in Values \cup {Clean}
  BY <1>4, ChangesAt
<1>6. Fits(todo[h], h)
  BY TodoIs, Hypotheses
<1>7. PICK t : t = Tail(todo[h].left)
  OBVIOUS
<1>8. todo'[h] = [todo[h] EXCEPT !.left = t] /\ todo[h] \in UnderWay
  BY <1>7, Hypotheses DEF TodoOK, ChangeTc
<1>9. todo'[h].op = todo[h].op /\ todo'[h].on = todo[h].on /\ todo'[h].left = t
  BY <1>8 DEF UnderWay
<1>10. /\ \A d \in Endpoints \ {e} : m.live[d] = mine[h].live[d] /\ m.cut[d] = mine[h].cut[d]
       /\ todo[h].op = "impair" => m.cut[e] = IF mine[h].cut[e] = Absent THEN Absent ELSE todo[h].val
       /\ todo[h].op \in {"partition", "heal"} => m.live = mine[h].live
  BY <1>2, <1>5, BaseSame, EditedType, SMTT(30)
<1>11. \A d \in Endpoints : d \notin Range(todo[h].on) => m.live[d] = file.live[d] /\ m.cut[d] = file.cut[d]
  BY <1>1, <1>4, <1>10 DEF OnlyItsOwn
<1>12. todo[h].op = "impair" => \A d \in Endpoints : m.cut[d] = Absent <=> file.cut[d] = Absent
  <2>1. todo[h].op = "impair" => todo[h].val # Absent
    BY <1>6, RuntimeConstants DEF Fits, Impairments
  <2>2. QED
    BY <1>4, <1>10, <2>1 DEF OnlyItsOwn
<1>13. todo[h].op \in {"partition", "heal"} => m.live = file.live /\ t = <<>>
  <2>1. SUFFICES ASSUME todo[h].op \in {"partition", "heal"} PROVE m.live = file.live /\ t = <<>>
    OBVIOUS
  <2>2. m.live = file.live /\ Len(todo[h].left) = 1
    BY <1>4, <1>10, <2>1 DEF OnlyItsOwn, Changes
  <2>3. todo[h].left \in Seq(Endpoints)
    BY <1>6 DEF Fits, UnderWay
  <2>4. QED
    BY <1>7, <2>2, <2>3
<1>14. todo[h].op # "spawn"
  BY <1>5 DEF EditOps
<1>15. QED
  BY <1>3, <1>9, <1>11, <1>12, <1>13, <1>14 DEF OnlyItsOwn

\* A spawn changes no traffic control.
LEMMA OwnSpawns ==
    ASSUME IInv, SavedOrOwn, NEW h \in Handles \ Replays, Spawn(h)
    PROVE  OnlyItsOwn(h)'
<1>1. OnlyItsOwn(h) /\ Fits(todo[h], h) /\ todo[h].op = "spawn"
  BY TodoIs, Hypotheses DEF SavedOrOwn, Spawn
<1>2. PICK p : mine' = [mine EXCEPT ![h].pids = mine[h].pids \cup {p}]
  BY DEF Spawn
<1>3. mine'[h] = [mine[h] EXCEPT !.pids = mine[h].pids \cup {p}]
  BY <1>2, Hypotheses DEF Cells
<1>4. mine'[h].live = mine[h].live /\ mine'[h].cut = mine[h].cut
  BY <1>3, BaseSame DEF States
<1>5. todo'[h] = [todo[h] EXCEPT !.op = "spawned"] /\ todo[h] \in UnderWay
  BY Hypotheses DEF TodoOK, Spawn
<1>6. todo'[h].op = "spawned" /\ todo'[h].on = todo[h].on
  BY <1>5 DEF UnderWay
<1>7. mine[h] = file /\ file' = file
  BY <1>1 DEF OnlyItsOwn, Spawn
<1>8. QED
  BY <1>4, <1>6, <1>7 DEF OnlyItsOwn

\* After it returned, a handle that commits has what it read or saved.
LEMMA OwnReturns ==
    ASSUME IInv, SavedOrOwn, NEW h \in Handles, pc[h] = "locked", Return(h),
           h \notin Replays => mine'[h] = base'[h],
           \A g \in Handles \ {h} : mine'[g] = mine[g] /\ base'[g] = base[g]
    PROVE  SavedOrOwn'
<1>1. AllFree'
  BY Returned
<1>2. \A g \in Handles \ {h} : pc'[g] = pc[g]
  BY Hypotheses DEF Return, Locks
<1>3. QED
  BY <1>1, <1>2 DEF SavedOrOwn, AllFree

\* An operation that fails leaves a Lab with the file, and an engine with
\* nothing unsaved if it had changed nothing.
LEMMA OwnAborts ==
    ASSUME IInv, SavedOrOwn, NEW h \in Handles, pc[h] = "locked", NEW m \in States, Abort(h, m),
           base[h].pids \subseteq m.pids, h \notin Labs \cup Replays => m = base[h]
    PROVE  SavedOrOwn'
<1>1. /\ h \in Labs => base'[h] = file /\ mine'[h] = file
      /\ h \notin Labs => base'[h] = base[h] /\ mine'[h] = m
      /\ \A g \in Handles \ {h} : base'[g] = base[g] /\ mine'[g] = mine[g]
  BY Aborted
<1>2. QED
  BY <1>1, OwnReturns DEF Abort

\* The others are not under way: only what their rows say of the file matters.
LEMMA OwnOutside ==
    ASSUME IInv, SavedOrOwn, NEW h \in Handles, file' = file,
           \A g \in Handles \ {h} : /\ pc'[g] = pc[g] /\ base'[g] = base[g]
                                    /\ mine'[g] = mine[g] /\ todo'[g] = todo[g],
           h \notin Replays => /\ pc'[h] = "ready" => mine'[h] = base'[h]
                               /\ pc'[h] = "locked" => OnlyItsOwn(h)'
    PROVE  SavedOrOwn'
<1>1. SUFFICES ASSUME NEW g \in Handles \ Replays
               PROVE  /\ pc'[g] = "ready" => mine'[g] = base'[g]
                      /\ pc'[g] = "locked" => OnlyItsOwn(g)'
  BY DEF SavedOrOwn
<1>2. CASE g = h
  BY <1>1, <1>2
<1>3. CASE g # h
  <2>1. /\ pc[g] = "ready" => mine[g] = base[g]
        /\ pc[g] = "locked" => OnlyItsOwn(g)
    BY <1>1 DEF SavedOrOwn
  <2>2. OnlyItsOwn(g) => OnlyItsOwn(g)'
    BY <1>1, <1>3 DEF OnlyItsOwn
  <2>3. QED
    BY <1>1, <1>3, <2>1, <2>2
<1>4. QED
  BY <1>2, <1>3

\* What a commit answers for is what the file then holds.
LEMMA CommitAnswers ==
    ASSUME "keep" \notin Ops, IInv, SavedOrOwn, FileHoldsWhatWasSet, NEW h \in Handles, Commit(h)
    PROVE  FileHoldsWhatWasSet'
<1>1. Fits(todo[h], h)
  BY TodoIs, Hypotheses
<1>2. h \notin Replays
  BY <1>1 DEF Fits, UnderWay, Commit, Ready
<1>3. todo[h].op \in {"impair", "clear", "partition", "heal", "spawned"} /\ pc[h] = "locked"
  BY <1>1 DEF Fits, UnderWay, Commit, Ready
<1>4. OnlyItsOwn(h)
  BY <1>2, <1>3 DEF SavedOrOwn
<1>5. mine[h] \in States /\ file \in States /\ file' = mine[h] /\ acked \in [Endpoints -> Tc]
  BY BaseSame, CommitKeeps, Hypotheses DEF Cells
<1>6. PICK v \in [Endpoints -> Tc] : v = View(mine[h])
  BY <1>5, ViewType
<1>7. PICK w \in [Endpoints -> Tc] : w = View(file)
  BY <1>5, ViewType
<1>8. \A e \in Endpoints :
        /\ v[e].imp = IF mine[h].live[e] = Absent THEN Declared[e] ELSE mine[h].live[e]
        /\ v[e].cut = (mine[h].cut[e] # Absent)
        /\ w[e].imp = IF file.live[e] = Absent THEN Declared[e] ELSE file.live[e]
        /\ w[e].cut = (file.cut[e] # Absent)
  BY <1>5, <1>6, <1>7, ViewType
<1>9. \A e \in Endpoints : w[e] = acked[e]
  BY <1>7 DEF FileHoldsWhatWasSet
<1>10. \A e \in Endpoints :
         /\ e \notin Range(todo[h].on) => acked'[e] = acked[e]
         /\ e \in Range(todo[h].on) =>
              /\ todo[h].op \in {"impair", "keep"} => acked'[e] = [imp |-> v[e].imp, cut |-> acked[e].cut]
              /\ todo[h].op \in {"partition", "heal"} => acked'[e] = [imp |-> acked[e].imp, cut |-> v[e].cut]
              /\ todo[h].op \notin {"impair", "keep", "partition", "heal"} => acked'[e] = v[e]
  <2>1. PICK o : o = todo[h]
    OBVIOUS
  <2>2. acked' = Answered(o, v)
    BY <1>6, <2>1 DEF Commit
  <2>3. \A e \in Endpoints :
         /\ e \notin Range(o.on) => acked'[e] = acked[e]
         /\ e \in Range(o.on) =>
              /\ o.op \in {"impair", "keep"} => acked'[e] = [imp |-> v[e].imp, cut |-> acked[e].cut]
              /\ o.op \in {"partition", "heal"} => acked'[e] = [imp |-> acked[e].imp, cut |-> v[e].cut]
              /\ o.op \notin {"impair", "keep", "partition", "heal"} => acked'[e] = v[e]
    BY <1>5, <2>2, AnsweredType
  <2>4. QED
    BY <2>1, <2>3
<1>11. ASSUME NEW a \in Tc, NEW b \in Tc, a.imp = b.imp, a.cut = b.cut
       PROVE  a = b
  BY <1>11 DEF Tc
<1>12. ASSUME NEW a \in Tc
       PROVE  a = [imp |-> a.imp, cut |-> a.cut]
  BY DEF Tc
<1>13. SUFFICES ASSUME NEW e \in Endpoints PROVE v[e] = acked'[e]
  BY <1>5, <1>6 DEF FileHoldsWhatWasSet
<1>14. v[e] \in Tc /\ w[e] \in Tc
  OBVIOUS
<1>15. CASE e \notin Range(todo[h].on)
  <2>1. acked'[e] = acked[e]
    BY <1>10, <1>15
  <2>2. v[e].imp = w[e].imp /\ v[e].cut = w[e].cut
    BY <1>4, <1>8, <1>15 DEF OnlyItsOwn
  <2>3. QED
    BY <1>9, <1>11, <1>14, <2>1, <2>2
<1>16. CASE e \in Range(todo[h].on)
  <2>1. CASE todo[h].op = "impair"
    <3>1. acked'[e] = [imp |-> v[e].imp, cut |-> acked[e].cut]
      BY <1>10, <1>16, <2>1
    <3>2. v[e].cut = w[e].cut
      BY <1>4, <1>8, <2>1 DEF OnlyItsOwn
    <3>3. QED
      BY <1>9, <1>12, <1>14, <3>1, <3>2
  <2>2. CASE todo[h].op \in {"partition", "heal"}
    <3>1. acked'[e] = [imp |-> acked[e].imp, cut |-> v[e].cut]
      BY <1>10, <1>16, <2>2
    <3>2. v[e].imp = w[e].imp
      BY <1>4, <1>8, <2>2 DEF OnlyItsOwn
    <3>3. QED
      BY <1>9, <1>12, <1>14, <3>1, <3>2
  <2>3. CASE todo[h].op \in {"clear", "spawned"}
    BY <1>10, <1>16, <2>3
  <2>4. QED
    BY <1>3, <2>1, <2>2, <2>3
<1>17. QED
  BY <1>15, <1>16

\* A committing handle that is idle has nothing unsaved, and one at work only
\* its operation's changes, as long as no engine keeps a refused change.
LEMMA SavedOrOwnKept ==
    ASSUME "keep" \notin Ops, IInv, SavedOrOwn, [Next]_vars,
           Faulty \subseteq Labs \cup Replays \/ mishaps' = 0
    PROVE  SavedOrOwn'
<1>0. ASSUME NEW h \in Handles, Mishap(h) PROVE h \in Labs \cup Replays
  <2>1. mishaps' # 0
    BY <1>0, MishapCounts, AtMostOneMore
  <2>2. QED
    BY <1>0, <2>1 DEF Mishap
<1>1. CASE UNCHANGED vars
  BY <1>1 DEF vars, handles, SavedOrOwn, OnlyItsOwn
<1>2. ASSUME NEW h \in Handles, Load(h) PROVE SavedOrOwn'
  <2>1. /\ mine'[h] = file /\ base'[h] = file
        /\ \A g \in Handles \ {h} : base'[g] = base[g] /\ mine'[g] = mine[g]
    BY <1>2, BaseSame, MemoryIs DEF Load
  <2>2. pc'[h] = "ready" /\ \A g \in Handles \ {h} : pc'[g] = pc[g]
    BY <1>2, Hypotheses DEF Load, Locks
  <2>3. QED
    BY <1>2, <2>1, <2>2, OwnOutside DEF Load
<1>3. ASSUME NEW h \in Handles, Begin(h) PROVE SavedOrOwn'
  <2>1. \A g \in Handles \ {h} : base'[g] = base[g] /\ mine'[g] = mine[g]
    BY <1>3, Hypotheses DEF Begin, Cells
  <2>2. pc'[h] = "locked" /\ \A g \in Handles \ {h} : pc'[g] = pc[g] /\ todo'[g] = todo[g]
    BY <1>3, Hypotheses DEF Begin, Locks, TodoOK
  <2>3. QED
    BY <1>3, <2>1, <2>2, OwnBegins, OwnOutside DEF Begin
<1>4. ASSUME NEW h \in Handles, AlreadyPartitioned(h) PROVE SavedOrOwn'
  <2>1. h \notin Replays => mine[h] = base[h]
    BY <1>4, Hypotheses DEF AlreadyPartitioned, SavedOrOwn, OnlyItsOwn, Refreshed
  <2>2. QED
    BY <1>4, <2>1, OwnReturns DEF AlreadyPartitioned
<1>5. ASSUME NEW h \in Handles, NotPartitioned(h) PROVE SavedOrOwn'
  <2>1. h \notin Replays => mine[h] = base[h]
    BY <1>5, Hypotheses DEF NotPartitioned, SavedOrOwn, OnlyItsOwn, Refreshed
  <2>2. QED
    BY <1>5, <2>1, BaseSame, OwnAborts DEF NotPartitioned
<1>6. ASSUME NEW h \in Handles, ChangeTc(h) PROVE SavedOrOwn'
  <2>1. \A g \in Handles \ {h} : base'[g] = base[g] /\ mine'[g] = mine[g] /\ pc'[g] = pc[g]
                                 /\ todo'[g] = todo[g]
    BY <1>6, Hypotheses DEF ChangeTc, Cells, TodoOK
  <2>2. pc'[h] = "locked" /\ file' = file
    BY <1>6 DEF ChangeTc, Changes
  <2>3. QED
    BY <1>6, <2>1, <2>2, OwnChanges, OwnOutside
<1>7. ASSUME NEW h \in Handles, ChangeFails(h) PROVE SavedOrOwn'
  BY <1>0, <1>7, BaseSame, OwnAborts DEF ChangeFails, Changes
<1>8. ASSUME NEW h \in Handles, Spawn(h) PROVE SavedOrOwn'
  <2>1. \A g \in Handles \ {h} : base'[g] = base[g] /\ mine'[g] = mine[g] /\ pc'[g] = pc[g]
                                 /\ todo'[g] = todo[g]
    BY <1>8, Hypotheses DEF Spawn, Cells, TodoOK
  <2>2. pc'[h] = "locked" /\ file' = file
    BY <1>8 DEF Spawn
  <2>3. QED
    BY <1>8, <2>1, <2>2, OwnSpawns, OwnOutside
<1>9. ASSUME NEW h \in Handles, SpawnFails(h) PROVE SavedOrOwn'
  <2>1. h \notin Replays => mine[h] = base[h]
    BY <1>9, Hypotheses DEF SpawnFails, SavedOrOwn, OnlyItsOwn, Refreshed
  <2>2. QED
    BY <1>9, <2>1, BaseSame, OwnAborts DEF SpawnFails
<1>10. ASSUME NEW h \in Handles, NEW p \in Pids, KillProcess(h, p) PROVE SavedOrOwn'
  BY <1>10 DEF KillProcess, handles, SavedOrOwn, OnlyItsOwn
<1>11. ASSUME NEW h \in Handles, Commit(h) PROVE SavedOrOwn'
  <2>1. mine'[h] = base'[h] /\ \A g \in Handles \ {h} : mine'[g] = mine[g] /\ base'[g] = base[g]
    BY <1>11, Hypotheses DEF Commit, Cells
  <2>2. QED
    BY <1>11, <2>1, OwnReturns DEF Commit, Ready
<1>12. ASSUME NEW h \in Handles, CommitFails(h) PROVE SavedOrOwn'
  BY <1>0, <1>12, BaseSame, OwnAborts DEF CommitFails, Ready
<1>13. ASSUME NEW h \in Handles, Ticked(h) PROVE SavedOrOwn'
  <2>1. h \in Replays
    BY <1>13, TodoIs, Hypotheses DEF Fits, Ticked
  <2>2. QED
    BY <1>13, <2>1, OwnReturns DEF Ticked
<1>14. ASSUME NEW h \in Handles, ReplayEnd(h) PROVE SavedOrOwn'
  <2>1. h \in Replays
    BY <1>14, TodoIs, Hypotheses DEF Fits, ReplayEnd
  <2>2. \A g \in Handles \ {h} : mine'[g] = mine[g] /\ base'[g] = base[g]
    BY <1>14, Hypotheses DEF ReplayEnd, Cells
  <2>3. QED
    BY <1>14, <2>1, <2>2, OwnReturns DEF ReplayEnd
<1>15. ASSUME NEW h \in Handles, ReplayEndFails(h) PROVE SavedOrOwn'
  <2>1. h \in Replays
    BY <1>15, TodoIs, Hypotheses DEF Fits, ReplayEndFails
  <2>2. PICK m \in States : m = Restored(mine[h], base[h], todo[h].on) /\ base[h].pids \subseteq m.pids
    BY PutBackType, BaseSame
  <2>3. QED
    BY <1>15, <2>1, <2>2, OwnAborts DEF ReplayEndFails
<1>16. ASSUME NEW h \in Handles, Exit(h) PROVE SavedOrOwn'
  BY <1>16, Forgotten, OwnOutside DEF Exit
<1>17. ASSUME NEW h \in Handles, Kill(h) PROVE SavedOrOwn'
  <2>1. \A g \in Handles \ {h} : todo'[g] = todo[g]
    BY <1>17, Hypotheses DEF Kill, TodoOK
  <2>2. QED
    BY <1>17, <2>1, Forgotten, OwnOutside DEF Kill
<1>18. QED
  BY <1>1, <1>2, <1>3, <1>4, <1>5, <1>6, <1>7, <1>8, <1>9, <1>10, <1>11, <1>12, <1>13, <1>14,
     <1>15, <1>16, <1>17 DEF Next

\* No update is lost and none comes back (FileHoldsWhatWasSet), where replays
\* end without keep and only Labs and replays meet refusals: save_merged and
\* refresh keep every endpoint at what the last acknowledged change set.
THEOREM RuntimeFileHolds ==
    ASSUME "keep" \notin Ops, Faulty \subseteq Labs \cup Replays
    PROVE  Spec => []FileHoldsWhatWasSet
<1>1. Init => SavedOrOwn /\ FileHoldsWhatWasSet
  BY DEF Init, SavedOrOwn, FileHoldsWhatWasSet
<1>2. IInv /\ SavedOrOwn /\ FileHoldsWhatWasSet /\ [Next]_vars => SavedOrOwn' /\ FileHoldsWhatWasSet'
  <2>1. SUFFICES ASSUME IInv, SavedOrOwn, FileHoldsWhatWasSet, [Next]_vars PROVE FileHoldsWhatWasSet'
    BY SavedOrOwnKept
  <2>2. CASE \E h \in Handles : Commit(h)
    BY <2>1, <2>2, CommitAnswers
  <2>3. CASE ~\E h \in Handles : Commit(h)
    <3>1. UNCHANGED <<file, acked>>
      BY <2>1, <2>3 DEF Next, vars, Load, Begin, AlreadyPartitioned, NotPartitioned, ChangeTc,
         ChangeFails, Spawn, SpawnFails, KillProcess, CommitFails, Ticked, ReplayEnd,
         ReplayEndFails, Exit, Kill
    <3>2. QED
      BY <2>1, <3>1 DEF FileHoldsWhatWasSet
  <2>4. QED
    BY <2>2, <2>3
<1>3. QED
  BY <1>1, <1>2, RuntimeInvariant, PTL DEF Spec

-----------------------------------------------------------------------------
\* What the kernel has

\* The current state is a state.
LEMMA CurrentState ==
    ASSUME IInv
    PROVE  Current \in States /\ View(Current) \in [Endpoints -> Tc]
<1>1. Current \in States
  BY Hypotheses DEF Current, Cells
<1>2. QED
  BY <1>1, ViewType

\* What a merge shows of an endpoint: the handle's own change, or the file.
LEMMA SeesView ==
    ASSUME NEW c \in States, NEW b \in States, NEW m \in States, NEW e \in Endpoints
    PROVE  /\ View(Merge(c, b, m))[e].imp = IF m.live[e] # b.live[e] THEN View(m)[e].imp ELSE View(c)[e].imp
           /\ View(Merge(c, b, m))[e].cut = IF m.cut[e] # b.cut[e] THEN View(m)[e].cut ELSE View(c)[e].cut
<1>1. Merge(c, b, m) \in States
  BY MergeType
<1>2. /\ c.live \in Maps /\ c.cut \in Maps
      /\ Merge(c, b, m).live = MergeMap(c.live, b.live, m.live)
      /\ Merge(c, b, m).cut = MergeMap(c.cut, b.cut, m.cut)
  BY StateFields, MergeType
<1>3. /\ Merge(c, b, m).live[e] = IF m.live[e] # b.live[e] THEN m.live[e] ELSE c.live[e]
      /\ Merge(c, b, m).cut[e] = IF m.cut[e] # b.cut[e] THEN m.cut[e] ELSE c.cut[e]
  BY <1>2 DEF MergeMap, Maps
<1>4. QED
  BY <1>1, <1>3, ViewType

\* Whether a replay that plays e shows an impairment, a partition there.
ReplayImp(e) == \E g \in Replays : Plays(g, e) /\ View(Sees(g))[e].imp # Clean
ReplayCut(e) == \E g \in Replays : Plays(g, e) /\ View(Sees(g))[e].cut

\* What KernelFollows says of one endpoint.
LEMMA FollowsIs ==
    ASSUME KernelFollows, NEW e \in Endpoints
    PROVE  /\ kernel[e].imp = View(Current)[e].imp \/ ReplayImp(e)
           /\ View(Current)[e].cut => kernel[e].cut
           /\ kernel[e].cut => View(Current)[e].cut \/ ReplayCut(e)
BY DEF KernelFollows, ReplayImp, ReplayCut

\* And how it is shown of the next state.
LEMMA FollowsNext ==
    ASSUME \A e \in Endpoints :
             /\ kernel'[e].imp = View(Current)'[e].imp \/ ReplayImp(e)'
             /\ View(Current)'[e].cut => kernel'[e].cut
             /\ kernel'[e].cut => View(Current)'[e].cut \/ ReplayCut(e)'
    PROVE  KernelFollows'
BY DEF KernelFollows, ReplayImp, ReplayCut

SameRow(g) ==
    /\ base'[g] = base[g] /\ mine'[g] = mine[g] /\ playing'[g] = playing[g]
    /\ todo'[g] = todo[g] /\ pc'[g] = pc[g]

\* A replay whose memory stays sees the same where the current state does.
LEMMA SameSees ==
    ASSUME IInv, IInv', NEW g \in Handles, base'[g] = base[g], mine'[g] = mine[g], NEW e \in Endpoints,
           View(Current)'[e] = View(Current)[e]
    PROVE  /\ View(Sees(g))'[e].imp = View(Sees(g))[e].imp
           /\ View(Sees(g))'[e].cut = View(Sees(g))[e].cut
<1>1. PICK c \in States, b \in States, m \in States : c = Current /\ b = base[g] /\ m = mine[g]
  BY CurrentState, BaseSame
<1>2. PICK d \in States : d = Current'
  <2>1. Cells'
    BY TypeIs DEF IInv
  <2>2. QED
    BY <2>1 DEF Cells, Current
<1>3. View(c)[e] = View(d)[e]
  BY <1>1, <1>2
<1>4. /\ View(Merge(d, b, m))[e].imp = View(Merge(c, b, m))[e].imp
      /\ View(Merge(d, b, m))[e].cut = View(Merge(c, b, m))[e].cut
  <2>1. /\ View(Merge(c, b, m))[e].imp = IF m.live[e] # b.live[e] THEN View(m)[e].imp ELSE View(c)[e].imp
        /\ View(Merge(c, b, m))[e].cut = IF m.cut[e] # b.cut[e] THEN View(m)[e].cut ELSE View(c)[e].cut
    BY SeesView
  <2>2. /\ View(Merge(d, b, m))[e].imp = IF m.live[e] # b.live[e] THEN View(m)[e].imp ELSE View(d)[e].imp
        /\ View(Merge(d, b, m))[e].cut = IF m.cut[e] # b.cut[e] THEN View(m)[e].cut ELSE View(d)[e].cut
    BY SeesView
  <2>3. QED
    BY <1>3, <2>1, <2>2
<1>5. View(Sees(g)) = View(Merge(c, b, m)) /\ View(Sees(g))' = View(Merge(d, b, m))
  BY <1>1, <1>2 DEF Sees
<1>6. QED
  BY <1>4, <1>5

\* Nothing that counts changes, but that a replay h may play more.
LEMMA SameFollows ==
    ASSUME IInv, IInv', KernelFollows, kernel' = kernel, View(Current)' = View(Current),
           NEW h \in Handles, \A g \in Handles \ {h} : SameRow(g),
           h \in Replays => \A e \in Endpoints :
                Plays(h, e) => Plays(h, e)' /\ View(Sees(h))'[e] = View(Sees(h))[e]
    PROVE  KernelFollows'
<1>1. ASSUME NEW e \in Endpoints PROVE (ReplayImp(e) => ReplayImp(e)') /\ (ReplayCut(e) => ReplayCut(e)')
  <2>1. ASSUME NEW g \in Replays, Plays(g, e)
        PROVE  /\ Plays(g, e)' /\ View(Sees(g))'[e].imp = View(Sees(g))[e].imp
               /\ View(Sees(g))'[e].cut = View(Sees(g))[e].cut
    <3>1. CASE g = h
      BY <1>1, <2>1, <3>1
    <3>2. CASE g # h
      <4>1. g \in Handles /\ SameRow(g)
        BY <3>2, RuntimeConstants
      <4>2. Plays(g, e)'
        BY <2>1, <4>1 DEF SameRow, Plays
      <4>3. QED
        BY <1>1, <4>1, <4>2, SameSees DEF SameRow
    <3>3. QED
      BY <3>1, <3>2
  <2>2. QED
    BY <2>1 DEF ReplayImp, ReplayCut
<1>2. QED
  BY <1>1, FollowsIs, FollowsNext

\* What a replay set survives the change of a committing handle.
LEMMA Survives ==
    ASSUME IInv, IInv', \A g \in Replays : SameRow(g), NEW e \in Endpoints
    PROVE  /\ ReplayImp(e) /\ View(Current)[e].imp = Clean => ReplayImp(e)'
           /\ ReplayCut(e) /\ ~View(Current)[e].cut => ReplayCut(e)'
           /\ View(Current)'[e] = View(Current)[e] =>
                /\ ReplayImp(e) => ReplayImp(e)'
                /\ ReplayCut(e) => ReplayCut(e)'
<1>1. ASSUME NEW g \in Replays, Plays(g, e)
      PROVE  /\ Plays(g, e)'
             /\ View(Current)[e].imp = Clean /\ View(Sees(g))[e].imp # Clean => View(Sees(g))'[e].imp # Clean
             /\ ~View(Current)[e].cut /\ View(Sees(g))[e].cut => View(Sees(g))'[e].cut
             /\ View(Current)'[e] = View(Current)[e] =>
                  /\ View(Sees(g))'[e].imp = View(Sees(g))[e].imp
                  /\ View(Sees(g))'[e].cut = View(Sees(g))[e].cut
  <2>1. g \in Handles /\ SameRow(g)
    BY RuntimeConstants
  <2>2. PICK c \in States, b \in States, m \in States : c = Current /\ b = base[g] /\ m = mine[g]
    BY <2>1, CurrentState, BaseSame
  <2>3. PICK d \in States : d = Current'
    <3>1. Cells'
      BY TypeIs DEF IInv
    <3>2. QED
      BY <3>1 DEF Cells, Current
  <2>4. /\ View(Merge(c, b, m))[e].imp = IF m.live[e] # b.live[e] THEN View(m)[e].imp ELSE View(c)[e].imp
        /\ View(Merge(c, b, m))[e].cut = IF m.cut[e] # b.cut[e] THEN View(m)[e].cut ELSE View(c)[e].cut
    BY SeesView
  <2>5. /\ View(Merge(d, b, m))[e].imp = IF m.live[e] # b.live[e] THEN View(m)[e].imp ELSE View(d)[e].imp
        /\ View(Merge(d, b, m))[e].cut = IF m.cut[e] # b.cut[e] THEN View(m)[e].cut ELSE View(d)[e].cut
    BY SeesView
  <2>6. /\ View(Sees(g)) = View(Merge(c, b, m)) /\ View(Sees(g))' = View(Merge(d, b, m))
        /\ View(Current) = View(c) /\ View(Current)' = View(d)
    BY <2>1, <2>2, <2>3 DEF Sees, SameRow
  <2>7. Plays(g, e)'
    BY <1>1, <2>1 DEF SameRow, Plays
  <2>8. QED
    BY <2>4, <2>5, <2>6, <2>7
<1>2. QED
  BY <1>1 DEF ReplayImp, ReplayCut

\* A change of a committing handle.
LEMMA ChangeFollows ==
    ASSUME IInv, IInv', KernelFollows, NEW h \in Handles \ Replays, ChangeTc(h)
    PROVE  KernelFollows'
<1>1. PICK e \in Endpoints : e = Head(todo[h].left)
  BY ChangesAt DEF ChangeTc
<1>2. PICK m \in States : m = Edited(mine[h], todo[h], e)
  BY <1>1, ChangedKernel DEF ChangeTc
<1>3. PICK c \in States : c = mine[h]
  BY BaseSame
<1>4. mine'[h] = m /\ holder = h /\ holder' = h
  BY <1>1, <1>2, OneHolder, Hypotheses DEF ChangeTc, Changes, Cells
<1>5. Current = c /\ Current' = m
  BY <1>3, <1>4 DEF Current
<1>6. \A g \in Replays : SameRow(g)
  <2>1. ASSUME NEW g \in Replays PROVE g \in Handles /\ g # h
    BY RuntimeConstants
  <2>2. QED
    BY <2>1, Hypotheses DEF ChangeTc, SameRow, TodoOK, Cells
<1>7. PICK x \in [Endpoints -> Tc], y \in [Endpoints -> Tc] : x = View(c) /\ y = View(m)
  BY ViewType
<1>8. PICK k \in [Endpoints -> Tc], b \in [Endpoints -> Tc] :
         k = kernel /\ b = KernelBefore(todo[h], e)
  BY KernelBeforeType, Hypotheses DEF Cells
<1>9. kernel' = Reconciled(b, {NodeOf[e]}, x, y)
  BY <1>1, <1>2, <1>3, <1>7, <1>8 DEF ChangeTc
<1>10. \A d \in Endpoints :
         /\ NodeOf[d] \notin {NodeOf[e]} => kernel'[d] = b[d]
         /\ NodeOf[d] \in {NodeOf[e]} =>
              /\ kernel'[d].imp = IF y[d].imp # Clean THEN y[d].imp ELSE IF x[d].imp # Clean THEN Clean ELSE b[d].imp
              /\ kernel'[d].cut = (y[d].cut \/ (b[d].cut /\ ~x[d].cut))
  BY <1>9, ReconciledType
<1>11. PICK o \in {todo[h]} : o = todo[h]
  OBVIOUS
<1>12. /\ \A d \in Endpoints \ {e} : b[d] = k[d]
       /\ b[e].cut = k[e].cut /\ b[e].imp = IF o.op = "clear" THEN Clean ELSE k[e].imp
  BY <1>8, <1>11, KernelBeforeType, Hypotheses DEF Cells
<1>13. \A d \in Endpoints \ {e} : y[d].imp = x[d].imp /\ y[d].cut = x[d].cut
  <2>1. \A d \in Endpoints \ {e} : m.live[d] = c.live[d] /\ m.cut[d] = c.cut[d]
    <3>1. o.op \in EditOps /\ o.val \in Values \cup {Clean} /\ m = Edited(c, o, e)
      BY <1>2, <1>3, <1>11, ChangesAt DEF ChangeTc
    <3>2. QED
      BY <3>1, EditedType
  <2>2. QED
    BY <1>7, <2>1, ViewType
<1>14. SUFFICES ASSUME NEW d \in Endpoints
                PROVE  /\ kernel'[d].imp = y[d].imp \/ ReplayImp(d)'
                       /\ y[d].cut => kernel'[d].cut
                       /\ kernel'[d].cut => y[d].cut \/ ReplayCut(d)'
  BY <1>5, <1>7, FollowsNext
<1>15. /\ k[d].imp = x[d].imp \/ ReplayImp(d)
       /\ x[d].cut => k[d].cut
       /\ k[d].cut => x[d].cut \/ ReplayCut(d)
  BY <1>5, <1>7, <1>8, FollowsIs
<1>16. /\ ReplayImp(d) /\ x[d].imp = Clean => ReplayImp(d)'
       /\ ReplayCut(d) /\ ~x[d].cut => ReplayCut(d)'
       /\ y[d] = x[d] => /\ ReplayImp(d) => ReplayImp(d)'
                         /\ ReplayCut(d) => ReplayCut(d)'
  BY <1>5, <1>6, <1>7, Survives
<1>17. CASE NodeOf[d] \notin {NodeOf[e]}
  <2>1. d # e
    BY <1>17
  <2>2. y[d] = x[d]
    <3>1. x[d] \in Tc /\ y[d] \in Tc
      OBVIOUS
    <3>2. QED
      BY <1>13, <2>1, <3>1 DEF Tc
  <2>3. kernel'[d] = k[d]
    BY <1>10, <1>12, <1>17, <2>1
  <2>4. QED
    BY <1>15, <1>16, <2>2, <2>3
<1>18. CASE NodeOf[d] \in {NodeOf[e]}
  <2>1. /\ kernel'[d].imp = IF y[d].imp # Clean THEN y[d].imp ELSE IF x[d].imp # Clean THEN Clean ELSE b[d].imp
        /\ kernel'[d].cut = (y[d].cut \/ (k[d].cut /\ ~x[d].cut))
        /\ b[d].imp = k[d].imp \/ b[d].imp = Clean
    BY <1>10, <1>12, <1>18
  <2>2. kernel'[d].imp = y[d].imp \/ ReplayImp(d)'
    BY <1>15, <1>16, <2>1
  <2>3. (y[d].cut => kernel'[d].cut) /\ (kernel'[d].cut => y[d].cut \/ ReplayCut(d)')
    BY <1>15, <1>16, <2>1
  <2>4. QED
    BY <2>2, <2>3
<1>19. QED
  BY <1>17, <1>18

\* What the other replays set stays when h, a replay, works.
OthersImp(h, e) == \E g \in Replays \ {h} : Plays(g, e) /\ View(Sees(g))[e].imp # Clean
OthersCut(h, e) == \E g \in Replays \ {h} : Plays(g, e) /\ View(Sees(g))[e].cut

\* What replays show, split into h and the others; the others' part stays.
LEMMA OthersStay ==
    ASSUME IInv, IInv', NEW h \in Replays, \A g \in Handles \ {h} : SameRow(g),
           NEW e \in Endpoints, View(Current)' = View(Current)
    PROVE  /\ ReplayImp(e) => OthersImp(h, e) \/ (Plays(h, e) /\ View(Sees(h))[e].imp # Clean)
           /\ ReplayCut(e) => OthersCut(h, e) \/ (Plays(h, e) /\ View(Sees(h))[e].cut)
           /\ OthersImp(h, e) \/ (Plays(h, e)' /\ View(Sees(h))'[e].imp # Clean) => ReplayImp(e)'
           /\ OthersCut(h, e) \/ (Plays(h, e)' /\ View(Sees(h))'[e].cut) => ReplayCut(e)'
<1>1. ASSUME NEW g \in Replays \ {h}, Plays(g, e)
      PROVE  /\ Plays(g, e)' /\ View(Sees(g))'[e].imp = View(Sees(g))[e].imp
             /\ View(Sees(g))'[e].cut = View(Sees(g))[e].cut
  <2>1. g \in Handles /\ SameRow(g)
    BY RuntimeConstants
  <2>2. Plays(g, e)'
    BY <1>1, <2>1 DEF SameRow, Plays
  <2>3. QED
    BY <2>1, <2>2, SameSees DEF SameRow
<1>2. QED
  BY <1>1 DEF ReplayImp, ReplayCut, OthersImp, OthersCut

\* A replay that has the lock sees what it has.
LEMMA ReplaySees ==
    ASSUME IInv, NEW h \in Replays, pc[h] = "locked"
    PROVE  Current = file /\ Sees(h) = mine[h] /\ holder = h
<1>1. h \in Handles
  BY RuntimeConstants
<1>2. holder = h /\ base[h] = file
  BY <1>1, OneHolder, Hypotheses DEF Refreshed
<1>3. Current = file
  BY <1>2 DEF Current
<1>4. QED
  BY <1>1, <1>2, <1>3, BaseSame, MergeType DEF Sees

\* Where it does not play, it has what the file has.
LEMMA NotPlayed ==
    ASSUME IInv, OnlyPlayed, NEW h \in Replays, pc[h] = "locked", NEW e \in Endpoints, ~Plays(h, e)
    PROVE  View(mine[h])[e].imp = View(file)[e].imp /\ View(mine[h])[e].cut = View(file)[e].cut
<1>1. h \in Handles
  BY RuntimeConstants
<1>2. mine[h].live[e] = file.live[e] /\ mine[h].cut[e] = file.cut[e]
  BY <1>1, Hypotheses DEF OnlyPlayed, Refreshed
<1>3. QED
  BY <1>1, <1>2, BaseSame, ViewType

\* A tick.
LEMMA TickFollows ==
    ASSUME IInv, IInv', KernelFollows, OnlyPlayed, NEW h \in Replays, ChangeTc(h)
    PROVE  KernelFollows'
<1>0. h \in Handles /\ pc[h] = "locked" /\ pc'[h] = "locked" /\ file' = file
  BY RuntimeConstants DEF ChangeTc, Changes
<1>1. PICK e \in Endpoints : e = Head(todo[h].left) /\ e \in Range(todo[h].on)
  BY <1>0, ChangesAt DEF ChangeTc
<1>2. PICK m \in States : m = Edited(mine[h], todo[h], e)
  BY <1>0, <1>1, ChangedKernel DEF ChangeTc
<1>3. PICK c \in States, f \in States : c = mine[h] /\ f = file
  BY <1>0, BaseSame
<1>4. mine'[h] = m /\ \A g \in Handles \ {h} : SameRow(g)
  BY <1>0, <1>1, <1>2, Hypotheses DEF ChangeTc, SameRow, TodoOK, Cells
<1>5. Current = f /\ Current' = f /\ Sees(h) = c
  BY <1>0, <1>3, ReplaySees DEF Current, ChangeTc
<1>6. Sees(h)' = m
  <2>1. Refreshed' /\ Cells'
    BY TypeIs DEF IInv
  <2>2. base'[h] = f
    BY <1>0, <1>3, <2>1 DEF Refreshed
  <2>3. QED
    BY <1>4, <1>5, <2>2, MergeType DEF Sees
<1>7. PICK x \in [Endpoints -> Tc], y \in [Endpoints -> Tc], z \in [Endpoints -> Tc] :
         x = View(c) /\ y = View(m) /\ z = View(f)
  BY ViewType
<1>8. PICK k \in [Endpoints -> Tc], o \in {todo[h]} : k = kernel /\ o = todo[h]
  BY Hypotheses DEF Cells
<1>9. /\ o.op = "tick" /\ o.val \in Values /\ o.val # Clean /\ o.val # Absent
      /\ o.val \in Values \cup {Clean} /\ o.op \in EditOps
  <2>1. Fits(o, h) /\ o.op \in EditOps
    BY <1>0, <1>8, TodoIs, Hypotheses, ChangesAt DEF ChangeTc
  <2>2. o.op = "tick"
    BY <2>1 DEF Fits, EditOps
  <2>3. QED
    BY <2>1, <2>2, RuntimeConstants DEF Fits, Impairments
<1>10. kernel' = Reconciled(k, {NodeOf[e]}, x, y)
  <2>1. KernelBefore(o, e) = k
    BY <1>8, <1>9 DEF KernelBefore
  <2>2. QED
    BY <1>1, <1>2, <1>3, <1>7, <1>8, <2>1 DEF ChangeTc
<1>11. \A d \in Endpoints :
         /\ NodeOf[d] \notin {NodeOf[e]} => kernel'[d] = k[d]
         /\ NodeOf[d] \in {NodeOf[e]} =>
              /\ kernel'[d].imp = IF y[d].imp # Clean THEN y[d].imp ELSE IF x[d].imp # Clean THEN Clean ELSE k[d].imp
              /\ kernel'[d].cut = (y[d].cut \/ (k[d].cut /\ ~x[d].cut))
  BY <1>10, ReconciledType
<1>12. /\ \A d \in Endpoints \ {e} : y[d].imp = x[d].imp /\ y[d].cut = x[d].cut
       /\ y[e].imp # Clean /\ y[e].cut = x[e].cut
  <2>1. m = Edited(c, o, e)
    BY <1>2, <1>3, <1>8
  <2>2. /\ \A d \in Endpoints \ {e} : m.live[d] = c.live[d] /\ m.cut[d] = c.cut[d]
        /\ m.live[e] = o.val /\ m.cut[e] = IF c.cut[e] = Absent THEN Absent ELSE o.val
    BY <1>9, <2>1, EditedType
  <2>3. QED
    <3>1. \A d \in Endpoints :
            /\ x[d].imp = (IF c.live[d] = Absent THEN Declared[d] ELSE c.live[d])
            /\ x[d].cut = (c.cut[d] # Absent)
            /\ y[d].imp = (IF m.live[d] = Absent THEN Declared[d] ELSE m.live[d])
            /\ y[d].cut = (m.cut[d] # Absent)
      BY <1>7, ViewType
    <3>2. y[e].imp # Clean
      BY <1>9, <2>2, <3>1
    <3>3. y[e].cut = x[e].cut
      BY <1>9, <2>2, <3>1
    <3>4. \A d \in Endpoints \ {e} : y[d].imp = x[d].imp /\ y[d].cut = x[d].cut
      BY <2>2, <3>1
    <3>5. QED
      BY <3>2, <3>3, <3>4
<1>13. \A d \in Endpoints : ~Plays(h, d) => /\ d # e
                                            /\ y[d].imp = z[d].imp /\ y[d].cut = z[d].cut
  <2>1. Plays(h, e)
    BY <1>1, <1>8, <1>9 DEF Plays
  <2>2. QED
    BY <1>0, <1>3, <1>7, <1>12, <2>1, NotPlayed
<1>14. \A d \in Endpoints : Plays(h, d)' <=> Plays(h, d)
  <2>1. PICK t : t = Tail(todo[h].left)
    OBVIOUS
  <2>2. todo'[h] = [todo[h] EXCEPT !.left = t] /\ todo[h] \in UnderWay
    BY <1>0, <2>1, Hypotheses DEF TodoOK, ChangeTc
  <2>3. todo'[h].op = todo[h].op /\ todo'[h].on = todo[h].on
    BY <2>2 DEF UnderWay
  <2>4. QED
    BY <2>3 DEF Plays, ChangeTc
<1>15. SUFFICES ASSUME NEW d \in Endpoints
                PROVE  /\ kernel'[d].imp = z[d].imp \/ ReplayImp(d)'
                       /\ z[d].cut => kernel'[d].cut
                       /\ kernel'[d].cut => z[d].cut \/ ReplayCut(d)'
  BY <1>5, <1>7, FollowsNext
<1>16. /\ k[d].imp = z[d].imp \/ OthersImp(h, d) \/ (Plays(h, d) /\ x[d].imp # Clean)
       /\ z[d].cut => k[d].cut
       /\ k[d].cut => z[d].cut \/ OthersCut(h, d) \/ (Plays(h, d) /\ x[d].cut)
  BY <1>4, <1>5, <1>7, <1>8, FollowsIs, OthersStay
<1>17. /\ OthersImp(h, d) \/ (Plays(h, d) /\ y[d].imp # Clean) => ReplayImp(d)'
       /\ OthersCut(h, d) \/ (Plays(h, d) /\ y[d].cut) => ReplayCut(d)'
  BY <1>4, <1>5, <1>6, <1>7, <1>14, OthersStay
<1>18. CASE NodeOf[d] \notin {NodeOf[e]}
  BY <1>11, <1>12, <1>16, <1>17, <1>18
<1>19. CASE NodeOf[d] \in {NodeOf[e]}
  <2>1. /\ kernel'[d].imp = IF y[d].imp # Clean THEN y[d].imp ELSE IF x[d].imp # Clean THEN Clean ELSE k[d].imp
        /\ kernel'[d].cut = (y[d].cut \/ (k[d].cut /\ ~x[d].cut))
    BY <1>11, <1>19
  <2>2. y[d].cut = x[d].cut /\ (y[d].imp = x[d].imp \/ y[d].imp # Clean)
    BY <1>12
  <2>3. kernel'[d].imp = z[d].imp \/ ReplayImp(d)'
    BY <1>13, <1>16, <1>17, <2>1, <2>2
  <2>4. (z[d].cut => kernel'[d].cut) /\ (kernel'[d].cut => z[d].cut \/ ReplayCut(d)')
    BY <1>13, <1>16, <1>17, <2>1, <2>2
  <2>5. QED
    BY <2>3, <2>4
<1>20. QED
  BY <1>18, <1>19

\* The end of a replay.
LEMMA EndFollows ==
    ASSUME IInv, IInv', KernelFollows, OnlyPlayed, NEW h \in Replays, ReplayEnd(h)
    PROVE  KernelFollows'
<1>0. h \in Handles /\ pc[h] = "locked" /\ file' = file /\ holder' = Nobody /\ todo[h].op = "end"
  BY RuntimeConstants DEF ReplayEnd, Return
<1>1. PICK on \in {todo[h].on}, N \in {{NodeOf[e] : e \in Range(todo[h].on)}} :
         on = todo[h].on /\ N = {NodeOf[e] : e \in Range(on)}
  OBVIOUS
<1>2. PICK c \in States, f \in States : c = mine[h] /\ f = file /\ base[h] = f
  BY <1>0, BaseSame, Hypotheses DEF Refreshed
<1>3. PICK m \in States : m = Restored(c, f, on)
  BY RestoredType
<1>4. mine'[h] = m /\ \A g \in Handles \ {h} : SameRow(g)
  BY <1>0, <1>1, <1>2, <1>3, Hypotheses DEF ReplayEnd, Return, SameRow, TodoOK, Cells, Locks
<1>5. Current = f /\ Current' = f /\ Sees(h) = c
  BY <1>0, <1>2, ReplaySees, RuntimeConstants DEF Current
<1>6. Sees(h)' = m
  <2>1. base'[h] = f
    BY <1>2 DEF ReplayEnd
  <2>2. QED
    BY <1>4, <1>5, <2>1, MergeType DEF Sees
<1>7. PICK x \in [Endpoints -> Tc], y \in [Endpoints -> Tc], z \in [Endpoints -> Tc] :
         x = View(c) /\ y = View(m) /\ z = View(f)
  BY ViewType
<1>8. PICK k \in [Endpoints -> Tc] : k = kernel
  BY Hypotheses DEF Cells
<1>9. kernel' = Reconciled(k, N, x, y)
  BY <1>1, <1>2, <1>3, <1>7, <1>8 DEF ReplayEnd, PutBack
<1>10. \A d \in Endpoints :
         /\ NodeOf[d] \notin N => kernel'[d] = k[d]
         /\ NodeOf[d] \in N =>
              /\ kernel'[d].imp = IF y[d].imp # Clean THEN y[d].imp ELSE IF x[d].imp # Clean THEN Clean ELSE k[d].imp
              /\ kernel'[d].cut = (y[d].cut \/ (k[d].cut /\ ~x[d].cut))
  BY <1>9, ReconciledType
<1>11. \A d \in Endpoints :
         /\ d \in Range(on) => y[d].imp = z[d].imp /\ y[d].cut = z[d].cut
         /\ d \notin Range(on) => y[d].imp = x[d].imp /\ y[d].cut = x[d].cut
  <2>1. \A d \in Endpoints :
          /\ m.live[d] = IF d \in Range(on) THEN f.live[d] ELSE c.live[d]
          /\ m.cut[d] = IF d \in Range(on) THEN f.cut[d] ELSE c.cut[d]
    BY <1>3 DEF Restored
  <2>2. \A d \in Endpoints :
          /\ x[d].imp = (IF c.live[d] = Absent THEN Declared[d] ELSE c.live[d])
          /\ x[d].cut = (c.cut[d] # Absent)
          /\ y[d].imp = (IF m.live[d] = Absent THEN Declared[d] ELSE m.live[d])
          /\ y[d].cut = (m.cut[d] # Absent)
          /\ z[d].imp = (IF f.live[d] = Absent THEN Declared[d] ELSE f.live[d])
          /\ z[d].cut = (f.cut[d] # Absent)
    BY <1>7, ViewType
  <2>3. QED
    BY <2>1, <2>2
<1>12. \A d \in Endpoints : ~Plays(h, d) => x[d].imp = z[d].imp /\ x[d].cut = z[d].cut
  BY <1>0, <1>2, <1>7, NotPlayed
<1>13. \A d \in Endpoints : d \notin Range(on) /\ Plays(h, d) => Plays(h, d)'
  <2>1. playing'[h] = playing[h] \ {on}
    BY <1>0, <1>1, Hypotheses DEF ReplayEnd, Cells
  <2>2. QED
    BY <1>0, <2>1 DEF Plays
<1>14. SUFFICES ASSUME NEW d \in Endpoints
                PROVE  /\ kernel'[d].imp = z[d].imp \/ ReplayImp(d)'
                       /\ z[d].cut => kernel'[d].cut
                       /\ kernel'[d].cut => z[d].cut \/ ReplayCut(d)'
  BY <1>5, <1>7, FollowsNext
<1>15. /\ k[d].imp = z[d].imp \/ OthersImp(h, d) \/ (Plays(h, d) /\ x[d].imp # Clean)
       /\ z[d].cut => k[d].cut
       /\ k[d].cut => z[d].cut \/ OthersCut(h, d) \/ (Plays(h, d) /\ x[d].cut)
  BY <1>4, <1>5, <1>7, <1>8, FollowsIs, OthersStay
<1>16. /\ OthersImp(h, d) \/ (Plays(h, d)' /\ y[d].imp # Clean) => ReplayImp(d)'
       /\ OthersCut(h, d) \/ (Plays(h, d)' /\ y[d].cut) => ReplayCut(d)'
  BY <1>4, <1>5, <1>6, <1>7, OthersStay
<1>17. CASE NodeOf[d] \notin N
  <2>1. d \notin Range(on)
    BY <1>1, <1>17
  <2>2. QED
    BY <1>10, <1>11, <1>13, <1>15, <1>16, <1>17, <2>1
<1>18. CASE NodeOf[d] \in N
  <2>1. /\ kernel'[d].imp = IF y[d].imp # Clean THEN y[d].imp ELSE IF x[d].imp # Clean THEN Clean ELSE k[d].imp
        /\ kernel'[d].cut = (y[d].cut \/ (k[d].cut /\ ~x[d].cut))
    BY <1>10, <1>18
  <2>2. CASE d \in Range(on)
    <3>1. y[d].imp = z[d].imp /\ y[d].cut = z[d].cut
      BY <1>11, <2>2
    <3>2. kernel'[d].imp = z[d].imp \/ ReplayImp(d)'
      BY <1>15, <1>16, <2>1, <3>1
    <3>3. (z[d].cut => kernel'[d].cut) /\ (kernel'[d].cut => z[d].cut \/ ReplayCut(d)')
      BY <1>15, <1>16, <2>1, <3>1
    <3>4. QED
      BY <3>2, <3>3
  <2>3. CASE d \notin Range(on)
    <3>1. y[d].imp = x[d].imp /\ y[d].cut = x[d].cut
      BY <1>11, <2>3
    <3>2. /\ Plays(h, d) => Plays(h, d)'
          /\ ~Plays(h, d) => x[d].imp = z[d].imp /\ x[d].cut = z[d].cut
      BY <1>12, <1>13, <2>3
    <3>3. kernel'[d].imp = z[d].imp \/ ReplayImp(d)'
      BY <1>15, <1>16, <2>1, <3>1, <3>2
    <3>4. (z[d].cut => kernel'[d].cut) /\ (kernel'[d].cut => z[d].cut \/ ReplayCut(d)')
      BY <1>15, <1>16, <2>1, <3>1, <3>2
    <3>5. QED
      BY <3>3, <3>4
  <2>4. QED
    BY <2>2, <2>3
<1>19. QED
  BY <1>17, <1>18

\* The steps of one handle, those that a mishap takes aside.
Acts(h) ==
    \/ Load(h) \/ Begin(h) \/ AlreadyPartitioned(h) \/ NotPartitioned(h)
    \/ ChangeTc(h) \/ Spawn(h) \/ SpawnFails(h)
    \/ \E p \in Pids : KillProcess(h, p)
    \/ Commit(h) \/ Ticked(h) \/ ReplayEnd(h) \/ Exit(h)

\* A step without a mishap is one of Acts.
LEMMA NoMishap ==
    ASSUME IInv, Next, mishaps' = 0
    PROVE  mishaps = 0 /\ \E h \in Handles : Acts(h)
<1>1. mishaps \in Nat
  BY AtMostOneMore
<1>2. \A h \in Handles : ~Mishap(h) /\ ~Kill(h)
  BY <1>1 DEF Mishap, Kill
<1>3. \A h \in Handles : ~ChangeFails(h) /\ ~CommitFails(h) /\ ~ReplayEndFails(h)
  BY <1>2 DEF ChangeFails, CommitFails, ReplayEndFails
<1>4. PICK h \in Handles : Acts(h)
  BY <1>2, <1>3 DEF Next, Acts
<1>5. mishaps' = mishaps
  BY <1>4 DEF Acts, Load, Begin, AlreadyPartitioned, NotPartitioned, ChangeTc, Spawn, SpawnFails,
     KillProcess, Commit, Ticked, ReplayEnd, Exit
<1>6. QED
  BY <1>4, <1>5

\* A handle's step leaves the other handles' memory alone.
LEMMA OthersSame ==
    ASSUME IInv, NEW h \in Handles, Acts(h)
    PROVE  \A g \in Handles \ {h} : SameRow(g)
<1>1. /\ base \in [Handles -> States] /\ mine \in [Handles -> States]
      /\ playing \in [Handles -> SUBSET Targets] /\ todo \in [Handles -> UnderWay]
      /\ pc \in [Handles -> {"none", "ready", "locked"}]
  BY Hypotheses DEF Cells, Locks, TodoOK
<1>2. CASE Load(h) \/ Exit(h)
  BY <1>1, <1>2 DEF Load, Exit, Forget, SameRow
<1>3. CASE Begin(h)
  BY <1>1, <1>3 DEF Begin, SameRow
<1>4. CASE AlreadyPartitioned(h) \/ Ticked(h) \/ ReplayEnd(h) \/ Commit(h)
  BY <1>1, <1>4 DEF AlreadyPartitioned, Ticked, ReplayEnd, Commit, Return, SameRow
<1>5. CASE NotPartitioned(h) \/ SpawnFails(h)
  BY <1>1, <1>5 DEF NotPartitioned, SpawnFails, Abort, Return, SameRow
<1>6. CASE ChangeTc(h)
  BY <1>1, <1>6 DEF ChangeTc, SameRow
<1>7. CASE Spawn(h)
  BY <1>1, <1>7 DEF Spawn, SameRow
<1>8. CASE \E p \in Pids : KillProcess(h, p)
  BY <1>8 DEF KillProcess, handles, SameRow
<1>9. QED
  BY <1>2, <1>3, <1>4, <1>5, <1>6, <1>7, <1>8 DEF Acts

\* The operations that are no replay's.
LEMMA NoReplays ==
    ASSUME "keep" \notin Ops, IInv, NEW h \in Handles,
           AlreadyPartitioned(h) \/ NotPartitioned(h) \/ Spawn(h) \/ SpawnFails(h) \/ Commit(h)
    PROVE  h \notin Replays /\ holder = h
<1>1. Fits(todo[h], h)
  BY TodoIs, Hypotheses
<1>2. h \notin Replays
  BY <1>1 DEF Fits, UnderWay, AlreadyPartitioned, NotPartitioned, Spawn, SpawnFails, Commit, Ready
<1>3. QED
  BY <1>2, OneHolder DEF AlreadyPartitioned, NotPartitioned, Spawn, SpawnFails, Commit, Ready

\* OnlyPlayed, from what a step does to its own handle.
LEMMA PlayedRow ==
    ASSUME OnlyPlayed, NEW h \in Handles, \A g \in Handles \ {h} : SameRow(g),
           h \in Replays =>
             /\ \A e \in Endpoints : ~Plays(h, e)' =>
                  mine'[h].live[e] = base'[h].live[e] /\ mine'[h].cut[e] = base'[h].cut[e]
             /\ pc'[h] = "none" => playing'[h] = {}
    PROVE  OnlyPlayed'
<1>1. SUFFICES ASSUME NEW g \in Replays
               PROVE  /\ \A e \in Endpoints : ~Plays(g, e)' =>
                           mine'[g].live[e] = base'[g].live[e] /\ mine'[g].cut[e] = base'[g].cut[e]
                      /\ pc'[g] = "none" => playing'[g] = {}
  BY DEF OnlyPlayed
<1>2. CASE g = h
  BY <1>2
<1>3. CASE g # h
  <2>1. SameRow(g)
    BY <1>3, RuntimeConstants
  <2>2. \A e \in Endpoints : Plays(g, e)' <=> Plays(g, e)
    BY <2>1 DEF SameRow, Plays
  <2>3. QED
    BY <1>1, <2>1, <2>2 DEF OnlyPlayed, SameRow
<1>4. QED
  BY <1>2, <1>3

\* A replay changes only what it plays.
LEMMA PlayedKept ==
    ASSUME "keep" \notin Ops, IInv, OnlyPlayed, NEW h \in Handles, Acts(h)
    PROVE  OnlyPlayed'
<1>1. \A g \in Handles \ {h} : SameRow(g)
  BY OthersSame
<1>2. CASE h \notin Replays
  BY <1>1, <1>2, PlayedRow
<1>3. CASE h \in Replays
  <2>1. SUFFICES /\ \A e \in Endpoints : ~Plays(h, e)' =>
                      mine'[h].live[e] = base'[h].live[e] /\ mine'[h].cut[e] = base'[h].cut[e]
                 /\ pc'[h] = "none" => playing'[h] = {}
    BY <1>1, PlayedRow
  <2>2. /\ pc[h] = "none" => playing[h] = {}
        /\ \A e \in Endpoints : ~Plays(h, e) =>
             mine[h].live[e] = base[h].live[e] /\ mine[h].cut[e] = base[h].cut[e]
    BY <1>3 DEF OnlyPlayed
  <2>3. /\ base \in [Handles -> States] /\ mine \in [Handles -> States]
        /\ playing \in [Handles -> SUBSET Targets] /\ todo \in [Handles -> UnderWay]
        /\ pc \in [Handles -> {"none", "ready", "locked"}]
    BY Hypotheses DEF Cells, Locks, TodoOK
  <2>4. CASE Load(h)
    BY <2>3, <2>4 DEF Load
  <2>5. CASE Exit(h)
    BY <2>3, <2>5 DEF Exit, Forget
  <2>6. CASE Begin(h)
    <3>1. PICK m \in States : m = Merge(file, base[h], mine[h])
      BY BaseSame, MergeType
    <3>2. mine'[h] = m /\ base'[h] = file /\ pc'[h] = "locked" /\ playing' = playing
      BY <2>3, <2>6, <3>1 DEF Begin
    <3>3. todo[h] = NoOp
      BY <2>6, TodoIs, Hypotheses DEF Begin
    <3>4. NoOp.op # "tick"
      BY DEF NoOp
    <3>5. \A e \in Endpoints : Plays(h, e) => Plays(h, e)'
      BY <3>2, <3>3, <3>4 DEF Plays
    <3>6. \A e \in Endpoints :
            /\ mine[h].live[e] = base[h].live[e] => m.live[e] = file.live[e]
            /\ mine[h].cut[e] = base[h].cut[e] => m.cut[e] = file.cut[e]
      <4>1. file.live \in Maps /\ file.cut \in Maps
        BY BaseSame, StateFields
      <4>2. /\ m.live = MergeMap(file.live, base[h].live, mine[h].live)
            /\ m.cut = MergeMap(file.cut, base[h].cut, mine[h].cut)
        BY <3>1 DEF Merge
      <4>3. QED
        BY <4>1, <4>2 DEF MergeMap, Maps
    <3>7. QED
      BY <2>2, <3>2, <3>5, <3>6
  <2>7. CASE ChangeTc(h)
    <3>1. PICK e \in Endpoints : e = Head(todo[h].left) /\ e \in Range(todo[h].on)
      BY <2>7, ChangesAt DEF ChangeTc
    <3>2. PICK m \in States, o \in {todo[h]} : m = Edited(mine[h], o, e) /\ o = todo[h]
      BY <2>7, <3>1, ChangedKernel DEF ChangeTc
    <3>3. mine'[h] = m /\ base' = base /\ pc'[h] = "locked" /\ playing' = playing
      BY <2>3, <2>7, <3>1, <3>2 DEF ChangeTc, Changes
    <3>4. o.op \in EditOps /\ o.val \in Values \cup {Clean} /\ Fits(o, h)
      BY <2>7, <3>2, ChangesAt, TodoIs, Hypotheses DEF ChangeTc
    <3>5. o.op = "tick"
      BY <1>3, <3>4 DEF Fits, EditOps
    <3>6. PICK t : todo'[h] = [o EXCEPT !.left = t] /\ o \in UnderWay
      BY <2>3, <2>7, <3>2 DEF ChangeTc
    <3>7. todo'[h].op = o.op /\ todo'[h].on = o.on
      BY <3>6 DEF UnderWay
    <3>8. \A d \in Endpoints : Plays(h, d) => Plays(h, d)'
      BY <3>2, <3>3, <3>7 DEF Plays
    <3>9. Plays(h, e)
      BY <3>1, <3>2, <3>5 DEF Plays
    <3>10. \A d \in Endpoints \ {e} : m.live[d] = mine[h].live[d] /\ m.cut[d] = mine[h].cut[d]
      BY <3>2, <3>4, BaseSame, EditedType
    <3>11. QED
      BY <2>2, <3>3, <3>8, <3>9, <3>10
  <2>8. CASE \E p \in Pids : KillProcess(h, p)
    BY <2>2, <2>8 DEF KillProcess, handles, Plays
  <2>9. CASE Ticked(h)
    <3>1. /\ playing'[h] = playing[h] \cup {todo[h].on} /\ mine' = mine /\ base' = base
          /\ pc'[h] = "ready"
      BY <2>3, <2>9 DEF Ticked, Return
    <3>2. \A e \in Endpoints : Plays(h, e) => Plays(h, e)'
      BY <3>1 DEF Plays
    <3>3. QED
      BY <2>2, <3>1, <3>2
  <2>10. CASE ReplayEnd(h)
    <3>1. /\ playing'[h] = playing[h] \ {todo[h].on} /\ base' = base /\ pc'[h] = "ready"
          /\ mine'[h] = Restored(mine[h], base[h], todo[h].on) /\ todo[h].op = "end"
      BY <2>3, <2>10 DEF ReplayEnd, Return
    <3>2. PICK on : on = todo[h].on
      OBVIOUS
    <3>3. \A e \in Endpoints : Plays(h, e) /\ e \notin Range(on) => Plays(h, e)'
      BY <3>1, <3>2 DEF Plays
    <3>4. \A e \in Endpoints :
            /\ mine'[h].live[e] = IF e \in Range(on) THEN base[h].live[e] ELSE mine[h].live[e]
            /\ mine'[h].cut[e] = IF e \in Range(on) THEN base[h].cut[e] ELSE mine[h].cut[e]
      BY <3>1, <3>2 DEF Restored
    <3>5. QED
      BY <2>2, <3>1, <3>3, <3>4
  <2>11. QED
    BY <1>3, <2>4, <2>5, <2>6, <2>7, <2>8, <2>9, <2>10, NoReplays DEF Acts
<1>4. QED
  BY <1>2, <1>3

\* The other actions leave the kernel, the current state and what the
\* replays see as they are.
LEMMA QuietFollows ==
    ASSUME "keep" \notin Ops, IInv, IInv', SavedOrOwn, OnlyPlayed, KernelFollows, NEW h \in Handles, Acts(h),
           ~ChangeTc(h), ~ReplayEnd(h)
    PROVE  KernelFollows'
<1>1. \A g \in Handles \ {h} : SameRow(g)
  BY OthersSame
<1>2. kernel' = kernel
  BY DEF Acts, Load, Begin, AlreadyPartitioned, NotPartitioned, Spawn, SpawnFails, KillProcess,
     Commit, Ticked, Exit
<1>3. /\ base \in [Handles -> States] /\ mine \in [Handles -> States]
      /\ playing \in [Handles -> SUBSET Targets] /\ todo \in [Handles -> UnderWay]
      /\ pc \in [Handles -> {"none", "ready", "locked"}]
  BY Hypotheses DEF Cells, Locks, TodoOK
<1>4. CASE Load(h) \/ Exit(h)
  <2>1. holder # h /\ holder' = holder /\ file' = file
    BY <1>4, OneHolder DEF Load, Exit
  <2>2. Current' = Current
    BY <1>1, <2>1 DEF Current, SameRow
  <2>3. h \in Replays => playing[h] = {} /\ todo[h] = NoOp
    BY <1>4, TodoIs, Hypotheses DEF Load, Exit, OnlyPlayed
  <2>4. h \in Replays => \A e \in Endpoints : ~Plays(h, e)
    BY <2>3 DEF Plays, NoOp
  <2>5. QED
    BY <1>1, <1>2, <2>2, <2>4, SameFollows
<1>5. CASE Begin(h)
  <2>1. holder = Nobody /\ holder' = h /\ file' = file
    BY <1>5 DEF Begin
  <2>2. Current = file
    BY <2>1, RuntimeConstants DEF Current
  <2>3. PICK m \in States : m = Merge(file, base[h], mine[h])
    BY BaseSame, MergeType
  <2>4. mine'[h] = m /\ base'[h] = file
    BY <1>3, <1>5, <2>3 DEF Begin
  <2>5. CASE h \in Replays
    <3>1. Current' = file
      BY <2>1, <2>5 DEF Current
    <3>2. Sees(h) = m
      BY <2>2, <2>3 DEF Sees
    <3>3. Sees(h)' = m
      BY <2>4, <3>1, BaseSame, MergeType DEF Sees
    <3>4. todo[h] = NoOp /\ NoOp.op # "tick" /\ playing' = playing
      BY <1>5, TodoIs, Hypotheses DEF Begin, NoOp
    <3>5. \A e \in Endpoints : Plays(h, e) => Plays(h, e)'
      BY <3>4 DEF Plays
    <3>6. QED
      BY <1>1, <1>2, <2>2, <3>1, <3>2, <3>3, <3>5, SameFollows
  <2>6. CASE h \notin Replays
    <3>1. m = file
      BY <1>5, <2>3, <2>6, BaseSame, MergeType DEF SavedOrOwn, Begin
    <3>2. Current' = file
      BY <2>1, <2>4, <2>6, <3>1 DEF Current
    <3>3. QED
      BY <1>1, <1>2, <2>2, <2>6, <3>2, SameFollows
  <2>7. QED
    BY <2>5, <2>6
<1>6. CASE AlreadyPartitioned(h) \/ NotPartitioned(h) \/ SpawnFails(h)
  <2>1. h \notin Replays /\ holder = h /\ holder' = Nobody /\ file' = file
    BY <1>6, NoReplays DEF AlreadyPartitioned, NotPartitioned, SpawnFails, Abort, Return
  <2>2. mine[h] = file
    BY <1>6, <2>1 DEF SavedOrOwn, OnlyItsOwn, AlreadyPartitioned, NotPartitioned, SpawnFails
  <2>3. Current = file /\ Current' = file
    BY <2>1, <2>2, RuntimeConstants DEF Current
  <2>4. QED
    BY <1>1, <1>2, <2>1, <2>3, SameFollows
<1>7. CASE Spawn(h)
  <2>1. h \notin Replays /\ holder = h /\ holder' = h
    BY <1>7, NoReplays DEF Spawn
  <2>2. PICK p : mine' = [mine EXCEPT ![h].pids = mine[h].pids \cup {p}]
    BY <1>7 DEF Spawn
  <2>3. mine'[h] = [mine[h] EXCEPT !.pids = mine[h].pids \cup {p}]
    BY <1>3, <2>2
  <2>4. mine'[h].live = mine[h].live /\ mine'[h].cut = mine[h].cut
    BY <2>3, BaseSame DEF States
  <2>5. View(mine'[h]) = View(mine[h])
    BY <2>4 DEF View
  <2>6. Current = mine[h] /\ Current' = mine'[h]
    BY <2>1 DEF Current
  <2>7. View(Current)' = View(Current)
    BY <2>5, <2>6
  <2>8. QED
    BY <1>1, <1>2, <2>1, <2>7, SameFollows
<1>8. CASE \E p \in Pids : KillProcess(h, p)
  <2>1. UNCHANGED <<holder, file, mine, base, todo, playing>>
    BY <1>8 DEF KillProcess, handles
  <2>2. Current' = Current /\ Sees(h)' = Sees(h) /\ \A e \in Endpoints : Plays(h, e)' <=> Plays(h, e)
    BY <2>1 DEF Current, Sees, Plays
  <2>3. QED
    BY <1>1, <1>2, <2>2, SameFollows
<1>9. CASE Commit(h)
  <2>1. h \notin Replays /\ holder = h /\ holder' = Nobody /\ file' = mine[h]
    BY <1>9, NoReplays, CommitKeeps DEF Commit, Return
  <2>2. Current = mine[h] /\ Current' = mine[h]
    BY <2>1, RuntimeConstants DEF Current
  <2>3. QED
    BY <1>1, <1>2, <2>1, <2>2, SameFollows
<1>10. CASE Ticked(h)
  <2>1. h \in Replays /\ pc[h] = "locked" /\ holder' = Nobody /\ file' = file
    BY <1>10, TodoIs, Hypotheses DEF Fits, Ticked, Return
  <2>2. Current = file /\ Current' = file
    BY <2>1, ReplaySees, RuntimeConstants DEF Current
  <2>3. mine' = mine /\ base' = base /\ playing'[h] = playing[h] \cup {todo[h].on}
    BY <1>3, <1>10 DEF Ticked
  <2>4. Sees(h)' = Sees(h) /\ \A e \in Endpoints : Plays(h, e) => Plays(h, e)'
    BY <2>2, <2>3 DEF Sees, Plays
  <2>5. QED
    BY <1>1, <1>2, <2>2, <2>4, SameFollows
<1>11. QED
  BY <1>4, <1>5, <1>6, <1>7, <1>8, <1>9, <1>10 DEF Acts

\* With replays that end without keep: once no change and no replay is under
\* way, and nothing was refused or killed, the kernel has exactly what the
\* state file declares (KernelMatchesFile), however the changes of Labs and
\* engines and the ticks and ends of any number of replays interleaved.
THEOREM RuntimeKernelFollows ==
    ASSUME "keep" \notin Ops
    PROVE  Spec => []KernelMatchesFile
<1>1. Init => Undisturbed
  <2>1. SUFFICES ASSUME Init PROVE SavedOrOwn /\ OnlyPlayed /\ KernelFollows
    BY DEF Undisturbed
  <2>2. SavedOrOwn
    BY <2>1 DEF Init, SavedOrOwn
  <2>3. OnlyPlayed
    BY <2>1, RuntimeConstants DEF Init, OnlyPlayed
  <2>4. Current = Deployed /\ kernel = View(Deployed)
    BY <2>1, RuntimeConstants DEF Init, Current
  <2>5. KernelFollows
    BY <2>4 DEF KernelFollows
  <2>6. QED
    BY <2>2, <2>3, <2>5
<1>2. IInv /\ IInv' /\ Undisturbed /\ [Next]_vars => Undisturbed'
  <2>1. SUFFICES ASSUME IInv, IInv', Undisturbed, [Next]_vars, mishaps' = 0
                 PROVE  SavedOrOwn' /\ OnlyPlayed' /\ KernelFollows'
    BY DEF Undisturbed
  <2>2. CASE UNCHANGED vars
    <3>1. UNCHANGED <<holder, file, kernel, pc, base, mine, todo, playing, mishaps>>
      BY <2>2 DEF vars, handles
    <3>2. SavedOrOwn /\ OnlyPlayed /\ KernelFollows
      BY <2>1, <3>1 DEF Undisturbed
    <3>3. OnlyPlayed'
      BY <3>1, <3>2 DEF OnlyPlayed, Plays
    <3>4. KernelFollows'
      BY <3>1, <3>2 DEF KernelFollows, Plays, Sees, Current
    <3>5. QED
      BY <2>1, <3>2, <3>3, <3>4, SavedOrOwnKept
  <2>3. CASE Next
    <3>1. mishaps = 0 /\ \E h \in Handles : Acts(h)
      BY <2>1, <2>3, NoMishap
    <3>2. SavedOrOwn /\ OnlyPlayed /\ KernelFollows
      BY <2>1, <3>1 DEF Undisturbed
    <3>3. PICK h \in Handles : Acts(h)
      BY <3>1
    <3>4. SavedOrOwn' /\ OnlyPlayed'
      BY <2>1, <3>2, <3>3, SavedOrOwnKept, PlayedKept
    <3>5. ReplayEnd(h) => h \in Replays
      BY <2>1, TodoIs, Hypotheses DEF ReplayEnd, Fits
    <3>6. KernelFollows'
      BY <2>1, <3>2, <3>3, <3>5, ChangeFollows, TickFollows, EndFollows, QuietFollows
    <3>7. QED
      BY <3>4, <3>6
  <2>4. QED
    BY <2>1, <2>2, <2>3
<1>3. IInv /\ Undisturbed => KernelMatchesFile
  <2>1. SUFFICES ASSUME IInv, Undisturbed, holder = Nobody, mishaps = 0,
                        \A h \in Handles : playing[h] = {}
                 PROVE  kernel = View(file)
    BY DEF KernelMatchesFile
  <2>2. Current = file /\ KernelFollows
    BY <2>1, RuntimeConstants DEF Current, Undisturbed
  <2>3. \A g \in Replays : \A e \in Endpoints : ~Plays(g, e)
    <3>1. ASSUME NEW g \in Replays PROVE g \in Handles /\ todo[g] = NoOp /\ playing[g] = {}
      BY <2>1, OneHolder, TodoIs, Hypotheses, RuntimeConstants
    <3>2. NoOp.op # "tick"
      BY DEF NoOp
    <3>3. QED
      BY <3>1, <3>2 DEF Plays
  <2>4. PICK k \in [Endpoints -> Tc], v \in [Endpoints -> Tc] : k = kernel /\ v = View(file)
    BY <2>1, <2>2, CurrentState, Hypotheses DEF Cells
  <2>5. \A e \in Endpoints : k[e].imp = v[e].imp /\ (k[e].cut <=> v[e].cut)
    BY <2>2, <2>3, <2>4 DEF KernelFollows
  <2>6. \A e \in Endpoints : k[e] = v[e]
    <3>1. ASSUME NEW a \in Tc, NEW b \in Tc, a.imp = b.imp, a.cut <=> b.cut PROVE a = b
      BY <3>1 DEF Tc
    <3>2. QED
      BY <2>5, <3>1
  <2>7. k = v
    BY <2>6
  <2>8. QED
    BY <2>4, <2>7
<1>4. QED
  BY <1>1, <1>2, <1>3, RuntimeInvariant, PTL DEF Spec
=============================================================================
