------------------------ MODULE LabLifecycle_proofs ------------------------
(***************************************************************************)
(* LabLifecycle for any tasks, nodes, operations and faults: the inductive *)
(* invariant IInv, that a rollback removes all its run created, that only  *)
(* a kill or a failed delete may lose a namespace, and that a reap nobody  *)
(* runs beside leaves no debris.  Without applies: that only these, and a  *)
(* pool that ran full, may lose any resource, and that a lab at rest has   *)
(* the nodes its state.json claims.                                        *)
(***************************************************************************)
EXTENDS LabLifecycle, FiniteSetTheorems, TLAPS

-----------------------------------------------------------------------------
\* The journal as a sequence

\* A new entry.
LEMMA Appended ==
    ASSUME NEW s \in Seq(Resources), NEW r \in Resources
    PROVE  /\ Append(s, r) \in Seq(Resources) /\ Append(s, r) # <<>> /\ Last(Append(s, r)) = r
           /\ Range(Append(s, r)) = Range(s) \cup {r}
<1>1. /\ Append(s, r) \in Seq(Resources) /\ Len(Append(s, r)) = Len(s) + 1 /\ Len(s) \in Nat
      /\ DOMAIN s = 1..Len(s) /\ DOMAIN Append(s, r) = 1..(Len(s) + 1)
      /\ Append(s, r)[Len(s) + 1] = r /\ \A k \in 1..Len(s) : Append(s, r)[k] = s[k]
  OBVIOUS
<1>2. Append(s, r) # <<>>
  BY <1>1
<1>3. Range(Append(s, r)) \subseteq Range(s) \cup {r}
  <2>1. SUFFICES ASSUME NEW k \in 1..(Len(s) + 1) PROVE Append(s, r)[k] \in Range(s) \cup {r}
    BY <1>1 DEF Range
  <2>2. k = Len(s) + 1 \/ k \in 1..Len(s)
    BY <1>1
  <2>3. QED
    BY <1>1, <2>2 DEF Range
<1>4. Range(s) \subseteq Range(Append(s, r))
  <2>1. \A k \in 1..Len(s) : k \in 1..(Len(s) + 1)
    BY <1>1
  <2>2. QED
    BY <1>1, <2>1 DEF Range
<1>5. r \in Range(Append(s, r))
  <2>1. Len(s) + 1 \in 1..(Len(s) + 1)
    BY <1>1
  <2>2. QED
    BY <1>1, <2>1 DEF Range
<1>6. QED
  BY <1>1, <1>2, <1>3, <1>4, <1>5 DEF Last

\* The newest entry and the others.
LEMMA Newest ==
    ASSUME NEW s \in Seq(Resources), s # <<>>
    PROVE  /\ Front(s) \in Seq(Resources) /\ Last(s) \in Resources
           /\ Range(s) \subseteq Range(Front(s)) \cup {Last(s)}
<1>1. Len(s) \in Nat \ {0} /\ DOMAIN s = 1..Len(s) /\ \A k \in 1..Len(s) : s[k] \in Resources
  OBVIOUS
<1>2. /\ Front(s) \in Seq(Resources) /\ DOMAIN Front(s) = 1..(Len(s) - 1)
      /\ \A k \in 1..(Len(s) - 1) : Front(s)[k] = s[k]
  BY <1>1 DEF Front
<1>3. Range(s) \subseteq Range(Front(s)) \cup {Last(s)}
  <2>1. SUFFICES ASSUME NEW k \in 1..Len(s) PROVE s[k] \in Range(Front(s)) \cup {s[Len(s)]}
    BY <1>1 DEF Range, Last
  <2>2. k = Len(s) \/ k \in 1..(Len(s) - 1)
    <3>1. PICK l \in Nat : l = Len(s)
      BY <1>1
    <3>2. k = l \/ k \in 1..(l - 1)
      BY <3>1
    <3>3. QED
      BY <3>1, <3>2
  <2>3. QED
    BY <1>2, <2>2 DEF Range
<1>4. QED
  BY <1>1, <1>2, <1>3 DEF Last

\* What a journal names are resources.
LEMMA EntriesAre ==
    ASSUME NEW s \in Seq(Resources)
    PROVE  Range(s) \subseteq Resources
BY DEF Range

\* Subnets and host claims are no nodes.
LEMMA RegistrationsAre ==
    ASSUME NEW r \in {"subnets", "claims"}, r \in Resources
    PROVE  r \in Registrations /\ r \notin Nodes /\ r \notin Namespaces /\ r \notin Containers
BY LifecycleConstants DEF Resources, Nodes

\* A run's locals at its start.
LEMMA BlankIs == Blank \in Locals
<1>1. <<>> \in Seq(Resources)
  OBVIOUS
<1>2. QED
  BY <1>1 DEF Blank, Locals

-----------------------------------------------------------------------------
\* One task's step

\* Only task t moves, and its locals stay locals.
Frame(t) ==
    /\ pc' \in [Tasks -> Places] /\ me' \in [Tasks -> Locals]
    /\ \A u \in Tasks \ {t} : pc'[u] = pc[u] /\ me'[u] = me[u]

\* The lock goes with the places that have it.
LockMoves(t) ==
    \/ holder' = holder /\ (pc[t] \in Held <=> pc'[t] \in Held)
    \/ holder = Nobody /\ holder' = t /\ pc'[t] \in Held
    \/ holder = t /\ holder' = Nobody /\ pc'[t] \notin Held

Shapes ==
    /\ live \subseteq Resources /\ tags \subseteq Namespaces /\ made \subseteq Containers
    /\ saved \in (SUBSET Nodes) \cup {Absent} /\ topo \in (SUBSET Nodes) \cup {Absent}
    /\ journal = Absent \/ journal \in Seq(Resources)

\* What every step of a task does.
Good(t) ==
    /\ Frame(t) /\ LockMoves(t) /\ Shapes'
    /\ FitsAt(t)' /\ UndoableBy(t)'
    /\ live' \subseteq live \/ holder = t

\* The namespaces without a tag that task t has not at hand.
LooseAt(t) == {n \in live \cap Namespaces : n \notin tags /\ n \notin AtHand(t)}

\* A step leaves no more of them, or one more for a mishap.
Tidy(t) ==
    \/ mishaps' = mishaps /\ LooseAt(t)' \subseteq LooseAt(t)
    \/ /\ mishaps < MaxMishaps /\ mishaps' = mishaps + 1
       /\ \E x \in Resources \cup {Nobody} : LooseAt(t)' \subseteq LooseAt(t) \cup {x}

\* Facts of the state that every lemma uses.
LEMMA StateIs ==
    ASSUME IInv, NEW t \in Tasks
    PROVE  /\ pc \in [Tasks -> Places] /\ me \in [Tasks -> Locals] /\ me[t] \in Locals
           /\ Shapes /\ (holder = t <=> pc[t] \in Held) /\ FitsAt(t) /\ UndoableBy(t)
           /\ mishaps \in Nat /\ t # Nobody
<1>1. TypeOK /\ mishaps \in Nat
  BY LifecycleConstants DEF IInv, TypeOK
<1>2. QED
  BY <1>1, LifecycleConstants DEF IInv, TypeOK, HolderIsAtWork, Shapes

\* Steps like these keep the invariant.
LEMMA GoodKeeps ==
    ASSUME IInv, NEW t \in Tasks, Good(t), Tidy(t), quiet' \in Tasks \cup {Nobody}, Spills(t)
    PROVE  IInv'
<1>1. TypeOK /\ mishaps \in 0..MaxMishaps /\ MaxMishaps \in Nat
  BY LifecycleConstants DEF IInv, TypeOK
<1>2. TypeOK'
  <2>1. holder' \in Tasks \cup {Nobody}
    BY <1>1 DEF Good, LockMoves, TypeOK
  <2>2. mishaps' \in 0..MaxMishaps
    BY <1>1 DEF Tidy
  <2>3. spilled' \subseteq {"subnets"}
    BY <1>1 DEF Spills, TypeOK
  <2>4. QED
    BY <2>1, <2>2, <2>3 DEF Good, Frame, Shapes, TypeOK
<1>3. HolderIsAtWork'
  <2>1. SUFFICES ASSUME NEW u \in Tasks PROVE holder' = u <=> pc'[u] \in Held
    BY DEF HolderIsAtWork
  <2>2. CASE u = t
    BY <2>2, LifecycleConstants DEF IInv, HolderIsAtWork, Good, LockMoves
  <2>3. CASE u # t
    <3>1. pc'[u] = pc[u]
      BY <2>3 DEF Good, Frame
    <3>2. QED
      BY <2>3, <3>1, LifecycleConstants DEF IInv, HolderIsAtWork, Good, LockMoves
  <2>4. QED
    BY <2>2, <2>3
<1>4. ASSUME NEW u \in Tasks PROVE FitsAt(u)' /\ UndoableBy(u)'
  <2>1. CASE u = t
    BY <2>1 DEF Good
  <2>2. CASE u # t
    <3>1. pc'[u] = pc[u] /\ me'[u] = me[u] /\ FitsAt(u) /\ UndoableBy(u)
      BY <2>2 DEF Good, Frame, IInv
    <3>2. FitsAt(u)'
      BY <3>1 DEF FitsAt
    <3>3. pc[u] \in Held => live' \subseteq live
      BY <2>2 DEF Good, IInv, HolderIsAtWork
    <3>4. UndoableBy(u)'
      BY <3>1, <3>3 DEF UndoableBy, Creating
    <3>5. QED
      BY <3>2, <3>4
  <2>3. QED
    BY <2>1, <2>2
<1>5. QED
  BY <1>2, <1>3, <1>4 DEF IInv

\* ... and what is loose, few.
LEMMA TidyKeeps ==
    ASSUME IInv, NEW t \in Tasks, Frame(t), Tidy(t), LooseAreFew
    PROVE  LooseAreFew'
<1>1. mishaps \in Nat
  BY StateIs
<1>2. \A u \in Tasks \ {t} : AtHand(u)' = AtHand(u)
  BY DEF Frame, AtHand
<1>3. Loose \subseteq LooseAt(t) /\ \A n \in LooseAt(t) : n \in Loose <=> \A u \in Tasks \ {t} : n \notin AtHand(u)
  BY DEF Loose, LooseAt
<1>4. Loose' \subseteq LooseAt(t)' /\ \A n \in Loose' : \A u \in Tasks \ {t} : n \notin AtHand(u)
  BY <1>2 DEF Loose, LooseAt
<1>5. CASE mishaps' = mishaps /\ LooseAt(t)' \subseteq LooseAt(t)
  <2>1. Loose' \in SUBSET Loose
    BY <1>3, <1>4, <1>5
  <2>2. IsFiniteSet(Loose') /\ Cardinality(Loose') <= Cardinality(Loose)
    BY <2>1, FS_Subset DEF LooseAreFew
  <2>3. Cardinality(Loose) \in Nat /\ Cardinality(Loose') \in Nat
    BY <2>2, FS_CardinalityType DEF LooseAreFew
  <2>4. QED
    BY <1>1, <1>5, <2>2, <2>3 DEF LooseAreFew
<1>6. CASE mishaps' = mishaps + 1 /\ \E x \in Resources \cup {Nobody} : LooseAt(t)' \subseteq LooseAt(t) \cup {x}
  <2>1. PICK x \in Resources \cup {Nobody} : LooseAt(t)' \subseteq LooseAt(t) \cup {x}
    BY <1>6
  <2>2. Loose' \in SUBSET (Loose \cup {x})
    BY <1>3, <1>4, <2>1
  <2>3. IsFiniteSet(Loose \cup {x}) /\ Cardinality(Loose \cup {x}) <= Cardinality(Loose) + 1
    <3>1. Cardinality(Loose) \in Nat
      BY FS_CardinalityType DEF LooseAreFew
    <3>2. QED
      BY <3>1, FS_AddElement DEF LooseAreFew
  <2>4. IsFiniteSet(Loose') /\ Cardinality(Loose') <= Cardinality(Loose \cup {x})
    BY <2>2, <2>3, FS_Subset
  <2>5. Cardinality(Loose) \in Nat /\ Cardinality(Loose') \in Nat /\ Cardinality(Loose \cup {x}) \in Nat
    BY <2>3, <2>4, FS_CardinalityType DEF LooseAreFew
  <2>6. QED
    BY <1>1, <1>6, <2>3, <2>4, <2>5 DEF LooseAreFew
<1>7. QED
  BY <1>5, <1>6 DEF Tidy

-----------------------------------------------------------------------------
\* How a step moves its task

\* A task that goes to a place and keeps its locals.
LEMMA Gone ==
    ASSUME IInv, NEW t \in Tasks, NEW p \in Places, Goto(t, p), UNCHANGED me
    PROVE  Frame(t) /\ pc'[t] = p /\ me'[t] = me[t]
BY StateIs DEF Goto, Frame

\* A task that goes to a place with other locals.
LEMMA Became ==
    ASSUME IInv, NEW t \in Tasks, NEW p \in Places, NEW l \in Locals, Goto(t, p), me' = [me EXCEPT ![t] = l]
    PROVE  Frame(t) /\ pc'[t] = p /\ me'[t] = l
BY StateIs DEF Goto, Frame

\* A task that stays where it is with other locals.
LEMMA Stayed ==
    ASSUME IInv, NEW t \in Tasks, NEW l \in Locals, UNCHANGED pc, me' = [me EXCEPT ![t] = l]
    PROVE  Frame(t) /\ pc'[t] = pc[t] /\ me'[t] = l
BY StateIs DEF Frame

\* A task that is over holds nothing and has nothing at hand.
LEMMA Left ==
    ASSUME IInv, NEW t \in Tasks, Leave(t)
    PROVE  /\ Frame(t) /\ pc'[t] = "idle" /\ me'[t] = Blank /\ LockMoves(t)
           /\ FitsAt(t)' /\ UndoableBy(t)' /\ AtHand(t)' = {}
<1>1. "idle" \in Places /\ "idle" \notin Held /\ "idle" \notin Creating
  BY DEF Places, Held, Creating
<1>2. Frame(t) /\ pc'[t] = "idle" /\ me'[t] = Blank
  BY <1>1, Became, BlankIs DEF Leave
<1>3. LockMoves(t)
  BY <1>1, <1>2, StateIs DEF Leave, LockMoves
<1>4. QED
  BY <1>1, <1>2, <1>3 DEF FitsAt, UndoableBy, AtHand

\* A step that leaves the files and the tags, and whose task leaves nothing loose.
LEMMA Untouched ==
    ASSUME IInv, NEW t \in Tasks, UNCHANGED <<host, disk>>
    PROVE  Shapes' /\ live' = live /\ tags' = tags
BY StateIs DEF host, disk, Shapes

\* A step that adds no namespace and forgets none loses none.
LEMMA TidyFrom ==
    ASSUME NEW t \in Tasks, live' \cap Namespaces \subseteq live, tags \subseteq tags',
           AtHand(t) \subseteq AtHand(t)', mishaps' = mishaps
    PROVE  Tidy(t)
BY DEF Tidy, LooseAt

-----------------------------------------------------------------------------
\* Runs that leave

\* A step that only returns.
LEMMA LeaveDoes ==
    ASSUME IInv, NEW t \in Tasks, Leave(t), UNCHANGED <<host, disk>>
    PROVE  Good(t)
BY Left, Untouched DEF Good

\* A kill: what the task had at hand may be lost, and the mishap says so.
LEMMA KillDoes ==
    ASSUME IInv, NEW t \in Tasks, Kill(t)
    PROVE  Good(t) /\ Tidy(t)
<1>1. Good(t)
  BY LeaveDoes DEF Kill
<1>2. AtHand(t)' = {} /\ live' = live /\ tags' = tags
  BY Left, Untouched DEF Kill
<1>3. PICK x \in Resources \cup {Nobody} : AtHand(t) \cap Namespaces \subseteq {x}
  <2>1. CASE AtHand(t) \cap Namespaces = {}
    BY <2>1
  <2>2. CASE AtHand(t) \cap Namespaces # {}
    BY <2>2 DEF AtHand, Resources, Nodes
  <2>3. QED
    BY <2>1, <2>2
<1>4. QED
  BY <1>1, <1>2, <1>3 DEF Kill, Mishap, Tidy, LooseAt

-----------------------------------------------------------------------------
\* Deploy

\* A deploy takes the lock and the journal that is there.
LEMMA DeployDoes ==
    ASSUME IInv, NEW t \in Tasks, Deploy(t), UNCHANGED mishaps
    PROVE  Good(t) /\ Tidy(t)
<1>1. PICK want \in SUBSET Resources :
        me' = [me EXCEPT ![t] =
            [Blank EXCEPT !.op = "deploy", !.want = want, !.add = want \cap Nodes,
                          !.entries = IF journal = Absent THEN <<>> ELSE journal,
                          !.after = "allocate", !.before = live]]
  BY DEF Deploy
<1>2. PICK s \in Seq(Resources) : s = IF journal = Absent THEN <<>> ELSE journal
  <2>1. <<>> \in Seq(Resources) /\ (journal = Absent \/ journal \in Seq(Resources))
    BY StateIs DEF Shapes
  <2>2. QED
    BY <2>1
<1>3. PICK p \in {"allocate", "unwind"} : Goto(t, p)
  BY DEF Deploy
<1>4. PICK l \in Locals : me' = [me EXCEPT ![t] = l] /\ l.before = live /\ l.entries = s
  <2>1. PICK add \in SUBSET Nodes : add = want \cap Nodes
    OBVIOUS
  <2>2. PICK b \in SUBSET Resources : b = live
    BY StateIs DEF Shapes
  <2>3. PICK r \in Locals : r = Blank
    BY BlankIs
  <2>4. PICK l : l = [r EXCEPT !.op = "deploy", !.want = want, !.add = add, !.entries = s,
                               !.after = "allocate", !.before = b]
    OBVIOUS
  <2>5. l \in Locals /\ l.before = b /\ l.entries = s
    BY <2>4 DEF Locals
  <2>6. QED
    BY <1>1, <1>2, <2>1, <2>2, <2>3, <2>4, <2>5
<1>5. p \in Places /\ p \in Held
  BY DEF Places, Held
<1>6. Frame(t) /\ pc'[t] = p /\ me'[t] = l
  BY <1>3, <1>4, <1>5, Became
<1>7. Shapes' /\ live' = live /\ tags' = tags
  BY Untouched DEF Deploy
<1>8. LockMoves(t)
  BY <1>5, <1>6 DEF Deploy, LockMoves
<1>9. FitsAt(t)' /\ UndoableBy(t)'
  BY <1>4, <1>6, <1>7 DEF FitsAt, UndoableBy
<1>10. AtHand(t) = {}
  BY DEF Deploy, AtHand
<1>11. QED
  BY <1>6, <1>7, <1>8, <1>9, <1>10, TidyFrom DEF Good

\* The subnets are allocated, and at hand until they are journalled.
LEMMA AllocateDoes ==
    ASSUME IInv, NEW t \in Tasks, Allocate(t), UNCHANGED mishaps
    PROVE  Good(t) /\ Tidy(t)
<1>1. PICK p \in {"allocated", "claim"} : Goto(t, p) /\ (p = "allocated" <=> "subnets" \in me[t].want)
  BY DEF Allocate
<1>2. p \in Places /\ p \in Held /\ pc[t] \in Held /\ pc[t] \in Creating /\ p \in Creating
  BY DEF Places, Held, Creating, Allocate
<1>3. Frame(t) /\ pc'[t] = p /\ me'[t] = me[t]
  BY <1>1, <1>2, Gone DEF Allocate
<1>4. /\ live' = IF p = "allocated" THEN live \cup {"subnets"} ELSE live
      /\ UNCHANGED <<holder, tags, made, saved, topo, journal>>
  BY <1>1 DEF Allocate, disk
<1>5. p = "allocated" => "subnets" \in Registrations /\ "subnets" \in Resources /\ "subnets" \notin Namespaces
  BY <1>1, StateIs, RegistrationsAre DEF Locals
<1>6. Shapes'
  BY <1>4, <1>5, StateIs DEF Shapes
<1>7. FitsAt(t)' /\ UndoableBy(t)'
  BY <1>2, <1>3, <1>4, <1>5, StateIs DEF FitsAt, UndoableBy, Allocate
<1>8. AtHand(t) = {}
  BY DEF Allocate, AtHand
<1>9. holder = t /\ LockMoves(t)
  BY <1>2, <1>3, <1>4, StateIs DEF LockMoves
<1>10. QED
  BY <1>3, <1>4, <1>5, <1>6, <1>7, <1>8, <1>9, TidyFrom DEF Good

\* The allocation fails, after the registry took the subnets or before.
LEMMA AllocateFailsDoes ==
    ASSUME IInv, NEW t \in Tasks, AllocateFails(t), UNCHANGED mishaps
    PROVE  Good(t) /\ Tidy(t)
<1>1. live' \subseteq live \cup {"subnets"} /\ UNCHANGED <<tags, made, saved, topo, journal>>
  BY DEF AllocateFails, disk
<1>2. "subnets" \in Resources /\ "subnets" \notin Namespaces
  BY StateIs, RegistrationsAre DEF Locals, AllocateFails
<1>3. Shapes'
  BY <1>1, <1>2, StateIs DEF Shapes
<1>4. holder = t
  BY StateIs DEF AllocateFails, Held
<1>5. AtHand(t) = {}
  BY DEF AllocateFails, AtHand
<1>6. QED
  BY <1>1, <1>2, <1>3, <1>4, <1>5, Left, TidyFrom DEF Good, AllocateFails

\* Journal::record.
LEMMA RecordDoes ==
    ASSUME IInv, NEW t \in Tasks, NEW r \in Resources, NEW p \in Places, Record(t, r), Goto(t, p)
    PROVE  /\ Frame(t) /\ pc'[t] = p
           /\ me'[t].entries \in Seq(Resources) /\ me'[t].entries # <<>> /\ Last(me'[t].entries) = r
           /\ Range(me'[t].entries) = Range(me[t].entries) \cup {r}
           /\ me'[t].before = me[t].before /\ me'[t].cur = me[t].cur /\ me'[t].failed = me[t].failed
           /\ journal' \in Seq(Resources)
<1>1. PICK q \in Locals : q = me[t]
  BY StateIs
<1>2. PICK e \in Seq(Resources) : e = q.entries
  BY DEF Locals
<1>3. PICK s \in Seq(Resources) : /\ s = Append(e, r) /\ s # <<>> /\ Last(s) = r
                                  /\ Range(s) = Range(e) \cup {r}
  BY Appended
<1>4. PICK l : l = [q EXCEPT !.entries = s]
  OBVIOUS
<1>5. l \in Locals /\ l.entries = s /\ l.before = q.before /\ l.cur = q.cur /\ l.failed = q.failed
  BY <1>4 DEF Locals
<1>6. me' = [me EXCEPT ![t] = l] /\ journal' = s
  BY <1>1, <1>2, <1>3, <1>4 DEF Record
<1>7. Frame(t) /\ pc'[t] = p /\ me'[t] = l
  BY <1>5, <1>6, Became
<1>8. QED
  BY <1>1, <1>2, <1>3, <1>5, <1>6, <1>7

\* The journal names the subnets.
LEMMA RecordSubnetsDoes ==
    ASSUME IInv, NEW t \in Tasks, RecordSubnets(t), UNCHANGED mishaps
    PROVE  Good(t) /\ Tidy(t)
<1>1. /\ "claim" \in Places /\ "claim" \in Held /\ pc[t] \in Held /\ pc[t] \in Creating
      /\ pc[t] = "allocated"
  BY DEF Places, Held, Creating, RecordSubnets
<1>2. "subnets" \in Resources /\ holder = t
  BY <1>1, StateIs DEF FitsAt, Resources
<1>3. /\ Frame(t) /\ pc'[t] = "claim" /\ journal' \in Seq(Resources)
      /\ Range(me'[t].entries) = Range(me[t].entries) \cup {"subnets"}
      /\ me'[t].before = me[t].before /\ me'[t].failed = me[t].failed
  BY <1>1, <1>2, RecordDoes DEF RecordSubnets
<1>4. UNCHANGED <<holder, live, tags, made, saved, topo>>
  BY DEF RecordSubnets, host
<1>5. Shapes' /\ LockMoves(t) /\ AtHand(t) = {}
  BY <1>1, <1>3, <1>4, StateIs DEF Shapes, LockMoves, AtHand
<1>6. FitsAt(t)' /\ UndoableBy(t)'
  BY <1>1, <1>3, <1>4, StateIs DEF FitsAt, UndoableBy
<1>7. QED
  BY <1>2, <1>3, <1>4, <1>5, <1>6, TidyFrom DEF Good

\* The journal names the claims before they are made.
LEMMA RecordClaimsDoes ==
    ASSUME IInv, NEW t \in Tasks, RecordClaims(t), UNCHANGED mishaps
    PROVE  Good(t) /\ Tidy(t)
<1>1. /\ {"claiming", "execute"} \subseteq Places \cap Held /\ pc[t] \in Held /\ pc[t] \in Creating
      /\ pc[t] = "claim"
  BY DEF Places, Held, Creating, RecordClaims
<1>2. UNCHANGED <<holder, live, tags, made, saved, topo>> /\ holder = t
  BY <1>1, StateIs DEF RecordClaims, host
<1>3. CASE "claims" \in me[t].want
  <2>1. "claims" \in Resources
    BY <1>3, StateIs DEF Locals
  <2>2. /\ Frame(t) /\ pc'[t] = "claiming" /\ journal' \in Seq(Resources)
        /\ Range(me'[t].entries) = Range(me[t].entries) \cup {"claims"}
        /\ me'[t].before = me[t].before /\ me'[t].failed = me[t].failed
    BY <1>1, <1>3, <2>1, RecordDoes DEF RecordClaims
  <2>3. Shapes' /\ LockMoves(t) /\ AtHand(t) = {}
    BY <1>1, <1>2, <2>2, StateIs DEF Shapes, LockMoves, AtHand
  <2>4. FitsAt(t)' /\ UndoableBy(t)'
    BY <1>1, <1>2, <2>2, StateIs DEF FitsAt, UndoableBy
  <2>5. QED
    BY <1>2, <2>2, <2>3, <2>4, TidyFrom DEF Good
<1>4. CASE "claims" \notin me[t].want
  <2>1. Frame(t) /\ pc'[t] = "execute" /\ me'[t] = me[t] /\ journal' = journal
    BY <1>1, <1>4, Gone DEF RecordClaims
  <2>2. Shapes' /\ LockMoves(t) /\ AtHand(t) = {}
    BY <1>1, <1>2, <2>1, StateIs DEF Shapes, LockMoves, AtHand
  <2>3. FitsAt(t)' /\ UndoableBy(t)'
    BY <1>1, <1>2, <2>1, StateIs DEF FitsAt, UndoableBy
  <2>4. QED
    BY <1>2, <2>1, <2>2, <2>3, TidyFrom DEF Good
<1>5. QED
  BY <1>3, <1>4

\* The claims are made, which the journal names.
LEMMA ClaimDoes ==
    ASSUME IInv, NEW t \in Tasks, Claim(t), UNCHANGED mishaps
    PROVE  Good(t) /\ Tidy(t)
<1>1. /\ "execute" \in Places \cap Held /\ pc[t] \in Held /\ pc[t] \in Creating /\ pc[t] = "claiming"
  BY DEF Places, Held, Creating, Claim
<1>2. "claims" \in Range(me[t].entries) /\ me[t].entries \in Seq(Resources) /\ holder = t
  BY <1>1, StateIs DEF FitsAt, Locals
<1>3. "claims" \in Resources /\ "claims" \notin Namespaces
  BY <1>2, EntriesAre, RegistrationsAre
<1>4. Frame(t) /\ pc'[t] = "execute" /\ me'[t] = me[t]
  BY <1>1, Gone DEF Claim
<1>5. live' = live \cup {"claims"} /\ UNCHANGED <<holder, tags, made, saved, topo, journal>>
  BY DEF Claim, disk
<1>6. Shapes' /\ LockMoves(t) /\ AtHand(t) = {}
  BY <1>1, <1>3, <1>4, <1>5, StateIs DEF Shapes, LockMoves, AtHand
<1>7. FitsAt(t)' /\ UndoableBy(t)'
  BY <1>1, <1>2, <1>4, <1>5, StateIs DEF FitsAt, UndoableBy
<1>8. QED
  BY <1>2, <1>3, <1>4, <1>5, <1>6, <1>7, TidyFrom DEF Good

-----------------------------------------------------------------------------
\* Executing and unwinding

\* A delete: one loose namespace more, and a mishap, when it failed.
LEMMA DeleteDoes ==
    ASSUME IInv, NEW t \in Tasks, NEW r \in Resources, NEW l \in Locals, Delete(t, r, l)
    PROVE  /\ me' \in [Tasks -> Locals] /\ \A u \in Tasks \ {t} : me'[u] = me[u]
           /\ \/ me'[t] = l /\ live' = live \ {r} /\ mishaps' = mishaps
              \/ /\ me'[t].failed /\ live' = live /\ mishaps < MaxMishaps /\ mishaps' = mishaps + 1
                 /\ me'[t] = [l EXCEPT !.failed = TRUE]
<1>1. [l EXCEPT !.failed = TRUE] \in Locals /\ [l EXCEPT !.failed = TRUE].failed = TRUE
  BY DEF Locals
<1>2. me \in [Tasks -> Locals]
  BY StateIs
<1>3. CASE live' = live \ {r} /\ me' = [me EXCEPT ![t] = l] /\ UNCHANGED mishaps
  BY <1>2, <1>3
<1>4. CASE Mishap /\ me' = [me EXCEPT ![t] = [l EXCEPT !.failed = TRUE]] /\ UNCHANGED live
  BY <1>1, <1>2, <1>4 DEF Mishap
<1>5. QED
  BY <1>3, <1>4 DEF Delete

\* A delete of r that untags it, by a task that then has at hand what it had but r.
LEMMA DeleteIsTidy ==
    ASSUME NEW t \in Tasks, NEW r \in Resources, tags' = tags \ {r},
           AtHand(t) \subseteq AtHand(t)' \cup {r},
           \/ live' = live \ {r} /\ mishaps' = mishaps
           \/ live' = live /\ mishaps < MaxMishaps /\ mishaps' = mishaps + 1
    PROVE  Tidy(t)
BY DEF Tidy, LooseAt

\* An apply removes a node, or fails to and says so.
LEMMA RemoveNodeDoes ==
    ASSUME IInv, NEW t \in Tasks, RemoveNode(t)
    PROVE  Good(t) /\ Tidy(t)
<1>1. pc[t] = "execute" /\ pc[t] \in Held /\ UNCHANGED <<holder, made, saved, topo, journal, pc>>
  BY DEF RemoveNode, Held, disk
<1>2. PICK n \in me[t].rem : /\ Delete(t, n, [me[t] EXCEPT !.rem = @ \ {n}, !.env = @ \ {n}])
                             /\ tags' = tags \ {n}
  BY DEF RemoveNode
<1>3. PICK q \in Locals : q = me[t]
  BY StateIs
<1>4. n \in Resources
  BY <1>2, <1>3 DEF Locals, Resources
<1>5. PICK l : l = [q EXCEPT !.rem = @ \ {n}, !.env = @ \ {n}]
  OBVIOUS
<1>6. l \in Locals /\ l.before = q.before /\ l.entries = q.entries /\ l.failed = q.failed
  BY <1>5 DEF Locals
<1>7. Delete(t, n, l)
  BY <1>2, <1>3, <1>5
<1>8. /\ me' \in [Tasks -> Locals] /\ \A u \in Tasks \ {t} : me'[u] = me[u]
      /\ \/ me'[t] = l /\ live' = live \ {n} /\ mishaps' = mishaps
         \/ me'[t].failed /\ live' = live /\ mishaps < MaxMishaps /\ mishaps' = mishaps + 1
  BY <1>4, <1>6, <1>7, DeleteDoes
<1>9. Frame(t)
  BY <1>1, <1>8, StateIs DEF Frame
<1>10. Shapes' /\ LockMoves(t) /\ AtHand(t) = {} /\ AtHand(t)' = {}
  BY <1>1, <1>2, <1>8, StateIs DEF Shapes, LockMoves, AtHand
<1>11. FitsAt(t)' /\ UndoableBy(t)'
  BY <1>1, <1>3, <1>6, <1>8, StateIs DEF FitsAt, UndoableBy
<1>12. QED
  BY <1>2, <1>4, <1>8, <1>9, <1>10, <1>11, DeleteIsTidy DEF Good

\* A namespace is made, and is at hand until it is tagged and journalled.
LEMMA CreateDoes ==
    ASSUME IInv, NEW t \in Tasks, Create(t), UNCHANGED mishaps
    PROVE  Good(t) /\ Tidy(t)
<1>1. /\ pc[t] = "execute" /\ pc[t] \in Held /\ pc[t] \in Creating /\ "created" \in Places \cap Held
      /\ UNCHANGED <<holder, tags, saved, topo, journal>> /\ holder = t
  BY StateIs DEF Create, Held, Creating, Places, disk
<1>2. PICK n \in me[t].add : /\ live' = live \cup {n} /\ made' = made \cup ({n} \cap Containers)
                             /\ me' = [me EXCEPT ![t] = [me[t] EXCEPT !.add = @ \ {n}, !.cur = n]]
  BY DEF Create
<1>3. PICK q \in Locals : q = me[t]
  BY StateIs
<1>4. n \in Nodes /\ n \in Resources
  BY <1>2, <1>3 DEF Locals, Resources
<1>5. PICK l : l = [q EXCEPT !.add = @ \ {n}, !.cur = n]
  OBVIOUS
<1>6. l \in Locals /\ l.cur = n /\ l.before = q.before /\ l.entries = q.entries /\ l.failed = q.failed
  BY <1>4, <1>5 DEF Locals
<1>7. Frame(t) /\ pc'[t] = "created" /\ me'[t] = l
  <2>1. me' = [me EXCEPT ![t] = l] /\ Goto(t, "created")
    BY <1>2, <1>3, <1>5 DEF Create
  <2>2. QED
    BY <1>1, <1>6, <2>1, Became
<1>8. Shapes' /\ LockMoves(t)
  BY <1>1, <1>2, <1>4, <1>7, StateIs DEF Shapes, LockMoves
<1>9. AtHand(t) = {} /\ AtHand(t)' = {n}
  BY <1>1, <1>6, <1>7 DEF AtHand
<1>10. Tidy(t)
  BY <1>1, <1>2, <1>9 DEF Tidy, LooseAt
<1>11. FitsAt(t)' /\ UndoableBy(t)'
  BY <1>1, <1>2, <1>3, <1>4, <1>6, <1>7, StateIs DEF FitsAt, UndoableBy
<1>12. QED
  BY <1>1, <1>7, <1>8, <1>10, <1>11 DEF Good

\* The journal names the node just made.
LEMMA RecordNodeDoes ==
    ASSUME IInv, NEW t \in Tasks, RecordNode(t), UNCHANGED mishaps
    PROVE  Good(t) /\ Tidy(t)
<1>1. /\ pc[t] = "created" /\ pc[t] \in Held /\ pc[t] \in Creating /\ "recorded" \in Places \cap Held
      /\ UNCHANGED <<holder, live, tags, made, saved, topo>> /\ holder = t
  BY StateIs DEF RecordNode, Held, Creating, Places, host
<1>2. PICK n \in Nodes : n = me[t].cur
  BY <1>1, StateIs DEF FitsAt
<1>3. n \in Resources
  BY DEF Resources
<1>4. /\ Frame(t) /\ pc'[t] = "recorded"
      /\ me'[t].entries \in Seq(Resources) /\ me'[t].entries # <<>> /\ Last(me'[t].entries) = n
      /\ Range(me'[t].entries) = Range(me[t].entries) \cup {n}
      /\ me'[t].before = me[t].before /\ me'[t].cur = n /\ me'[t].failed = me[t].failed
      /\ journal' \in Seq(Resources)
  BY <1>1, <1>2, <1>3, RecordDoes DEF RecordNode
<1>5. Shapes' /\ LockMoves(t) /\ AtHand(t) = {n} /\ AtHand(t)' = {n}
  BY <1>1, <1>2, <1>4, StateIs DEF Shapes, LockMoves, AtHand
<1>6. FitsAt(t)' /\ UndoableBy(t)'
  BY <1>1, <1>2, <1>4, StateIs DEF FitsAt, UndoableBy
<1>7. QED
  BY <1>1, <1>4, <1>5, <1>6, TidyFrom DEF Good

\* The owner tag of the node just made.
LEMMA TagDoes ==
    ASSUME IInv, NEW t \in Tasks, Tag(t), UNCHANGED mishaps
    PROVE  Good(t) /\ Tidy(t)
<1>1. /\ pc[t] = "recorded" /\ pc[t] \in Held /\ pc[t] \in Creating /\ "execute" \in Places \cap Held
      /\ UNCHANGED <<holder, live, made, saved, topo, journal>> /\ holder = t
  BY StateIs DEF Tag, Held, Creating, Places, disk
<1>2. PICK q \in Locals : q = me[t]
  BY StateIs
<1>3. PICK n \in Nodes : n = q.cur
  BY <1>1, <1>2, StateIs DEF FitsAt
<1>4. PICK l : l = [q EXCEPT !.env = @ \cup {n}, !.cur = Nobody]
  OBVIOUS
<1>5. l \in Locals /\ l.before = q.before /\ l.entries = q.entries /\ l.failed = q.failed
  BY <1>4 DEF Locals
<1>6. me' = [me EXCEPT ![t] = l] /\ tags' = tags \cup ({n} \cap Namespaces) /\ Goto(t, "execute")
  BY <1>2, <1>3, <1>4 DEF Tag
<1>7. Frame(t) /\ pc'[t] = "execute" /\ me'[t] = l
  BY <1>1, <1>5, <1>6, Became
<1>8. Shapes' /\ LockMoves(t) /\ AtHand(t) = {n} /\ AtHand(t)' = {}
  BY <1>1, <1>2, <1>3, <1>6, <1>7, StateIs DEF Shapes, LockMoves, AtHand
<1>9. FitsAt(t)' /\ UndoableBy(t)'
  BY <1>1, <1>2, <1>5, <1>7, StateIs DEF FitsAt, UndoableBy
<1>10. Tidy(t)
  BY <1>1, <1>6, <1>8 DEF Tidy, LooseAt
<1>11. QED
  BY <1>1, <1>7, <1>8, <1>9, <1>10 DEF Good

\* A failure or a panic: the plan is dropped, the journal unwound.
LEMMA StartUnwindDoes ==
    ASSUME IInv, NEW t \in Tasks, UNCHANGED mishaps, Fail(t) \/ Panic(t)
    PROVE  Good(t) /\ Tidy(t)
<1>1. PICK a \in {"undeployed", "leave", "dropped"} : StartUnwind(t, a)
  BY DEF Fail, Panic
<1>2. /\ pc[t] \in {"claim", "claiming", "execute", "recorded", "saving", "saved"}
      /\ UNCHANGED <<holder, host, disk>>
  BY DEF Fail, Panic, CanFail, Executed
<1>3. pc[t] \in Held /\ pc[t] \in Creating /\ "unwind" \in Places \cap Held /\ "unwind" \in Creating
  BY <1>2 DEF Held, Creating, Places
<1>4. PICK q \in Locals : q = me[t]
  BY StateIs
<1>5. PICK r \in Locals : r = Blank
  BY BlankIs
<1>6. PICK l : l = [r EXCEPT !.op = q.op, !.entries = q.entries, !.after = a,
                             !.before = q.before, !.failed = q.failed]
  OBVIOUS
<1>7. l \in Locals /\ l.before = q.before /\ l.entries = q.entries /\ l.failed = q.failed
  BY <1>6 DEF Locals
<1>8. me' = [me EXCEPT ![t] = l] /\ Goto(t, "unwind")
  BY <1>1, <1>4, <1>5, <1>6 DEF StartUnwind
<1>9. Frame(t) /\ pc'[t] = "unwind" /\ me'[t] = l
  BY <1>3, <1>7, <1>8, Became
<1>10. Shapes' /\ live' = live /\ tags' = tags
  BY <1>2, Untouched
<1>11. LockMoves(t)
  BY <1>2, <1>3, <1>9 DEF LockMoves
<1>12. AtHand(t) \subseteq AtHand(t)'
  BY <1>2, <1>4, <1>7, <1>9, StateIs DEF AtHand, FitsAt
<1>13. FitsAt(t)' /\ UndoableBy(t)'
  BY <1>2, <1>3, <1>4, <1>7, <1>9, <1>10, StateIs DEF FitsAt, UndoableBy
<1>14. QED
  BY <1>9, <1>10, <1>11, <1>12, <1>13, TidyFrom DEF Good

\* A rollback undoes the newest entry, or fails to and says so.
LEMMA UnwindDoes ==
    ASSUME IInv, NEW t \in Tasks, Unwind(t)
    PROVE  /\ Good(t) /\ Tidy(t)
           /\ me'[t].op = me[t].op /\ me'[t].after = me[t].after /\ me'[t].known = me[t].known
<1>1. pc[t] = "unwind" /\ pc[t] \in Held /\ pc[t] \in Creating
      /\ UNCHANGED <<holder, made, saved, topo, journal, pc>>
  BY DEF Unwind, Held, Creating, disk
<1>2. PICK q \in Locals : q = me[t] /\ q.entries # <<>>
  BY StateIs DEF Unwind
<1>3. PICK s \in Seq(Resources) : s = q.entries /\ s # <<>>
  BY <1>2 DEF Locals
<1>4. PICK e \in Resources, f \in Seq(Resources) : e = Last(s) /\ f = Front(s) /\ Range(s) \subseteq Range(f) \cup {e}
  BY <1>3, Newest
<1>5. PICK l : l = [q EXCEPT !.entries = f]
  OBVIOUS
<1>6. /\ l \in Locals /\ l.before = q.before /\ l.entries = f /\ l.failed = q.failed
      /\ l.op = q.op /\ l.after = q.after /\ l.known = q.known
  BY <1>5 DEF Locals
<1>7. Delete(t, e, l) /\ tags' = tags \ {e}
  BY <1>2, <1>3, <1>4, <1>5 DEF Unwind
<1>8. /\ me' \in [Tasks -> Locals] /\ \A u \in Tasks \ {t} : me'[u] = me[u]
      /\ \/ me'[t] = l /\ live' = live \ {e} /\ mishaps' = mishaps
         \/ /\ me'[t].failed /\ live' = live /\ mishaps < MaxMishaps /\ mishaps' = mishaps + 1
            /\ me'[t] = [l EXCEPT !.failed = TRUE]
  BY <1>6, <1>7, DeleteDoes
<1>9. Frame(t)
  BY <1>1, <1>8, StateIs DEF Frame
<1>10. Shapes' /\ LockMoves(t) /\ AtHand(t) = {e}
  BY <1>1, <1>2, <1>3, <1>4, <1>7, <1>8, StateIs DEF Shapes, LockMoves, AtHand
<1>11. FitsAt(t)' /\ UndoableBy(t)'
  <2>1. FitsAt(t)'
    BY <1>1 DEF FitsAt
  <2>2. ~me[t].failed => live \subseteq me[t].before \cup Range(f) \cup {e}
    BY <1>1, <1>2, <1>3, <1>4, StateIs DEF UndoableBy
  <2>3. QED
    BY <1>1, <1>2, <1>6, <1>8, <2>1, <2>2 DEF UndoableBy
<1>12. me'[t].op = q.op /\ me'[t].after = q.after /\ me'[t].known = q.known
  <2>1. [l EXCEPT !.failed = TRUE].op = l.op /\ [l EXCEPT !.failed = TRUE].after = l.after
        /\ [l EXCEPT !.failed = TRUE].known = l.known
    BY <1>6 DEF Locals
  <2>2. QED
    BY <1>6, <1>8, <2>1
<1>13. Good(t) /\ Tidy(t)
  BY <1>7, <1>8, <1>9, <1>10, <1>11, DeleteIsTidy DEF Good
<1>14. QED
  BY <1>2, <1>12, <1>13

\* A rollback that undid every entry ends, without a journal.
LEMMA UnwoundDoes ==
    ASSUME IInv, NEW t \in Tasks, Unwound(t), UNCHANGED mishaps
    PROVE  Good(t) /\ Tidy(t)
<1>1. /\ pc[t] = "unwind" /\ pc[t] \in Held /\ me[t].entries = <<>> /\ AtHand(t) = {}
      /\ UNCHANGED <<live, tags, made, saved, topo>> /\ journal' \in {journal, Absent}
  BY DEF Unwound, Held, AtHand, host
<1>2. Shapes'
  BY <1>1, StateIs DEF Shapes
<1>3. ASSUME NEW b \in SUBSET Resources, NEW p \in {"allocate", "remove_dir"},
             me' = [me EXCEPT ![t].before = b], Goto(t, p), UNCHANGED holder, p = "allocate" => b = live
      PROVE  Good(t)
  <2>1. PICK q \in Locals : q = me[t]
    BY StateIs
  <2>2. PICK l : l = [q EXCEPT !.before = b]
    OBVIOUS
  <2>3. l \in Locals /\ l.before = b
    BY <2>2 DEF Locals
  <2>4. me' = [me EXCEPT ![t] = l]
    BY <1>3, <2>1, <2>2
  <2>5. p \in Places /\ p \in Held /\ (p \in Creating => p = "allocate")
    BY DEF Places, Held, Creating
  <2>6. Frame(t) /\ pc'[t] = p /\ me'[t] = l
    BY <1>3, <2>3, <2>4, <2>5, Became
  <2>7. FitsAt(t)' /\ UndoableBy(t)'
    BY <1>1, <1>3, <2>3, <2>5, <2>6 DEF FitsAt, UndoableBy
  <2>8. LockMoves(t)
    BY <1>1, <1>3, <2>5, <2>6 DEF LockMoves
  <2>9. QED
    BY <1>1, <1>2, <2>6, <2>7, <2>8 DEF Good
<1>4. Good(t)
  <2>1. live \in SUBSET Resources
    BY StateIs DEF Shapes
  <2>2. CASE Leave(t)
    BY <1>1, <1>2, <2>2, Left DEF Good
  <2>3. CASE ~Leave(t)
    BY <1>3, <2>1, <2>3 DEF Unwound
  <2>4. QED
    BY <2>2, <2>3
<1>5. QED
  BY <1>1, <1>4, TidyFrom

-----------------------------------------------------------------------------
\* Steps that move a run on and leave its locals and the host alone

\* From a place that has the lock to one that does, or both have not.
LEMMA MoveDoes ==
    ASSUME IInv, NEW t \in Tasks, NEW p \in Places, Goto(t, p), UNCHANGED <<me, holder, mishaps>>,
           live' \subseteq live, tags' = tags, Shapes', pc[t] \in Held <=> p \in Held,
           p \in Creating => pc[t] \in Creating,
           pc[t] \notin {"allocated", "claiming", "created", "recorded", "unwind"},
           p \notin {"allocated", "claiming", "created", "recorded", "unwind"}
    PROVE  Good(t) /\ Tidy(t)
<1>1. Frame(t) /\ pc'[t] = p /\ me'[t] = me[t]
  BY Gone
<1>2. LockMoves(t)
  BY <1>1 DEF LockMoves
<1>3. FitsAt(t)' /\ UndoableBy(t)'
  BY <1>1, StateIs DEF FitsAt, UndoableBy
<1>4. AtHand(t) = {}
  BY DEF AtHand
<1>5. QED
  BY <1>1, <1>2, <1>3, <1>4, TidyFrom DEF Good

\* The save and what is before it create nothing.
LEMMA SavingDoes ==
    ASSUME IInv, NEW t \in Tasks, UNCHANGED mishaps,
           DeploySaves(t) \/ ApplyDiscards(t) \/ ApplySaves(t) \/ SaveTopology(t)
    PROVE  Good(t) /\ Tidy(t)
<1>1. PICK p \in {"saving", "merging", "saved"} : Goto(t, p) /\ pc[t] \in {"execute", "merging", "saving"}
  BY DEF DeploySaves, ApplyDiscards, ApplySaves, SaveTopology, Executed
<1>2. p \in Places /\ p \in Held /\ pc[t] \in Held /\ pc[t] \in Creating
  BY <1>1 DEF Places, Held, Creating
<1>3. UNCHANGED <<me, holder, live, tags, made>>
  BY DEF DeploySaves, ApplyDiscards, ApplySaves, SaveTopology, host
<1>4. Shapes'
  <2>1. me[t].env \in SUBSET Nodes /\ me[t].want \cap Nodes \in SUBSET Nodes /\ Shapes
    BY StateIs DEF Locals
  <2>2. ApplySaves(t) => saved' \in SUBSET Nodes
    BY <2>1 DEF ApplySaves, TakeChanged, Claimed, Shapes, Nodes
  <2>3. QED
    BY <1>3, <2>1, <2>2 DEF DeploySaves, ApplyDiscards, ApplySaves, SaveTopology, Shapes
<1>5. QED
  BY <1>1, <1>2, <1>3, <1>4, MoveDoes

\* An operation that ends, with its journal or without.
LEMMA HandleEndsDoes ==
    ASSUME IInv, NEW t \in Tasks, UNCHANGED mishaps,
           ApplyNotSaved(t) \/ Finish(t) \/ Refused(t) \/ Reaped(t)
    PROVE  Good(t) /\ Tidy(t)
<1>1. /\ Leave(t) /\ UNCHANGED <<live, tags, made, saved, topo>> /\ journal' \in {journal, Absent}
      /\ pc[t] \in {"merging", "saving", "saved", "loaded", "reaped"}
  BY DEF ApplyNotSaved, Finish, Refused, Reaped, host, disk
<1>2. Shapes' /\ AtHand(t) = {}
  BY <1>1, StateIs DEF Shapes, AtHand
<1>3. QED
  BY <1>1, <1>2, Left, TidyFrom DEF Good

-----------------------------------------------------------------------------
\* Handles

\* A handle loads the saved state.
LEMMA LoadDoes ==
    ASSUME IInv, NEW t \in Tasks, Load(t), UNCHANGED mishaps
    PROVE  Good(t) /\ Tidy(t)
<1>1. PICK op \in {"apply", "destroy"} : me' = [me EXCEPT ![t] = [Blank EXCEPT !.op = op, !.nodes = saved]]
  BY DEF Load
<1>2. PICK s \in SUBSET Nodes : s = saved
  BY StateIs DEF Load, Shapes
<1>3. PICK r \in Locals : r = Blank
  BY BlankIs
<1>4. PICK l : l = [r EXCEPT !.op = op, !.nodes = s]
  OBVIOUS
<1>5. l \in Locals
  BY <1>4 DEF Locals
<1>6. me' = [me EXCEPT ![t] = l] /\ Goto(t, "loading")
  BY <1>1, <1>2, <1>3, <1>4 DEF Load
<1>7. "loading" \in Places /\ "loading" \notin Held /\ "loading" \notin Creating /\ pc[t] \notin Held
  BY DEF Places, Held, Creating, Load
<1>8. Frame(t) /\ pc'[t] = "loading"
  BY <1>5, <1>6, <1>7, Became
<1>9. Shapes' /\ live' = live /\ tags' = tags /\ AtHand(t) = {} /\ holder' = holder
  BY Untouched DEF Load, AtHand
<1>10. LockMoves(t) /\ FitsAt(t)' /\ UndoableBy(t)'
  BY <1>7, <1>8, <1>9 DEF LockMoves, FitsAt, UndoableBy
<1>11. QED
  BY <1>8, <1>9, <1>10, TidyFrom DEF Good

\* A handle loads the topology after the state.
LEMMA LoadTopologyDoes ==
    ASSUME IInv, NEW t \in Tasks, LoadTopology(t), UNCHANGED mishaps
    PROVE  Good(t) /\ Tidy(t)
<1>1. Shapes' /\ live' = live /\ tags' = tags /\ AtHand(t) = {}
  BY Untouched DEF LoadTopology, AtHand
<1>2. CASE Leave(t)
  BY <1>1, <1>2, Left, TidyFrom DEF Good
<1>3. CASE topo # Absent /\ me' = [me EXCEPT ![t].topo = topo] /\ Goto(t, "loaded") /\ UNCHANGED holder
  <2>1. PICK s \in SUBSET Nodes : s = topo
    BY <1>3, StateIs DEF Shapes
  <2>2. PICK q \in Locals : q = me[t]
    BY StateIs
  <2>3. PICK l : l = [q EXCEPT !.topo = s]
    OBVIOUS
  <2>4. l \in Locals
    BY <2>3 DEF Locals
  <2>5. me' = [me EXCEPT ![t] = l]
    BY <1>3, <2>1, <2>2, <2>3
  <2>6. "loaded" \in Places /\ "loaded" \notin Held /\ "loaded" \notin Creating /\ pc[t] \notin Held
    BY DEF Places, Held, Creating, LoadTopology
  <2>7. Frame(t) /\ pc'[t] = "loaded"
    BY <1>3, <2>4, <2>5, <2>6, Became
  <2>8. LockMoves(t) /\ FitsAt(t)' /\ UndoableBy(t)'
    BY <1>3, <2>6, <2>7 DEF LockMoves, FitsAt, UndoableBy
  <2>9. QED
    BY <1>1, <2>7, <2>8, TidyFrom DEF Good
<1>4. QED
  BY <1>2, <1>3 DEF LoadTopology

\* An apply takes the lock and plans from what its handle loaded.
LEMMA ApplyDoes ==
    ASSUME IInv, NEW t \in Tasks, Apply(t), UNCHANGED mishaps
    PROVE  Good(t) /\ Tidy(t)
<1>1. PICK want \in SUBSET Nodes :
        me' = [me EXCEPT ![t] =
            [me[t] EXCEPT !.want = want, !.env = me[t].nodes, !.before = live,
                          !.rem = me[t].topo \ want, !.add = want \ me[t].topo]]
  BY DEF Apply
<1>2. PICK q \in Locals : q = me[t]
  BY StateIs
<1>3. PICK b \in SUBSET Resources : b = live
  BY StateIs DEF Shapes
<1>4. PICK w \in SUBSET Resources, nodes \in SUBSET Nodes, rem \in SUBSET Nodes, add \in SUBSET Nodes :
        w = want /\ nodes = q.nodes /\ rem = q.topo \ want /\ add = want \ q.topo
  BY DEF Locals, Resources
<1>5. PICK l : l = [q EXCEPT !.want = w, !.env = nodes, !.before = b, !.rem = rem, !.add = add]
  OBVIOUS
<1>6. l \in Locals /\ l.before = b
  BY <1>5 DEF Locals
<1>7. me' = [me EXCEPT ![t] = l] /\ Goto(t, "execute")
  BY <1>1, <1>2, <1>3, <1>4, <1>5 DEF Apply
<1>8. "execute" \in Places /\ "execute" \in Held
  BY DEF Places, Held
<1>9. Frame(t) /\ pc'[t] = "execute" /\ me'[t] = l
  BY <1>6, <1>7, <1>8, Became
<1>10. Shapes' /\ live' = live /\ tags' = tags /\ AtHand(t) = {}
  BY Untouched DEF Apply, AtHand
<1>11. LockMoves(t)
  BY <1>8, <1>9 DEF LockMoves, Apply
<1>12. FitsAt(t)' /\ UndoableBy(t)'
  BY <1>3, <1>6, <1>9, <1>10 DEF FitsAt, UndoableBy
<1>13. QED
  BY <1>9, <1>10, <1>11, <1>12, TidyFrom DEF Good

\* A destroy takes the lock.
LEMMA DestroyDoes ==
    ASSUME IInv, NEW t \in Tasks, Destroy(t), UNCHANGED mishaps
    PROVE  Good(t) /\ Tidy(t)
<1>1. PICK q \in Locals, r \in Locals : q = me[t] /\ r = Blank
  BY StateIs, BlankIs
<1>2. PICK l : l = [r EXCEPT !.op = "destroy", !.rem = q.nodes]
  OBVIOUS
<1>3. l \in Locals
  BY <1>2 DEF Locals
<1>4. me' = [me EXCEPT ![t] = l] /\ Goto(t, "destroy")
  BY <1>1, <1>2 DEF Destroy
<1>5. "destroy" \in Places /\ "destroy" \in Held /\ "destroy" \notin Creating
  BY DEF Places, Held, Creating
<1>6. Frame(t) /\ pc'[t] = "destroy"
  BY <1>3, <1>4, <1>5, Became
<1>7. live' \subseteq live /\ UNCHANGED <<tags, made, saved, topo, journal>> /\ AtHand(t) = {}
  BY DEF Destroy, disk, AtHand
<1>8. Shapes' /\ LockMoves(t)
  BY <1>5, <1>6, <1>7, StateIs DEF Shapes, LockMoves, Destroy
<1>9. FitsAt(t)' /\ UndoableBy(t)'
  BY <1>5, <1>6 DEF FitsAt, UndoableBy
<1>10. QED
  BY <1>6, <1>7, <1>8, <1>9, TidyFrom DEF Good

\* A destroy removes a node, or fails to and says so.
LEMMA DestroyNodeDoes ==
    ASSUME IInv, NEW t \in Tasks, DestroyNode(t)
    PROVE  Good(t) /\ Tidy(t)
<1>1. pc[t] = "destroy" /\ pc[t] \notin Creating /\ UNCHANGED <<holder, made, saved, topo, journal, pc>>
  BY DEF DestroyNode, Creating, disk
<1>2. PICK n \in me[t].rem : Delete(t, n, [me[t] EXCEPT !.rem = @ \ {n}]) /\ tags' = tags \ {n}
  BY DEF DestroyNode
<1>3. PICK q \in Locals : q = me[t]
  BY StateIs
<1>4. n \in Resources
  BY <1>2, <1>3 DEF Locals, Resources
<1>5. PICK l : l = [q EXCEPT !.rem = @ \ {n}]
  OBVIOUS
<1>6. l \in Locals
  BY <1>5 DEF Locals
<1>7. Delete(t, n, l)
  BY <1>2, <1>3, <1>5
<1>8. /\ me' \in [Tasks -> Locals] /\ \A u \in Tasks \ {t} : me'[u] = me[u]
      /\ \/ live' = live \ {n} /\ mishaps' = mishaps
         \/ live' = live /\ mishaps < MaxMishaps /\ mishaps' = mishaps + 1
  BY <1>4, <1>6, <1>7, DeleteDoes
<1>9. Frame(t)
  BY <1>1, <1>8, StateIs DEF Frame
<1>10. Shapes' /\ LockMoves(t) /\ AtHand(t) = {}
  BY <1>1, <1>2, <1>8, StateIs DEF Shapes, LockMoves, AtHand
<1>11. FitsAt(t)' /\ UndoableBy(t)'
  BY <1>1 DEF FitsAt, UndoableBy
<1>12. QED
  BY <1>2, <1>4, <1>8, <1>9, <1>10, <1>11, DeleteIsTidy DEF Good

\* All nodes were tried: the directory is next.
LEMMA DestroyedDoes ==
    ASSUME IInv, NEW t \in Tasks, Destroyed(t), UNCHANGED mishaps
    PROVE  Good(t) /\ Tidy(t)
<1>1. /\ pc[t] = "destroy" /\ Goto(t, "remove_dir") /\ UNCHANGED <<me, holder, host, disk>>
      /\ "remove_dir" \in Places /\ "remove_dir" \in Held /\ "remove_dir" \notin Creating /\ pc[t] \in Held
  BY DEF Destroyed, Places, Held, Creating
<1>2. Shapes' /\ live' = live /\ tags' = tags
  BY <1>1, Untouched
<1>3. QED
  BY <1>1, <1>2, MoveDoes

\* The directory's files go one by one, the journal among them.
LEMMA RemoveDirDoes ==
    ASSUME IInv, NEW t \in Tasks, RemoveDir(t), UNCHANGED mishaps
    PROVE  Good(t) /\ Tidy(t)
<1>1. /\ pc[t] = "remove_dir" /\ pc[t] \notin Creating /\ UNCHANGED <<holder, live, tags, made, pc, me>>
      /\ saved' \in {saved, Absent} /\ topo' \in {topo, Absent} /\ journal' \in {journal, Absent}
  BY DEF RemoveDir, host, Creating
<1>2. Frame(t) /\ Shapes' /\ LockMoves(t) /\ AtHand(t) = {}
  BY <1>1, StateIs DEF Frame, Shapes, LockMoves, AtHand
<1>3. FitsAt(t)' /\ UndoableBy(t)'
  BY <1>1 DEF FitsAt, UndoableBy
<1>4. QED
  BY <1>1, <1>2, <1>3, TidyFrom DEF Good

\* The directory is gone: the lock is free, and a reap goes on.
LEMMA RemovedDoes ==
    ASSUME IInv, NEW t \in Tasks, Removed(t), UNCHANGED mishaps
    PROVE  Good(t) /\ Tidy(t)
<1>1. Shapes' /\ live' = live /\ tags' = tags /\ AtHand(t) = {}
  BY Untouched DEF Removed, AtHand
<1>2. CASE Leave(t)
  BY <1>1, <1>2, Left, TidyFrom DEF Good
<1>3. CASE holder' = Nobody /\ Goto(t, "reap_claims") /\ UNCHANGED me
  <2>1. "reap_claims" \in Places /\ "reap_claims" \notin Held /\ "reap_claims" \notin Creating
        /\ pc[t] \in Held
    BY DEF Places, Held, Creating, Removed
  <2>2. Frame(t) /\ pc'[t] = "reap_claims"
    BY <1>3, <2>1, Gone
  <2>3. LockMoves(t) /\ FitsAt(t)' /\ UndoableBy(t)'
    BY <1>3, <2>1, <2>2, StateIs DEF LockMoves, FitsAt, UndoableBy
  <2>4. QED
    BY <1>1, <2>2, <2>3, TidyFrom DEF Good
<1>4. QED
  BY <1>2, <1>3 DEF Removed

-----------------------------------------------------------------------------
\* The reaper

\* Its places without the lock.
Looking ==
    {"reap_pending", "reap_filter", "reap_lock", "reap_claims", "reap_list", "reap_claimed",
     "reap_state", "reap_busy", "reap_group", "reap_unowned", "reaped"}

\* A reap that looks holds no lock and creates nothing.
LEMMA LookingIs == Looking \subseteq Places /\ Looking \cap Held = {} /\ Looking \cap Creating = {}
BY DEF Looking, Places, Held, Creating

\* A step that looks, and may note what it saw or release a claim.
LEMMA LookDoes ==
    ASSUME IInv, NEW t \in Tasks, Frame(t), pc[t] \in Looking \cup {"idle"}, pc'[t] \in Looking,
           UNCHANGED <<holder, tags, made, disk, mishaps>>, live' \subseteq live
    PROVE  Good(t) /\ Tidy(t)
<1>1. /\ pc'[t] \notin Held /\ pc'[t] \notin Creating /\ pc[t] \notin Held /\ AtHand(t) = {}
      /\ pc'[t] \notin {"allocated", "claiming", "created", "recorded"}
  BY DEF Held, Creating, Looking, AtHand
<1>2. Shapes' /\ LockMoves(t)
  BY <1>1, StateIs DEF Shapes, LockMoves, disk
<1>3. FitsAt(t)' /\ UndoableBy(t)'
  BY <1>1 DEF FitsAt, UndoableBy
<1>4. QED
  BY <1>1, <1>2, <1>3, TidyFrom DEF Good

\* The locals of a step that notes what is to be deleted.
LEMMA RemBecomes ==
    ASSUME IInv, NEW t \in Tasks, NEW p \in Places, NEW s \in SUBSET Nodes,
           me' = [me EXCEPT ![t].rem = s], Goto(t, p)
    PROVE  /\ Frame(t) /\ pc'[t] = p /\ me'[t].rem = s /\ me'[t].op = me[t].op
           /\ me'[t].failed = me[t].failed
<1>1. PICK q \in Locals : q = me[t]
  BY StateIs
<1>2. PICK l : l = [q EXCEPT !.rem = s]
  OBVIOUS
<1>3. l \in Locals /\ l.rem = s /\ l.op = q.op /\ l.failed = q.failed
  BY <1>2 DEF Locals
<1>4. me' = [me EXCEPT ![t] = l]
  BY <1>1, <1>2
<1>5. QED
  BY <1>1, <1>3, <1>4, Became

\* A reap begins.
LEMMA ReapDoes ==
    ASSUME IInv, NEW t \in Tasks, Reap(t), UNCHANGED mishaps
    PROVE  Good(t) /\ Tidy(t) /\ pc'[t] = "reap_pending" /\ me'[t].op = "reap" /\ (me'[t].known <=> saved # Absent)
<1>1. PICK k \in BOOLEAN : k <=> saved # Absent
  OBVIOUS
<1>2. PICK r \in Locals : r = Blank
  BY BlankIs
<1>3. PICK l : l = [r EXCEPT !.op = "reap", !.known = k]
  OBVIOUS
<1>4. l \in Locals /\ l.op = "reap" /\ l.known = k
  BY <1>3 DEF Locals
<1>5. me' = [me EXCEPT ![t] = l] /\ Goto(t, "reap_pending")
  BY <1>1, <1>2, <1>3 DEF Reap
<1>6. "reap_pending" \in Looking /\ "reap_pending" \in Places
  BY DEF Looking, Places
<1>7. Frame(t) /\ pc'[t] = "reap_pending" /\ me'[t] = l
  BY <1>4, <1>5, <1>6, Became
<1>8. QED
  BY <1>1, <1>4, <1>6, <1>7, LookDoes DEF Reap, host

\* A step that looks and notes nothing.
LEMMA PassDoes ==
    ASSUME IInv, NEW t \in Tasks, UNCHANGED mishaps,
           ReapPending(t) \/ ReapFilter(t) \/ ReapClaims(t)
    PROVE  Good(t) /\ Tidy(t) /\ me'[t] = me[t]
<1>1. PICK p \in {"reap_claims", "reap_filter", "reap_lock", "reap_list"} : Goto(t, p)
  BY DEF ReapPending, ReapFilter, ReapClaims
<1>2. p \in Looking /\ p \in Places /\ pc[t] \in Looking
  BY DEF Looking, Places, ReapPending, ReapFilter, ReapClaims
<1>3. UNCHANGED <<me, holder, tags, made, disk>> /\ live' \subseteq live
  BY DEF ReapPending, ReapFilter, ReapClaims, host
<1>4. Frame(t) /\ pc'[t] = p /\ me'[t] = me[t]
  BY <1>1, <1>2, <1>3, Gone
<1>5. QED
  BY <1>2, <1>3, <1>4, LookDoes

\* The reap lists what it may take for debris.
LEMMA ReapListDoes ==
    ASSUME IInv, NEW t \in Tasks, ReapList(t), UNCHANGED mishaps
    PROVE  /\ Good(t) /\ Tidy(t) /\ me'[t].rem = live \cap tags
           /\ me'[t].op = me[t].op /\ me'[t].failed = me[t].failed
           /\ pc'[t] = IF me[t].known THEN "reap_claimed" ELSE "reap_state"
<1>1. PICK q \in Locals : q = me[t]
  BY StateIs
<1>2. PICK s \in SUBSET Nodes : s = live \cap tags
  BY StateIs DEF Shapes, Nodes
<1>3. PICK l : l = [q EXCEPT !.rem = s, !.known = FALSE]
  OBVIOUS
<1>4. l \in Locals /\ l.rem = s /\ l.op = q.op /\ l.failed = q.failed
  BY <1>3 DEF Locals
<1>5. PICK p \in {"reap_claimed", "reap_state"} :
        p = (IF me[t].known THEN "reap_claimed" ELSE "reap_state") /\ Goto(t, p)
  BY DEF ReapList
<1>6. me' = [me EXCEPT ![t] = l]
  BY <1>1, <1>2, <1>3 DEF ReapList
<1>7. p \in Looking /\ p \in Places /\ pc[t] \in Looking
  BY DEF Looking, Places, ReapList
<1>8. Frame(t) /\ pc'[t] = p /\ me'[t] = l
  BY <1>4, <1>5, <1>6, <1>7, Became
<1>9. Good(t) /\ Tidy(t)
  BY <1>7, <1>8, LookDoes DEF ReapList, host
<1>10. QED
  BY <1>1, <1>2, <1>4, <1>5, <1>8, <1>9

\* What the labs' states and locks take off the list.
LEMMA ReapKeepsDoes ==
    ASSUME IInv, NEW t \in Tasks, UNCHANGED mishaps,
           ReapClaimed(t) \/ ReapState(t) \/ ReapBusy(t)
    PROVE  /\ Good(t) /\ Tidy(t) /\ me'[t].op = me[t].op /\ me'[t].failed = me[t].failed
           /\ pc'[t] = IF ReapState(t) /\ saved = Absent THEN "reap_busy" ELSE "reap_group"
           /\ saved # Absent => me[t].rem \subseteq me'[t].rem \cup saved \/ ~ReapClaimed(t)
           /\ saved = Absent /\ ReapState(t) => me'[t].rem = me[t].rem
           /\ holder = Nobody /\ ReapBusy(t) => me'[t].rem = me[t].rem
<1>1. me[t].rem \in SUBSET Nodes
  BY StateIs DEF Locals
<1>2. /\ {"reap_busy", "reap_group"} \subseteq Looking \cap Places /\ pc[t] \in Looking
      /\ UNCHANGED <<holder, tags, made, disk>> /\ live' = live
  BY DEF Looking, Places, ReapClaimed, ReapState, ReapBusy, host
<1>3. CASE ReapClaimed(t)
  <2>1. PICK s \in SUBSET Nodes : s = IF saved = Absent THEN {} ELSE me[t].rem \ saved
    BY <1>1
  <2>2. me' = [me EXCEPT ![t].rem = s] /\ Goto(t, "reap_group") /\ ~ReapState(t) /\ ~ReapBusy(t)
    BY <1>3, <2>1 DEF ReapClaimed, ReapState, ReapBusy
  <2>3. /\ Frame(t) /\ pc'[t] = "reap_group" /\ me'[t].rem = s /\ me'[t].op = me[t].op
        /\ me'[t].failed = me[t].failed
    BY <1>2, <2>2, RemBecomes
  <2>4. Good(t) /\ Tidy(t)
    BY <1>2, <2>3, LookDoes
  <2>5. QED
    BY <2>1, <2>2, <2>3, <2>4
<1>4. CASE ReapBusy(t)
  <2>1. PICK s \in SUBSET Nodes : s = IF holder = Nobody THEN me[t].rem ELSE {}
    BY <1>1
  <2>2. me' = [me EXCEPT ![t].rem = s] /\ Goto(t, "reap_group") /\ ~ReapState(t) /\ ~ReapClaimed(t)
    BY <1>4, <2>1 DEF ReapClaimed, ReapState, ReapBusy
  <2>3. /\ Frame(t) /\ pc'[t] = "reap_group" /\ me'[t].rem = s /\ me'[t].op = me[t].op
        /\ me'[t].failed = me[t].failed
    BY <1>2, <2>2, RemBecomes
  <2>4. Good(t) /\ Tidy(t)
    BY <1>2, <2>3, LookDoes
  <2>5. QED
    BY <2>1, <2>2, <2>3, <2>4
<1>5. CASE ReapState(t)
  <2>1. ~ReapClaimed(t) /\ ~ReapBusy(t)
    BY <1>5 DEF ReapClaimed, ReapState, ReapBusy
  <2>2. CASE saved = Absent
    <3>1. Goto(t, "reap_busy") /\ UNCHANGED me
      BY <1>5, <2>2 DEF ReapState
    <3>2. Frame(t) /\ pc'[t] = "reap_busy" /\ me'[t] = me[t]
      BY <1>2, <3>1, Gone
    <3>3. Good(t) /\ Tidy(t)
      BY <1>2, <3>2, LookDoes
    <3>4. QED
      BY <1>5, <2>1, <2>2, <3>2, <3>3
  <2>3. CASE saved # Absent
    <3>1. PICK s \in SUBSET Nodes : s = {}
      OBVIOUS
    <3>2. Goto(t, "reap_group") /\ me' = [me EXCEPT ![t].rem = s]
      BY <1>5, <2>3, <3>1 DEF ReapState
    <3>3. Frame(t) /\ pc'[t] = "reap_group" /\ me'[t].op = me[t].op /\ me'[t].failed = me[t].failed
      BY <1>2, <3>2, RemBecomes
    <3>4. Good(t) /\ Tidy(t)
      BY <1>2, <3>3, LookDoes
    <3>5. QED
      BY <2>1, <2>3, <3>3, <3>4
  <2>4. QED
    BY <2>2, <2>3
<1>6. QED
  BY <1>3, <1>4, <1>5

\* The reap groups what it found by owner tag.
LEMMA ReapGroupDoes ==
    ASSUME IInv, NEW t \in Tasks, ReapGroup(t), UNCHANGED mishaps
    PROVE  /\ Good(t) /\ Tidy(t) /\ pc'[t] = "reap_unowned" /\ me'[t].rem = me[t].rem \cap tags
           /\ me'[t].op = me[t].op /\ me'[t].failed = me[t].failed
<1>1. PICK q \in Locals : q = me[t]
  BY StateIs
<1>2. PICK a \in SUBSET Nodes, s \in SUBSET Nodes : a = q.rem \ tags /\ s = q.rem \cap tags
  BY DEF Locals
<1>3. PICK l : l = [q EXCEPT !.add = a, !.rem = s]
  OBVIOUS
<1>4. l \in Locals /\ l.rem = s /\ l.op = q.op /\ l.failed = q.failed
  BY <1>3 DEF Locals
<1>5. me' = [me EXCEPT ![t] = l] /\ Goto(t, "reap_unowned")
  BY <1>1, <1>2, <1>3 DEF ReapGroup
<1>6. "reap_unowned" \in Looking /\ "reap_unowned" \in Places /\ pc[t] \in Looking
  BY DEF Looking, Places, ReapGroup
<1>7. Frame(t) /\ pc'[t] = "reap_unowned" /\ me'[t] = l
  BY <1>4, <1>5, <1>6, Became
<1>8. Good(t) /\ Tidy(t)
  BY <1>6, <1>7, LookDoes DEF ReapGroup, host
<1>9. QED
  BY <1>1, <1>2, <1>4, <1>7, <1>8

\* The reap replays the journal of a lab that nobody holds.
LEMMA ReapJournalDoes ==
    ASSUME IInv, NEW t \in Tasks, ReapJournal(t), UNCHANGED mishaps
    PROVE  /\ Good(t) /\ Tidy(t) /\ me'[t].op = me[t].op
           /\ pc'[t] = IF holder = Nobody /\ journal # Absent THEN "unwind" ELSE "reap_claims"
           /\ pc'[t] = "unwind" => me'[t].after = "reaped"
           /\ me'[t].known = me[t].known
<1>1. /\ {"reap_claims", "unwind"} \subseteq Places /\ "unwind" \in Held /\ pc[t] \in Looking
      /\ "reap_claims" \in Looking /\ pc[t] \notin Held
  BY DEF Looking, Places, Held, ReapJournal
<1>2. Shapes' /\ live' = live /\ tags' = tags /\ AtHand(t) = {}
  BY Untouched DEF ReapJournal, AtHand
<1>3. CASE holder = Nobody /\ journal # Absent
  <2>1. PICK q \in Locals : q = me[t]
    BY StateIs
  <2>2. PICK s \in Seq(Resources) : s = journal
    BY <1>3, StateIs DEF Shapes
  <2>3. PICK b \in SUBSET Resources : b = live
    BY StateIs DEF Shapes
  <2>4. PICK l : l = [q EXCEPT !.entries = s, !.after = "reaped", !.before = b]
    OBVIOUS
  <2>5. l \in Locals /\ l.before = b /\ l.after = "reaped" /\ l.op = q.op /\ l.known = q.known
    BY <2>4 DEF Locals
  <2>6. me' = [me EXCEPT ![t] = l] /\ Goto(t, "unwind") /\ holder' = t
    BY <1>3, <2>1, <2>2, <2>3, <2>4 DEF ReapJournal
  <2>7. Frame(t) /\ pc'[t] = "unwind" /\ me'[t] = l
    BY <1>1, <2>5, <2>6, Became
  <2>8. LockMoves(t) /\ FitsAt(t)' /\ UndoableBy(t)'
    BY <1>1, <1>2, <1>3, <2>3, <2>5, <2>6, <2>7 DEF LockMoves, FitsAt, UndoableBy
  <2>9. QED
    BY <1>2, <1>3, <2>1, <2>5, <2>7, <2>8, TidyFrom DEF Good
<1>4. CASE ~(holder = Nobody /\ journal # Absent)
  <2>1. Goto(t, "reap_claims") /\ UNCHANGED <<holder, me, host, disk>>
    BY <1>4 DEF ReapJournal
  <2>2. Frame(t) /\ pc'[t] = "reap_claims" /\ me'[t] = me[t]
    BY <1>1, <2>1, Gone
  <2>3. Good(t) /\ Tidy(t)
    BY <1>1, <1>2, <2>1, <2>2, LookDoes DEF host
  <2>4. QED
    BY <1>4, <2>2, <2>3
<1>5. QED
  BY <1>3, <1>4

\* The delete of one namespace: its tag goes only with it.
LEMMA ReapNamespaceDoes ==
    ASSUME IInv, NEW t \in Tasks, NEW n \in Resources, NEW l \in Locals, ReapNamespace(t, n, l), UNCHANGED pc
    PROVE  /\ Frame(t)
           /\ \/ me'[t] = l /\ live' = live \ {n} /\ tags' \in {tags, tags \ {n}} /\ mishaps' = mishaps
              \/ /\ me'[t].failed /\ me'[t].op = l.op /\ live' = live /\ tags' = tags
                 /\ mishaps < MaxMishaps /\ mishaps' = mishaps + 1
<1>1. pc \in [Tasks -> Places] /\ me \in [Tasks -> Locals]
  BY StateIs
<1>2. CASE n \notin live /\ me' = [me EXCEPT ![t] = l] /\ UNCHANGED <<live, tags, mishaps>>
  BY <1>1, <1>2 DEF Frame
<1>3. CASE n \in live /\ Delete(t, n, l) /\ tags' = tags \ (live \ live')
  <2>1. /\ me' \in [Tasks -> Locals] /\ \A u \in Tasks \ {t} : me'[u] = me[u]
        /\ \/ me'[t] = l /\ live' = live \ {n} /\ mishaps' = mishaps
           \/ /\ me'[t].failed /\ live' = live /\ mishaps < MaxMishaps /\ mishaps' = mishaps + 1
              /\ me'[t] = [l EXCEPT !.failed = TRUE]
    BY <1>3, DeleteDoes
  <2>2. [l EXCEPT !.failed = TRUE].op = l.op
    BY DEF Locals
  <2>3. QED
    BY <1>1, <1>3, <2>1, <2>2 DEF Frame
<1>4. QED
  BY <1>2, <1>3 DEF ReapNamespace

\* The reap deletes a namespace, or fails to and says so.
LEMMA ReapDeletesDoes ==
    ASSUME IInv, NEW t \in Tasks, ReapUnowned(t) \/ ReapOwned(t)
    PROVE  /\ Good(t) /\ Tidy(t) /\ pc'[t] = pc[t] /\ me'[t].op = me[t].op /\ live' \subseteq live
           /\ tags' \subseteq tags
           /\ ~me'[t].failed => ~me[t].failed /\ live' \cap me[t].rem \subseteq me'[t].rem
<1>1. PICK q \in Locals : q = me[t]
  BY StateIs
<1>2. /\ pc[t] \in {"reap_unowned", "reap_owned"} /\ pc[t] \notin Creating /\ AtHand(t) = {}
      /\ UNCHANGED <<holder, made, disk, pc>>
  BY DEF ReapUnowned, ReapOwned, Creating, Held, AtHand
<1>3. PICK n \in Nodes, l \in Locals : /\ ReapNamespace(t, n, l) /\ l.op = q.op /\ l.failed = q.failed
                                       /\ q.rem \subseteq l.rem \cup {n}
  <2>1. CASE ReapUnowned(t)
    <3>1. PICK n \in q.add : ReapNamespace(t, n, [me[t] EXCEPT !.add = @ \ {n}])
      BY <1>1, <2>1 DEF ReapUnowned
    <3>2. PICK l : l = [q EXCEPT !.add = @ \ {n}]
      OBVIOUS
    <3>3. l \in Locals /\ l.op = q.op /\ l.failed = q.failed /\ l.rem = q.rem /\ n \in Nodes
      BY <3>1, <3>2 DEF Locals
    <3>4. ReapNamespace(t, n, l)
      BY <1>1, <3>1, <3>2
    <3>5. QED
      BY <3>3, <3>4
  <2>2. CASE ReapOwned(t)
    <3>1. PICK n \in q.rem : ReapNamespace(t, n, [me[t] EXCEPT !.rem = @ \ {n}])
      BY <1>1, <2>2 DEF ReapOwned
    <3>2. PICK l : l = [q EXCEPT !.rem = @ \ {n}]
      OBVIOUS
    <3>3. l \in Locals /\ l.op = q.op /\ l.failed = q.failed /\ l.rem = q.rem \ {n} /\ n \in Nodes
      BY <3>1, <3>2 DEF Locals
    <3>4. ReapNamespace(t, n, l)
      BY <1>1, <3>1, <3>2
    <3>5. QED
      BY <3>3, <3>4
  <2>3. QED
    BY <2>1, <2>2
<1>4. n \in Resources
  BY DEF Resources
<1>5. /\ Frame(t)
      /\ \/ me'[t] = l /\ live' = live \ {n} /\ tags' \in {tags, tags \ {n}} /\ mishaps' = mishaps
         \/ /\ me'[t].failed /\ me'[t].op = l.op /\ live' = live /\ tags' = tags
            /\ mishaps < MaxMishaps /\ mishaps' = mishaps + 1
  BY <1>2, <1>3, <1>4, ReapNamespaceDoes
<1>6. Shapes' /\ LockMoves(t)
  BY <1>2, <1>5, StateIs DEF Shapes, LockMoves, disk
<1>7. FitsAt(t)' /\ UndoableBy(t)'
  BY <1>2 DEF FitsAt, UndoableBy
<1>8. Tidy(t)
  BY <1>2, <1>4, <1>5 DEF Tidy, LooseAt
<1>9. QED
  BY <1>1, <1>2, <1>3, <1>5, <1>6, <1>7, <1>8 DEF Good

\* The reap locks the lab that owns debris, or passes it over, and lets go.
LEMMA ReapOwnerDoes ==
    ASSUME IInv, NEW t \in Tasks, UNCHANGED mishaps, ReapOwner(t) \/ ReapRelease(t)
    PROVE  Good(t) /\ Tidy(t) /\ me'[t] = me[t]
<1>1. PICK p \in {"reap_owned", "reaped"} : Goto(t, p) /\ UNCHANGED me
  BY DEF ReapOwner, ReapRelease
<1>2. p \in Places /\ p \notin Creating /\ (p \in Held <=> p = "reap_owned")
  BY DEF Places, Held, Creating
<1>3. Frame(t) /\ pc'[t] = p /\ me'[t] = me[t]
  BY <1>1, <1>2, Gone
<1>4. Shapes' /\ live' = live /\ tags' = tags /\ AtHand(t) = {}
  BY Untouched DEF ReapOwner, ReapRelease, AtHand
<1>5. LockMoves(t)
  <2>1. CASE ReapOwner(t)
    BY <1>2, <1>3, <2>1, StateIs DEF ReapOwner, Goto, LockMoves, Held
  <2>2. CASE ReapRelease(t)
    BY <1>2, <1>3, <2>2, StateIs DEF ReapRelease, Goto, LockMoves, Held
  <2>3. QED
    BY <2>1, <2>2
<1>6. FitsAt(t)' /\ UndoableBy(t)'
  BY <1>2, <1>3 DEF FitsAt, UndoableBy
<1>7. QED
  BY <1>3, <1>4, <1>5, <1>6, TidyFrom DEF Good

-----------------------------------------------------------------------------
\* Every step

\* Every step of a task keeps its invariants and loses no namespace untold.
LEMMA StepDoes ==
    ASSUME IInv, NEW t \in Tasks, Step(t)
    PROVE  Good(t) /\ Tidy(t)
<1>1. CASE DeployStep(t) /\ UNCHANGED mishaps
  BY <1>1, DeployDoes, AllocateDoes, AllocateFailsDoes, RecordSubnetsDoes, RecordClaimsDoes, ClaimDoes,
     SavingDoes DEF DeployStep
<1>2. CASE ExecuteStep(t) /\ UNCHANGED mishaps
  BY <1>2, CreateDoes, RecordNodeDoes, TagDoes, StartUnwindDoes, UnwoundDoes, SavingDoes, HandleEndsDoes
     DEF ExecuteStep
<1>3. CASE HandleStep(t) /\ UNCHANGED mishaps
  BY <1>3, LoadDoes, LoadTopologyDoes, HandleEndsDoes, ApplyDoes, SavingDoes, DestroyDoes, DestroyedDoes,
     RemoveDirDoes, RemovedDoes DEF HandleStep
<1>4. CASE ReapStep(t) /\ UNCHANGED mishaps
  BY <1>4, ReapDoes, PassDoes, ReapJournalDoes, ReapListDoes, ReapKeepsDoes, ReapGroupDoes, ReapOwnerDoes,
     HandleEndsDoes DEF ReapStep
<1>5. CASE DeletingStep(t)
  BY <1>5, RemoveNodeDoes, UnwindDoes, DestroyNodeDoes, ReapDeletesDoes DEF DeletingStep
<1>6. QED
  BY <1>1, <1>2, <1>3, <1>4, <1>5, KillDoes DEF Step

\* The inductive invariant of a lab's life, for any tasks, operations and
\* faults: the lock is with the run at work, and a run that creates has
\* journaled all that it created but for its last.
THEOREM LifecycleInvariant == Spec => []IInv
<1>1. Init => IInv
  <2>1. SUFFICES ASSUME Init PROVE IInv
    OBVIOUS
  <2>2. TypeOK
    BY <2>1, BlankIs, LifecycleConstants DEF Init, TypeOK, Places
  <2>3. HolderIsAtWork
    BY <2>1, LifecycleConstants DEF Init, HolderIsAtWork, Held
  <2>4. \A t \in Tasks : FitsAt(t) /\ UndoableBy(t)
    BY <2>1 DEF Init, FitsAt, UndoableBy, Creating, Held
  <2>5. QED
    BY <2>2, <2>3, <2>4 DEF IInv
<1>2. IInv /\ [Next]_vars => IInv'
  <2>1. SUFFICES ASSUME IInv, [Next]_vars PROVE IInv'
    OBVIOUS
  <2>2. CASE UNCHANGED vars
    BY <2>1, <2>2 DEF vars, host, disk, IInv, TypeOK, HolderIsAtWork, FitsAt, UndoableBy
  <2>3. ASSUME NEW t \in Tasks, Step(t), quiet' \in Tasks \cup {Nobody}, Spills(t) PROVE IInv'
    BY <2>1, <2>3, StepDoes, GoodKeeps
  <2>4. QED
    BY <2>1, <2>2, <2>3 DEF Next
<1>3. QED
  BY <1>1, <1>2, PTL DEF Spec

\* A rollback removes all that its run created (RollbackComplete), in any
\* instance: when the journal is empty, what lives was there before.
THEOREM RollbackIsComplete == Spec => []RollbackComplete
<1>1. IInv => RollbackComplete
  <2>1. Range(<<>>) = {}
    BY DEF Range
  <2>2. "unwind" \in Creating
    BY DEF Creating, Held
  <2>3. QED
    BY <2>1, <2>2 DEF IInv, UndoableBy, RollbackComplete
<1>2. QED
  BY <1>1, LifecycleInvariant, PTL

\* Whatever runs interleave, fail or panic, only a kill or a delete that
\* failed may lose a namespace, and only one each (NamespacesTracked): those
\* without a tag, but for the one at hand, are no more than the mishaps.
THEOREM NamespacesStayTracked == Spec => []NamespacesTracked
<1>1. Init => LooseAreFew
  <2>1. SUFFICES ASSUME Init PROVE LooseAreFew
    OBVIOUS
  <2>2. Loose = {} /\ mishaps = 0
    BY <2>1 DEF Init, Loose
  <2>3. QED
    BY <2>2, FS_EmptySet DEF LooseAreFew
<1>2. IInv /\ LooseAreFew /\ [Next]_vars => LooseAreFew'
  <2>1. SUFFICES ASSUME IInv, LooseAreFew, [Next]_vars PROVE LooseAreFew'
    OBVIOUS
  <2>2. CASE UNCHANGED vars
    <3>1. Loose' = Loose /\ mishaps' = mishaps
      BY <2>2 DEF vars, host, disk, Loose, AtHand
    <3>2. QED
      BY <2>1, <3>1 DEF LooseAreFew
  <2>3. ASSUME NEW t \in Tasks, Step(t) PROVE LooseAreFew'
    BY <2>1, <2>3, StepDoes, TidyKeeps DEF Good
  <2>4. QED
    BY <2>1, <2>2, <2>3 DEF Next
<1>3. IInv /\ LooseAreFew => NamespacesTracked
  <2>1. SUFFICES ASSUME IInv, LooseAreFew PROVE NamespacesTracked
    OBVIOUS
  <2>2. \A t \in Tasks : AtHand(t) \subseteq InHand
    <3>1. SUFFICES ASSUME NEW t \in Tasks, AtHand(t) # {} PROVE AtHand(t) \subseteq InHand
      OBVIOUS
    <3>2. holder = t /\ t # Nobody
      BY <2>1, <3>1, StateIs DEF AtHand, Held
    <3>3. me[t].entries # <<>> => Last(me[t].entries) \in Range(me[t].entries)
      <4>1. PICK s \in Seq(Resources) : s = me[t].entries
        BY <2>1, StateIs DEF Locals
      <4>2. s # <<>> => Len(s) \in DOMAIN s
        OBVIOUS
      <4>3. QED
        BY <4>1, <4>2 DEF Last, Range
    <3>4. QED
      BY <3>2, <3>3 DEF AtHand, InHand
  <2>3. Untracked \cap Namespaces \in SUBSET Loose
    BY <2>2 DEF Untracked, Loose
  <2>4. Cardinality(Untracked \cap Namespaces) <= Cardinality(Loose)
        /\ IsFiniteSet(Untracked \cap Namespaces)
    BY <2>1, <2>3, FS_Subset DEF LooseAreFew
  <2>5. Cardinality(Untracked \cap Namespaces) \in Nat /\ Cardinality(Loose) \in Nat /\ mishaps \in Nat
    BY <2>1, <2>4, FS_CardinalityType, LifecycleConstants DEF LooseAreFew, IInv, TypeOK
  <2>6. QED
    BY <2>1, <2>4, <2>5 DEF LooseAreFew, NamespacesTracked
<1>4. QED
  BY <1>1, <1>2, <1>3, LifecycleInvariant, PTL DEF Spec

-----------------------------------------------------------------------------
\* A reap that nobody runs beside

\* What a reaper's step is.
ReaperStep(t) ==
    \/ Unwind(t) \/ Unwound(t) \/ RemoveDir(t) \/ Removed(t) \/ ReapUnowned(t) \/ ReapOwned(t)
    \/ ReapPending(t) \/ ReapFilter(t) \/ ReapJournal(t) \/ ReapClaims(t) \/ ReapList(t)
    \/ ReapClaimed(t) \/ ReapState(t) \/ ReapBusy(t) \/ ReapGroup(t) \/ ReapOwner(t) \/ ReapRelease(t)

\* A task that reaps goes on reaping, until it leaves.
LEMMA ReaperReaps ==
    ASSUME IInv, NEW t \in Tasks, Step(t), Reaping(t), pc'[t] # "idle"
    PROVE  /\ ReaperStep(t)
           /\ ~Unwind(t) /\ ~ReapUnowned(t) /\ ~ReapOwned(t) => UNCHANGED mishaps
<1>1. /\ me[t].op = "reap"
      /\ pc[t] \in {"unwind", "remove_dir", "reap_pending", "reap_filter", "reap_lock", "reap_claims",
                    "reap_list", "reap_claimed", "reap_state", "reap_busy", "reap_group",
                    "reap_unowned", "reap_owned", "reaped"}
  BY DEF Reaping
<1>2. ~Kill(t) /\ ~Reaped(t)
  BY Left DEF Kill, Reaped
<1>3. ~DeployStep(t)
  BY <1>1 DEF DeployStep, Deploy, Allocate, AllocateFails, RecordSubnets, RecordClaims, Claim, DeploySaves,
              Executed
<1>4. ExecuteStep(t) => Unwound(t)
  BY <1>1 DEF ExecuteStep, Create, RecordNode, Tag, Fail, CanFail, Executed, Panic, SaveTopology, Finish
<1>5. HandleStep(t) => RemoveDir(t) \/ Removed(t)
  BY <1>1 DEF HandleStep, Load, LoadTopology, Refused, Apply, ApplyDiscards, ApplySaves, ApplyNotSaved,
              Destroy, Destroyed, Executed
<1>6. ~RemoveNode(t) /\ ~DestroyNode(t) /\ ~Reap(t)
  BY <1>1 DEF RemoveNode, DestroyNode, Reap
<1>7. QED
  BY <1>2, <1>3, <1>4, <1>5, <1>6 DEF Step, ReapStep, DeletingStep, ReaperStep

\* A reap begins with Reap.
LEMMA PendingIsReap ==
    ASSUME IInv, NEW t \in Tasks, Step(t), pc'[t] = "reap_pending"
    PROVE  Reap(t) /\ UNCHANGED mishaps
<1>1. pc \in [Tasks -> Places]
  BY StateIs
<1>2. ~Leave(t)
  BY Left
<1>3. ~DeployStep(t)
  BY <1>1, <1>2 DEF DeployStep, Deploy, Allocate, AllocateFails, RecordSubnets, RecordClaims, Claim,
                    DeploySaves, Goto
<1>4. ~ExecuteStep(t)
  BY <1>1, <1>2 DEF ExecuteStep, Create, RecordNode, Tag, Fail, Panic, StartUnwind, Unwound, SaveTopology,
                    Finish, Goto
<1>5. ~HandleStep(t)
  BY <1>1, <1>2 DEF HandleStep, Load, LoadTopology, Refused, Apply, ApplyDiscards, ApplySaves, ApplyNotSaved,
                    Destroy, Destroyed, RemoveDir, Removed, Goto
<1>6. ~DeletingStep(t) /\ ~Kill(t)
  BY <1>1, <1>2 DEF DeletingStep, RemoveNode, Unwind, DestroyNode, ReapUnowned, ReapOwned, Kill
<1>7. ReapStep(t) => Reap(t)
  BY <1>1, <1>2 DEF ReapStep, ReapPending, ReapFilter, ReapJournal, ReapClaims, ReapList, ReapClaimed,
                    ReapState, ReapBusy, ReapGroup, ReapOwner, ReapRelease, Reaped, Goto
<1>8. QED
  BY <1>3, <1>4, <1>5, <1>6, <1>7 DEF Step

\* The journal of a lab without state: unwound, and its directory removed.
LEMMA ReaperUnwinds ==
    ASSUME IInv, NEW t \in Tasks, Reaping(t), Unwind(t) \/ Unwound(t) \/ RemoveDir(t) \/ Removed(t),
           ~Unwind(t) => UNCHANGED mishaps
    PROVE  Reaping(t)'
<1>1. me[t].op = "reap" /\ me[t] \in Locals /\ pc \in [Tasks -> Places] /\ me \in [Tasks -> Locals]
  BY StateIs DEF Reaping
<1>2. CASE Unwind(t)
  <2>1. /\ me'[t].op = me[t].op /\ me'[t].after = me[t].after /\ me'[t].known = me[t].known
        /\ pc[t] = "unwind" /\ UNCHANGED <<saved, journal, pc>>
    BY <1>2, UnwindDoes DEF Unwind, disk
  <2>2. QED
    BY <2>1 DEF Reaping
<1>3. CASE Unwound(t)
  <2>1. /\ pc[t] = "unwind" /\ me[t].after = "reaped" /\ saved = Absent /\ ~me[t].known
    BY <1>3 DEF Unwound, Reaping
  <2>2. /\ journal' = Absent /\ saved' = saved /\ Goto(t, "remove_dir")
        /\ me' = [me EXCEPT ![t].before = {}]
    BY <1>3, <2>1 DEF Unwound
  <2>3. pc'[t] = "remove_dir" /\ me'[t].op = me[t].op /\ me'[t].known = me[t].known
    BY <1>1, <2>2 DEF Goto, Locals
  <2>4. QED
    BY <1>1, <2>1, <2>2, <2>3 DEF Reaping
<1>4. CASE RemoveDir(t)
  <2>1. /\ pc[t] = "remove_dir" /\ saved = Absent /\ journal = Absent /\ saved' = Absent /\ journal' = Absent
        /\ UNCHANGED <<pc, me>>
    BY <1>4 DEF RemoveDir, Reaping
  <2>2. QED
    BY <2>1 DEF Reaping
<1>5. CASE Removed(t)
  <2>1. /\ pc[t] = "remove_dir" /\ saved = Absent /\ journal = Absent /\ UNCHANGED <<saved, journal, me>>
        /\ Goto(t, "reap_claims")
    BY <1>1, <1>5 DEF Removed, Reaping, disk
  <2>2. pc'[t] = "reap_claims"
    BY <1>1, <2>1 DEF Goto
  <2>3. QED
    BY <2>1, <2>2 DEF Reaping
<1>6. QED
  BY <1>2, <1>3, <1>4, <1>5

\* What it looks at before it lists the tagged namespaces; nobody has the lock.
LEMMA ReaperLooks ==
    ASSUME IInv, NEW t \in Tasks, Reaping(t), pc[t] \notin Held => holder = Nobody, UNCHANGED mishaps,
           ReapPending(t) \/ ReapFilter(t) \/ ReapJournal(t) \/ ReapClaims(t)
    PROVE  Reaping(t)'
<1>1. me[t].op = "reap" /\ me[t] \in Locals /\ pc \in [Tasks -> Places]
  BY StateIs DEF Reaping
<1>2. holder = Nobody /\ UNCHANGED <<saved, journal, tags>>
  BY DEF ReapPending, ReapFilter, ReapJournal, ReapClaims, Held, host, disk
<1>3. CASE ReapPending(t)
  <2>1. pc[t] = "reap_pending" /\ pc'[t] = (IF journal = Absent THEN "reap_claims" ELSE "reap_filter")
        /\ me'[t] = me[t]
    BY <1>1, <1>3 DEF ReapPending, Goto
  <2>2. QED
    BY <1>2, <2>1 DEF Reaping
<1>4. CASE ReapFilter(t)
  <2>1. pc[t] = "reap_filter" /\ pc'[t] = (IF saved = Absent THEN "reap_lock" ELSE "reap_claims")
        /\ me'[t] = me[t]
    BY <1>1, <1>4 DEF ReapFilter, Goto
  <2>2. QED
    BY <1>2, <2>1 DEF Reaping
<1>5. CASE ReapJournal(t)
  <2>1. /\ me'[t].op = me[t].op /\ me'[t].known = me[t].known
        /\ pc'[t] = IF holder = Nobody /\ journal # Absent THEN "unwind" ELSE "reap_claims"
        /\ pc'[t] = "unwind" => me'[t].after = "reaped"
        /\ pc[t] = "reap_lock"
    BY <1>5, ReapJournalDoes DEF ReapJournal
  <2>2. QED
    BY <1>2, <2>1 DEF Reaping
<1>6. CASE ReapClaims(t)
  <2>1. /\ pc[t] = "reap_claims" /\ pc'[t] = "reap_list" /\ me'[t] = me[t]
        /\ saved = Absent => live' = live \ {"claims"}
    BY <1>1, <1>2, <1>6 DEF ReapClaims, Goto
  <2>2. QED
    BY <1>2, <2>1 DEF Reaping
<1>7. QED
  BY <1>3, <1>4, <1>5, <1>6

\* From the list of the tagged namespaces on, nothing but what state.json
\* claims is off it.
LEMMA ReaperDeletes ==
    ASSUME IInv, NEW t \in Tasks, Reaping(t), pc[t] \notin Held => holder = Nobody,
           ReapUnowned(t) \/ ReapOwned(t) \/
           /\ UNCHANGED mishaps
           /\ ReapList(t) \/ ReapClaimed(t) \/ ReapState(t) \/ ReapBusy(t) \/ ReapGroup(t)
              \/ ReapOwner(t) \/ ReapRelease(t)
    PROVE  Reaping(t)'
<1>1. me[t].op = "reap" /\ me[t] \in Locals /\ pc \in [Tasks -> Places]
  BY StateIs DEF Reaping
<1>2. UNCHANGED <<saved, journal>>
  BY DEF ReapUnowned, ReapOwned, ReapList, ReapClaimed, ReapState, ReapBusy, ReapGroup, ReapOwner,
         ReapRelease, disk
<1>3. Claimed' = Claimed
  BY <1>2 DEF Claimed
<1>4. CASE ReapUnowned(t) \/ ReapOwned(t)
  <2>1. /\ pc'[t] = pc[t] /\ me'[t].op = me[t].op /\ live' \subseteq live /\ tags' \subseteq tags
        /\ ~me'[t].failed => ~me[t].failed /\ live' \cap me[t].rem \subseteq me'[t].rem
        /\ pc[t] \in {"reap_unowned", "reap_owned"}
    BY <1>4, ReapDeletesDoes DEF ReapUnowned, ReapOwned
  <2>2. QED
    BY <1>2, <1>3, <2>1 DEF Reaping
<1>5. CASE ReapList(t) /\ UNCHANGED mishaps
  <2>1. /\ me'[t].rem = live \cap tags /\ me'[t].op = me[t].op /\ me'[t].failed = me[t].failed
        /\ pc'[t] = IF me[t].known THEN "reap_claimed" ELSE "reap_state"
        /\ pc[t] = "reap_list" /\ UNCHANGED <<live, tags>>
    BY <1>5, ReapListDoes DEF ReapList, host
  <2>2. QED
    BY <1>2, <1>3, <2>1 DEF Reaping
<1>6. CASE (ReapClaimed(t) \/ ReapState(t) \/ ReapBusy(t)) /\ UNCHANGED mishaps
  <2>1. /\ me'[t].op = me[t].op /\ me'[t].failed = me[t].failed
        /\ pc'[t] = IF ReapState(t) /\ saved = Absent THEN "reap_busy" ELSE "reap_group"
        /\ saved # Absent => me[t].rem \subseteq me'[t].rem \cup saved \/ ~ReapClaimed(t)
        /\ saved = Absent /\ ReapState(t) => me'[t].rem = me[t].rem
        /\ holder = Nobody /\ ReapBusy(t) => me'[t].rem = me[t].rem
    BY <1>6, ReapKeepsDoes
  <2>2. UNCHANGED <<live, tags>> /\ pc[t] \in {"reap_claimed", "reap_state", "reap_busy"} /\ holder = Nobody
    BY <1>6 DEF ReapClaimed, ReapState, ReapBusy, host, Held
  <2>3. me[t].rem \subseteq me'[t].rem \cup Claimed
    <3>1. CASE ReapClaimed(t)
      BY <2>1, <3>1 DEF Reaping, ReapClaimed, Claimed
    <3>2. CASE ReapState(t)
      BY <2>1, <3>2 DEF Reaping, ReapState
    <3>3. CASE ReapBusy(t)
      BY <2>1, <2>2, <3>3
    <3>4. QED
      BY <1>6, <3>1, <3>2, <3>3
  <2>4. pc'[t] = "reap_busy" => saved = Absent
    BY <2>1
  <2>5. pc'[t] \in {"reap_busy", "reap_group"}
    BY <2>1
  <2>6. QED
    BY <1>2, <1>3, <2>1, <2>2, <2>3, <2>4, <2>5 DEF Reaping
<1>7. CASE ReapGroup(t) /\ UNCHANGED mishaps
  <2>1. /\ pc'[t] = "reap_unowned" /\ me'[t].rem = me[t].rem \cap tags /\ me'[t].op = me[t].op
        /\ me'[t].failed = me[t].failed /\ pc[t] = "reap_group" /\ UNCHANGED <<live, tags>>
    BY <1>7, ReapGroupDoes DEF ReapGroup, host
  <2>2. QED
    BY <1>2, <1>3, <2>1 DEF Reaping
<1>8. CASE ReapOwner(t)
  <2>1. /\ pc[t] = "reap_unowned" /\ UNCHANGED <<live, tags, me>> /\ holder = Nobody
        /\ pc'[t] = IF me[t].rem # {} THEN "reap_owned" ELSE "reaped"
    BY <1>1, <1>8 DEF ReapOwner, host, Goto, Held
  <2>2. QED
    BY <1>2, <1>3, <2>1 DEF Reaping
<1>9. CASE ReapRelease(t)
  <2>1. pc[t] = "reap_owned" /\ UNCHANGED <<live, tags, me>> /\ me[t].rem = {} /\ pc'[t] = "reaped"
    BY <1>1, <1>9 DEF ReapRelease, host, Goto
  <2>2. QED
    BY <1>2, <1>3, <2>1 DEF Reaping
<1>10. QED
  BY <1>4, <1>5, <1>6, <1>7, <1>8, <1>9

\* While nobody else runs, a reap goes on from what it found.
LEMMA QuietKeeps ==
    ASSUME IInv, QuietReaps, NEW t \in Tasks, Step(t),
           quiet' = IF pc'[t] = "reap_pending" \/ (quiet = t /\ pc'[t] # "idle") THEN t ELSE Nobody
    PROVE  QuietReaps'
<1>1. SUFFICES ASSUME quiet' = t, \A u \in Tasks \ {t} : pc'[u] = "idle" PROVE Reaping(t)'
  BY LifecycleConstants DEF QuietReaps
<1>2. \A u \in Tasks \ {t} : pc[u] = "idle"
  BY <1>1, StepDoes DEF Good, Frame
<1>3. pc[t] \notin Held => holder = Nobody
  BY <1>2 DEF IInv, TypeOK, HolderIsAtWork, Held
<1>4. CASE pc'[t] = "reap_pending"
  <2>1. /\ me'[t].op = "reap" /\ (me'[t].known <=> saved # Absent) /\ saved' = saved
    BY <1>4, PendingIsReap, ReapDoes DEF Reap, disk
  <2>2. QED
    BY <1>4, <2>1 DEF Reaping
<1>5. CASE quiet = t /\ pc'[t] # "idle"
  <2>1. Reaping(t)
    BY <1>2, <1>5 DEF QuietReaps
  <2>2. ReaperStep(t) /\ (~Unwind(t) /\ ~ReapUnowned(t) /\ ~ReapOwned(t) => UNCHANGED mishaps)
    BY <1>5, <2>1, ReaperReaps
  <2>3. CASE Unwind(t) \/ Unwound(t) \/ RemoveDir(t) \/ Removed(t)
    <3>1. ~Unwind(t) => ~ReapUnowned(t) /\ ~ReapOwned(t)
      BY <2>3 DEF Unwound, RemoveDir, Removed, ReapUnowned, ReapOwned
    <3>2. QED
      BY <2>1, <2>2, <2>3, <3>1, ReaperUnwinds
  <2>4. CASE ReapPending(t) \/ ReapFilter(t) \/ ReapJournal(t) \/ ReapClaims(t)
    <3>1. ~Unwind(t) /\ ~ReapUnowned(t) /\ ~ReapOwned(t)
      BY <2>4 DEF ReapPending, ReapFilter, ReapJournal, ReapClaims, Unwind, ReapUnowned, ReapOwned
    <3>2. QED
      BY <1>3, <2>1, <2>2, <2>4, <3>1, ReaperLooks
  <2>5. CASE ReapUnowned(t) \/ ReapOwned(t)
    BY <1>3, <2>1, <2>5, ReaperDeletes
  <2>6. CASE ReapList(t) \/ ReapClaimed(t) \/ ReapState(t) \/ ReapBusy(t) \/ ReapGroup(t)
             \/ ReapOwner(t) \/ ReapRelease(t)
    <3>1. ReapUnowned(t) \/ ReapOwned(t) \/ UNCHANGED mishaps
      <4>1. ~Unwind(t)
        BY <2>6 DEF ReapList, ReapClaimed, ReapState, ReapBusy, ReapGroup, ReapOwner, ReapRelease, Unwind
      <4>2. QED
        BY <2>2, <4>1
    <3>2. QED
      BY <1>3, <2>1, <2>6, <3>1, ReaperDeletes
  <2>7. QED
    BY <2>2, <2>3, <2>4, <2>5, <2>6 DEF ReaperStep
<1>6. QED
  BY <1>1, <1>4, <1>5, LifecycleConstants

\* A `destroy --orphans` that nothing runs beside and none of whose deletes
\* failed leaves no debris (ReapLeavesNoDebris).
THEOREM QuietReapLeavesNoDebris == Spec => []ReapLeavesNoDebris
<1>1. Init => QuietReaps
  BY LifecycleConstants DEF Init, QuietReaps
<1>2. IInv /\ QuietReaps /\ [Next]_vars => QuietReaps'
  <2>1. SUFFICES ASSUME IInv, QuietReaps, [Next]_vars PROVE QuietReaps'
    OBVIOUS
  <2>2. CASE UNCHANGED vars
    BY <2>1, <2>2 DEF vars, host, disk, QuietReaps, Reaping, Claimed
  <2>3. CASE Next
    BY <2>1, <2>3, QuietKeeps DEF Next
  <2>4. QED
    BY <2>1, <2>2, <2>3
<1>3. QuietReaps => ReapLeavesNoDebris
  BY DEF QuietReaps, Reaping, ReapLeavesNoDebris
<1>4. QED
  BY <1>1, <1>2, <1>3, LifecycleInvariant, PTL DEF Spec

-----------------------------------------------------------------------------
\* Runs none of which is an apply

\* A step loses nothing but subnets that spill, or one resource for a mishap.
Keeps(t) ==
    \/ /\ mishaps' = mishaps
       /\ Missing(t)' \subseteq Missing(t) \cup (IF pc'[t] = "idle" THEN {"subnets"} \ live ELSE {})
    \/ /\ mishaps' = mishaps + 1
       /\ \E x \in Resources \cup {Nobody} : Missing(t)' \subseteq Missing(t) \cup {x}

\* What every step of such a run does.
Safe(t) ==
    /\ Knows(t)' /\ FilesAgree' /\ Keeps(t)
    /\ Intact(t) /\ "save" \notin Faults => Intact(t)'

\* A step that leaves both files.
LEMMA FilesStay ==
    ASSUME saved' = saved, journal' = journal
    PROVE  /\ Noted' = Noted /\ Claimed' = Claimed /\ Registered' = Registered
           /\ FilesAgree => FilesAgree'
BY DEF Noted, Claimed, Registered, FilesAgree

\* What is journaled when there is no file, or an empty one.
LEMMA EmptyIs == Range(<<>>) = {} /\ <<>> \in Seq(Resources) /\ (journal = Absent => Noted = {})
BY DEF Range, Noted


\* What state.json claims are nodes; a set of nodes is a state.json.
LEMMA ClaimedAre ==
    ASSUME IInv
    PROVE  Claimed \subseteq Nodes /\ \A s \in SUBSET Nodes : s # Absent
BY LifecycleConstants DEF IInv, TypeOK, Claimed

\* What a run can find is on disk or tagged, but for what it just made.
LEMMA FoundOnDisk ==
    ASSUME NEW t \in Tasks, Knows(t), FilesAgree
    PROVE  Findable(t) \subseteq OnDisk \cup JustMade(t)
<1>1. journal = Absent => Noted = {}
  BY EmptyIs
<1>2. CASE pc[t] = "destroy"
  BY <1>2 DEF Findable, OnDisk, Knows, FilesAgree, Claimed
<1>3. CASE pc[t] \in {"unwind", "remove_dir"}
  BY <1>1, <1>3 DEF Findable, OnDisk, Knows
<1>4. CASE pc[t] \in Making
  BY <1>1, <1>4 DEF Findable, OnDisk, Making
<1>5. QED
  BY <1>2, <1>3, <1>4 DEF Findable

\* A run that returns has lost nothing that the files and the tags, as they
\* are after it, name.
LEMMA LeaveIsSafe ==
    ASSUME IInv, NEW t \in Tasks, Knows(t), FilesAgree, Leave(t), UNCHANGED <<tags, saved>>,
           live \subseteq live', journal' \in {journal, Absent},
           \/ mishaps' = mishaps /\ live' \subseteq live \cup {"subnets"} /\ Findable(t) \subseteq OnDisk'
           \/ /\ mishaps' = mishaps + 1 /\ live' = live
              /\ \E x \in Resources \cup {Nobody} : Findable(t) \subseteq OnDisk' \cup {x},
           "save" \notin Faults /\ mishaps' = 0 /\ saved # Absent => pc[t] \notin {"destroy", "remove_dir"}
    PROVE  Safe(t)
<1>1. pc'[t] = "idle" /\ mishaps \in Nat
  BY Left, StateIs
<1>2. Claimed' = Claimed /\ FilesAgree'
  BY DEF Claimed, Noted, FilesAgree
<1>3. Knows(t)'
  BY <1>1 DEF Knows, Making
<1>4. Findable(t)' = OnDisk'
  BY <1>1 DEF Findable, Making
<1>5. Keeps(t)
  BY <1>1, <1>4 DEF Keeps, Missing
<1>6. ASSUME Intact(t), "save" \notin Faults PROVE Intact(t)'
  <2>1. mishaps' = 0 => Claimed \subseteq live
    BY <1>1, <1>6 DEF Intact, Claimed
  <2>2. QED
    BY <1>1, <1>2, <2>1 DEF Intact, Making
<1>7. QED
  BY <1>2, <1>3, <1>5, <1>6 DEF Safe

\* A kill may lose the node under creation, or the subnets before they are
\* journaled: its mishap says so.
LEMMA KillIsSafe ==
    ASSUME IInv, NEW t \in Tasks, Knows(t), FilesAgree, Kill(t)
    PROVE  Safe(t)
<1>1. /\ Leave(t) /\ UNCHANGED <<live, tags, saved, journal>> /\ mishaps' = mishaps + 1 /\ mishaps \in Nat
  BY StateIs DEF Kill, Mishap, host, disk
<1>2. OnDisk' = OnDisk
  BY <1>1 DEF OnDisk, Claimed, Registered, Noted
<1>3. PICK x \in Resources \cup {Nobody} : JustMade(t) \subseteq {x}
  <2>1. pc[t] = "created" => me[t].cur \in Resources
    BY StateIs DEF FitsAt, Resources
  <2>2. pc[t] = "allocated" => "subnets" \in Resources
    BY StateIs DEF FitsAt, Resources
  <2>3. QED
    BY <2>1, <2>2 DEF JustMade
<1>4. Findable(t) \subseteq OnDisk' \cup {x}
  BY <1>2, <1>3, FoundOnDisk
<1>5. QED
  BY <1>1, <1>4, LeaveIsSafe

\* A deploy that could not allocate leaves, with subnets or without.
LEMMA AllocateFailsIsSafe ==
    ASSUME IInv, NEW t \in Tasks, Knows(t), FilesAgree, AllocateFails(t), UNCHANGED mishaps
    PROVE  Safe(t)
<1>1. /\ Leave(t) /\ UNCHANGED <<tags, saved, journal>> /\ pc[t] = "allocate"
      /\ live \subseteq live' /\ live' \subseteq live \cup {"subnets"}
  BY DEF AllocateFails, disk
<1>2. Findable(t) \subseteq OnDisk'
  BY <1>1, FoundOnDisk DEF JustMade, OnDisk, Claimed, Registered, Noted
<1>3. QED
  BY <1>1, <1>2, LeaveIsSafe

\* A run that ends leaves its nodes with state.json.
LEMMA EndIsSafe ==
    ASSUME IInv, NEW t \in Tasks, Knows(t), FilesAgree, UNCHANGED mishaps,
           ApplyNotSaved(t) \/ Finish(t) \/ Refused(t) \/ Reaped(t)
    PROVE  Safe(t)
<1>1. /\ Leave(t) /\ UNCHANGED <<live, tags, saved>>
      /\ \/ pc[t] = "saved" /\ journal' = Absent
         \/ pc[t] \in {"loaded", "reaped"} /\ journal' = journal
  BY DEF ApplyNotSaved, Finish, Refused, Reaped, host, disk, Knows, Making
<1>2. Findable(t) \subseteq OnDisk'
  <2>1. CASE pc[t] = "saved"
    <3>1. saved = me[t].env /\ saved # Absent
      BY <2>1, StateIs, ClaimedAre DEF Knows, Locals
    <3>2. Findable(t) = tags \cup Noted /\ Noted \subseteq saved \cup Registrations
      BY <2>1, <3>1 DEF Findable, JustMade, Knows, Making, MadeBy
    <3>3. OnDisk' = tags \cup saved \cup Registrations
      BY <1>1, <2>1, <3>1 DEF OnDisk, Claimed, Registered
    <3>4. QED
      BY <3>2, <3>3
  <2>2. CASE pc[t] # "saved"
    <3>1. journal' = journal /\ JustMade(t) = {}
      BY <1>1, <2>2 DEF JustMade
    <3>2. QED
      BY <1>1, <3>1, FoundOnDisk DEF OnDisk, Claimed, Registered, Noted
  <2>3. QED
    BY <2>1, <2>2
<1>3. QED
  BY <1>1, <1>2, LeaveIsSafe

\* A deploy starts with what its journal names, and without a state.json.
LEMMA DeployIsSafe ==
    ASSUME IInv, NEW t \in Tasks, Knows(t), FilesAgree, Deploy(t), UNCHANGED mishaps
    PROVE  Safe(t)
<1>1. /\ pc[t] = "idle" /\ saved = Absent /\ UNCHANGED <<live, tags, saved, journal>>
      /\ pc'[t] = IF journal = Absent THEN "allocate" ELSE "unwind"
  BY StateIs DEF Deploy, Goto, host, disk
<1>2. PICK want \in SUBSET Resources :
        me' = [me EXCEPT ![t] =
            [Blank EXCEPT !.op = "deploy", !.want = want, !.add = want \cap Nodes,
                          !.entries = IF journal = Absent THEN <<>> ELSE journal,
                          !.after = "allocate", !.before = live]]
  BY DEF Deploy
<1>3. PICK s \in Seq(Resources) : s = (IF journal = Absent THEN <<>> ELSE journal) /\ Range(s) = Noted
  <2>1. journal = Absent \/ journal \in Seq(Resources)
    BY StateIs DEF Shapes
  <2>2. QED
    BY <2>1, EmptyIs DEF Noted
<1>4. /\ me'[t].op = "deploy" /\ me'[t].rem = {} /\ me'[t].env = {} /\ me'[t].entries = s
      /\ me'[t].after = "allocate"
  <2>1. me'[t] = [Blank EXCEPT !.op = "deploy", !.want = want, !.add = want \cap Nodes,
                               !.entries = s, !.after = "allocate", !.before = live]
    BY <1>2, <1>3, StateIs
  <2>2. QED
    BY <2>1 DEF Blank
<1>5. Noted' = Noted /\ Claimed' = Claimed /\ FilesAgree'
  BY <1>1, FilesStay
<1>6. Knows(t)'
  BY <1>1, <1>3, <1>4, <1>5, EmptyIs DEF Knows, Making, MadeBy
<1>7. Keeps(t)
  BY <1>1, <1>3, <1>4, <1>5, EmptyIs DEF Keeps, Missing, Findable, JustMade, Making, OnDisk, Claimed, Registered
<1>8. Intact(t) => Intact(t)'
  BY <1>1, <1>4, <1>5 DEF Intact, Making, Claimed
<1>9. QED
  BY <1>5, <1>6, <1>7, <1>8 DEF Safe

\* A deploy goes on, with nothing new but subnets or what is journaled.
LEMMA OnwardIsSafe ==
    ASSUME IInv, NEW t \in Tasks, Knows(t), FilesAgree, me'[t] = me[t], UNCHANGED <<tags, saved, journal, mishaps>>,
           live \subseteq live', live' \subseteq live \cup Noted \cup (IF pc'[t] = "allocated" THEN {"subnets"} ELSE {}),
           \/ pc[t] = "allocate" /\ pc'[t] \in {"allocated", "claim"}
           \/ pc[t] \in {"claim", "claiming"} /\ pc'[t] = "execute"
           \/ pc[t] = "saving" /\ pc'[t] = "saved"
    PROVE  Safe(t)
<1>1. Noted' = Noted /\ Claimed' = Claimed /\ FilesAgree'
  BY FilesStay
<1>2. Knows(t)'
  BY <1>1 DEF Knows, Making, MadeBy
<1>3. Keeps(t)
  BY <1>1 DEF Keeps, Missing, Findable, JustMade, Making
<1>4. Intact(t) => Intact(t)'
  BY <1>1 DEF Intact, Making
<1>5. QED
  BY <1>1, <1>2, <1>3, <1>4 DEF Safe

\* The subnets, the claims and topology.toml.
LEMMA RegisterIsSafe ==
    ASSUME IInv, NEW t \in Tasks, Knows(t), FilesAgree, Allocate(t) \/ Claim(t) \/ SaveTopology(t), UNCHANGED mishaps
    PROVE  Safe(t)
<1>1. UNCHANGED <<me, tags, saved, journal>> /\ pc \in [Tasks -> Places]
  BY StateIs DEF Allocate, Claim, SaveTopology, host, disk
<1>2. CASE Allocate(t)
  <2>1. /\ pc[t] = "allocate" /\ pc'[t] \in {"allocated", "claim"}
        /\ live \subseteq live' /\ live' \subseteq live \cup (IF pc'[t] = "allocated" THEN {"subnets"} ELSE {})
    BY <1>1, <1>2 DEF Allocate, Goto
  <2>2. QED
    BY <1>1, <2>1, OnwardIsSafe
<1>3. CASE Claim(t)
  <2>1. pc[t] = "claiming" /\ pc'[t] = "execute" /\ live' = live \cup {"claims"}
    BY <1>1, <1>3 DEF Claim, Goto
  <2>2. "claims" \in Noted
    BY <2>1, StateIs DEF FitsAt, Knows, Making
  <2>3. QED
    BY <1>1, <2>1, <2>2, OnwardIsSafe
<1>4. CASE SaveTopology(t)
  <2>1. pc[t] = "saving" /\ pc'[t] = "saved" /\ live' = live
    BY <1>1, <1>4 DEF SaveTopology, Goto, host
  <2>2. QED
    BY <1>1, <2>1, OnwardIsSafe
<1>5. QED
  BY <1>2, <1>3, <1>4

\* An entry is in the journal as soon as the run has it.
LEMMA RecordIsSafe ==
    ASSUME IInv, NEW t \in Tasks, Knows(t), FilesAgree, NEW r \in Resources, NEW p \in Places, Record(t, r), Goto(t, p),
           UNCHANGED <<live, tags, saved, mishaps>>,
           \/ pc[t] = "allocated" /\ p = "claim" /\ r \in Registrations /\ r = "subnets"
           \/ pc[t] = "claim" /\ p = "claiming" /\ r \in Registrations
           \/ pc[t] = "created" /\ p = "recorded" /\ r = me[t].cur
    PROVE  Safe(t)
<1>1. PICK q \in Locals : q = me[t]
  BY StateIs
<1>2. PICK e \in Seq(Resources) : e = q.entries
  BY DEF Locals
<1>3. PICK s \in Seq(Resources) : s = Append(e, r) /\ Range(s) = Range(e) \cup {r}
  BY Appended
<1>4. journal' = s /\ me'[t] = [q EXCEPT !.entries = s] /\ pc'[t] = p
  BY <1>1, <1>2, <1>3, StateIs DEF Record, Goto
<1>5. /\ me'[t].entries = s /\ me'[t].op = q.op /\ me'[t].rem = q.rem /\ me'[t].env = q.env
      /\ me'[t].cur = q.cur
  BY <1>4 DEF Locals
<1>6. Noted' = Range(s) /\ journal' # Absent
  BY <1>4, LifecycleConstants DEF Noted
<1>7. Claimed' = Claimed /\ FilesAgree' /\ saved = Absent /\ Noted = Range(e)
  BY <1>1, <1>2 DEF Claimed, FilesAgree, Knows, Making
<1>8. Knows(t)'
  <2>1. me'[t].op = "deploy" /\ me'[t].rem = {} 
        /\ q.env \subseteq Range(e) /\ Range(e) \subseteq q.env \cup Registrations
    BY <1>1, <1>2, <1>5, <1>7 DEF Knows, Making, MadeBy
  <2>2. QED
    BY <1>1, <1>3, <1>4, <1>5, <1>6, <1>7, <2>1 DEF Knows, Making, MadeBy
<1>9. Keeps(t)
  BY <1>3, <1>4, <1>5, <1>6, <1>7 DEF Keeps, Missing, Findable, JustMade, Making
<1>10. Intact(t) => Intact(t)'
  BY <1>1, <1>4, <1>5, <1>7 DEF Intact, Making
<1>11. QED
  BY <1>7, <1>8, <1>9, <1>10 DEF Safe

\* The records of a deploy.
LEMMA RecordsAreSafe ==
    ASSUME IInv, NEW t \in Tasks, Knows(t), FilesAgree, UNCHANGED mishaps,
           RecordSubnets(t) \/ RecordClaims(t) \/ RecordNode(t)
    PROVE  Safe(t)
<1>1. {"claim", "claiming", "recorded", "execute"} \subseteq Places
  BY DEF Places
<1>2. UNCHANGED <<live, tags, saved>>
  BY DEF RecordSubnets, RecordClaims, RecordNode, host
<1>3. CASE RecordSubnets(t)
  <2>1. pc[t] = "allocated" /\ Record(t, "subnets") /\ Goto(t, "claim")
    BY <1>3 DEF RecordSubnets
  <2>2. "subnets" \in Registrations /\ "subnets" \in Resources
    BY <2>1, StateIs DEF FitsAt, Resources
  <2>3. QED
    BY <1>1, <1>2, <2>1, <2>2, RecordIsSafe
<1>4. CASE RecordNode(t)
  <2>1. pc[t] = "created" /\ Record(t, me[t].cur) /\ Goto(t, "recorded")
    BY <1>4 DEF RecordNode
  <2>2. me[t].cur \in Resources
    BY <2>1, StateIs DEF FitsAt, Resources
  <2>3. QED
    BY <1>1, <1>2, <2>1, <2>2, RecordIsSafe
<1>5. CASE RecordClaims(t) /\ "claims" \in me[t].want
  <2>1. pc[t] = "claim" /\ Record(t, "claims") /\ Goto(t, "claiming")
    BY <1>5 DEF RecordClaims
  <2>2. "claims" \in Registrations /\ "claims" \in Resources
    BY <1>5, StateIs, RegistrationsAre DEF Locals
  <2>3. QED
    BY <1>1, <1>2, <2>1, <2>2, RecordIsSafe
<1>6. CASE RecordClaims(t) /\ "claims" \notin me[t].want
  <2>1. pc[t] = "claim" /\ pc'[t] = "execute" /\ UNCHANGED <<me, journal>>
    BY <1>6, StateIs DEF RecordClaims, Goto
  <2>2. QED
    BY <1>2, <2>1, OnwardIsSafe
<1>7. QED
  BY <1>3, <1>4, <1>5, <1>6

\* A node is under creation; then it has its tag and the environment has it.
LEMMA CreatesSafely ==
    ASSUME IInv, NEW t \in Tasks, Knows(t), FilesAgree, UNCHANGED mishaps, Create(t) \/ Tag(t)
    PROVE  Safe(t)
<1>1. PICK q \in Locals : q = me[t]
  BY StateIs
<1>2. UNCHANGED <<saved, journal>>
  BY DEF Create, Tag, disk
<1>3. Noted' = Noted /\ Claimed' = Claimed /\ FilesAgree'
  BY <1>2, FilesStay
<1>4. CASE Create(t)
  <2>1. PICK n \in q.add : /\ live' = live \cup {n}
                           /\ me' = [me EXCEPT ![t] = [me[t] EXCEPT !.add = @ \ {n}, !.cur = n]]
    BY <1>1, <1>4 DEF Create
  <2>2. pc[t] = "execute" /\ pc'[t] = "created" /\ tags' = tags
    BY <1>4, StateIs DEF Create, Goto
  <2>3. me'[t] = [q EXCEPT !.add = @ \ {n}, !.cur = n]
    BY <1>1, <2>1, StateIs
  <2>4. /\ me'[t].op = q.op /\ me'[t].rem = q.rem /\ me'[t].env = q.env /\ me'[t].cur = n
        /\ me'[t].entries = q.entries
    BY <2>3 DEF Locals
  <2>5. Knows(t)'
    BY <1>1, <1>2, <1>3, <2>2, <2>4 DEF Knows, Making, MadeBy
  <2>6. Keeps(t)
    BY <1>3, <2>1, <2>2, <2>4 DEF Keeps, Missing, Findable, JustMade, Making
  <2>7. Intact(t) => Intact(t)'
    BY <1>1, <1>2, <1>3, <2>1, <2>2, <2>4 DEF Intact, Making
  <2>8. QED
    BY <1>3, <2>5, <2>6, <2>7 DEF Safe
<1>5. CASE Tag(t)
  <2>1. /\ tags \subseteq tags' /\ live' = live /\ pc[t] = "recorded" /\ pc'[t] = "execute"
        /\ me'[t] = [q EXCEPT !.env = @ \cup {q.cur}, !.cur = Nobody]
    BY <1>1, <1>5, StateIs DEF Tag, Goto
  <2>2. /\ me'[t].op = q.op /\ me'[t].rem = q.rem /\ me'[t].env = q.env \cup {q.cur}
        /\ me'[t].entries = q.entries
    BY <2>1 DEF Locals
  <2>3. Knows(t)'
    BY <1>1, <1>2, <1>3, <2>1, <2>2 DEF Knows, Making, MadeBy
  <2>4. Keeps(t)
    BY <1>3, <2>1 DEF Keeps, Missing, Findable, JustMade, Making
  <2>5. Intact(t) => Intact(t)'
    BY <1>1, <1>2, <1>3, <2>1, <2>2 DEF Intact, Making
  <2>6. QED
    BY <1>3, <2>3, <2>4, <2>5 DEF Safe
<1>6. QED
  BY <1>4, <1>5

\* A rollback starts with all the journal file names.
LEMMA StartUnwindIsSafe ==
    ASSUME IInv, NEW t \in Tasks, Knows(t), FilesAgree, UNCHANGED mishaps, Fail(t) \/ Panic(t)
    PROVE  Safe(t)
<1>1. PICK a \in {"undeployed", "leave", "dropped"} : StartUnwind(t, a)
  BY DEF Fail, Panic
<1>2. /\ pc[t] \in {"claim", "claiming", "execute", "recorded", "saving", "saved"}
      /\ pc[t] \in {"saving", "saved"} => "save" \in Faults
      /\ UNCHANGED <<live, tags, saved, journal>>
  BY DEF Fail, Panic, CanFail, Executed, host, disk
<1>3. PICK q \in Locals : q = me[t]
  BY StateIs
<1>4. /\ pc'[t] = "unwind"
      /\ me'[t] = [Blank EXCEPT !.op = q.op, !.entries = q.entries, !.after = a,
                                !.before = q.before, !.failed = q.failed]
  BY <1>1, <1>3, StateIs DEF StartUnwind, Goto
<1>5. me'[t].entries = q.entries /\ me'[t].after = a
  BY <1>4 DEF Blank
<1>6. Noted' = Noted /\ Claimed' = Claimed /\ FilesAgree'
  BY <1>2, FilesStay
<1>7. Noted = Range(q.entries)
  BY <1>2, <1>3 DEF Knows, Making
<1>8. Knows(t)'
  BY <1>2, <1>4, <1>5, <1>6, <1>7 DEF Knows, Making
<1>9. Keeps(t)
  BY <1>2, <1>4, <1>5, <1>6, <1>7 DEF Keeps, Missing, Findable, JustMade, Making
<1>10. ASSUME Intact(t), "save" \notin Faults PROVE Intact(t)'
  <2>1. saved = Absent
    BY <1>2, <1>10 DEF Knows, Making
  <2>2. QED
    BY <1>2, <1>4, <2>1 DEF Intact, Making, Claimed
<1>11. QED
  BY <1>6, <1>8, <1>9, <1>10 DEF Safe

\* The entries but the newest are in the journal as well.
LEMMA FrontIs ==
    ASSUME NEW s \in Seq(Resources), s # <<>>
    PROVE  Range(Front(s)) \subseteq Range(s)
<1>1. Len(s) \in Nat \ {0} /\ DOMAIN s = 1..Len(s)
  OBVIOUS
<1>2. DOMAIN Front(s) = 1..(Len(s) - 1) /\ \A k \in 1..(Len(s) - 1) : Front(s)[k] = s[k]
  BY <1>1 DEF Front
<1>3. PICK n \in Nat : n = Len(s)
  BY <1>1
<1>4. \A k \in 1..(n - 1) : k \in 1..n
  OBVIOUS
<1>5. QED
  BY <1>1, <1>2, <1>3, <1>4 DEF Range

\* One inverse: what it could not delete is lost, for a mishap.
LEMMA UnwindIsSafe ==
    ASSUME IInv, NEW t \in Tasks, Knows(t), FilesAgree, Unwind(t)
    PROVE  Safe(t)
<1>1. pc[t] = "unwind" /\ pc' = pc /\ UNCHANGED <<saved, journal>>
  BY DEF Unwind, disk
<1>2. PICK q \in Locals : q = me[t] /\ q.entries # <<>>
  BY StateIs DEF Unwind
<1>3. PICK s \in Seq(Resources) : s = q.entries /\ s # <<>>
  BY <1>2 DEF Locals
<1>4. PICK e \in Resources, f \in Seq(Resources) :
        /\ e = Last(s) /\ f = Front(s) /\ Range(s) \subseteq Range(f) \cup {e}
        /\ Range(f) \subseteq Range(s)
  BY <1>3, Newest, FrontIs
<1>5. PICK l : l = [q EXCEPT !.entries = f]
  OBVIOUS
<1>6. /\ l \in Locals /\ l.entries = f /\ l.op = q.op /\ l.after = q.after /\ l.rem = q.rem
      /\ l.env = q.env
  BY <1>5 DEF Locals
<1>7. Delete(t, e, l) /\ tags' = tags \ {e}
  BY <1>2, <1>3, <1>4, <1>5 DEF Unwind
<1>8. \/ me'[t] = l /\ live' = live \ {e} /\ mishaps' = mishaps
      \/ live' = live /\ mishaps' = mishaps + 1 /\ me'[t] = [l EXCEPT !.failed = TRUE]
  BY <1>6, <1>7, DeleteDoes
<1>9. /\ me'[t].entries = f /\ me'[t].op = q.op /\ me'[t].after = q.after /\ me'[t].rem = q.rem
      /\ me'[t].env = q.env
  <2>1. PICK k : k = [l EXCEPT !.failed = TRUE]
    OBVIOUS
  <2>2. k.entries = l.entries /\ k.op = l.op /\ k.after = l.after /\ k.rem = l.rem /\ k.env = l.env
    BY <1>6, <2>1 DEF Locals
  <2>3. QED
    BY <1>6, <1>8, <2>1, <2>2
<1>10. Noted' = Noted /\ Claimed' = Claimed /\ FilesAgree'
  BY <1>1, FilesStay
<1>11. Knows(t)'
  BY <1>1, <1>2, <1>3, <1>4, <1>9, <1>10 DEF Knows, Making
<1>12. Findable(t) \subseteq Findable(t)' \cup {e}
  BY <1>1, <1>2, <1>3, <1>4, <1>7, <1>9, <1>10 DEF Findable
<1>13. Keeps(t)
  BY <1>8, <1>12 DEF Keeps, Missing
<1>14. Intact(t) => Intact(t)'
  BY <1>1, <1>9 DEF Intact, Making, Claimed
<1>15. QED
  BY <1>10, <1>11, <1>13, <1>14 DEF Safe

\* A rollback that undid every entry may drop the journal.
LEMMA UnwoundIsSafe ==
    ASSUME IInv, NEW t \in Tasks, Knows(t), FilesAgree, Unwound(t), UNCHANGED mishaps
    PROVE  Safe(t)
<1>1. /\ pc[t] = "unwind" /\ me[t].entries = <<>> /\ UNCHANGED <<live, tags, saved>>
      /\ journal' = IF me[t].after = "dropped" THEN journal ELSE Absent
  BY DEF Unwound, host
<1>2. Findable(t) = tags
  BY <1>1, EmptyIs DEF Findable
<1>3. Claimed' = Claimed /\ FilesAgree'
  BY <1>1 DEF Claimed, Noted, FilesAgree
<1>4. CASE Leave(t)
  BY <1>1, <1>2, <1>4, LeaveIsSafe DEF OnDisk
<1>5. CASE ~Leave(t)
  <2>1. PICK q \in Locals : q = me[t]
    BY StateIs
  <2>2. PICK b \in SUBSET Resources : me' = [me EXCEPT ![t].before = b]
    <3>1. live \in SUBSET Resources
      BY StateIs DEF Shapes
    <3>2. QED
      BY <1>5, <3>1 DEF Unwound
  <2>3. \/ q.after = "allocate" /\ Goto(t, "allocate")
        \/ /\ q.after = "reaped" \/ (q.after = "undeployed" /\ saved = Absent)
           /\ Goto(t, "remove_dir")
    BY <1>5, <2>1 DEF Unwound
  <2>4. \/ q.after = "allocate" /\ pc'[t] = "allocate"
        \/ pc'[t] = "remove_dir"
    BY <2>3, StateIs DEF Goto
  <2>5. journal' = Absent /\ (q.after = "allocate" => saved = Absent)
    BY <1>1, <2>1, <2>3 DEF Knows
  <2>6. me'[t] = [q EXCEPT !.before = b]
    BY <2>1, <2>2, StateIs
  <2>7. /\ me'[t].entries = q.entries /\ me'[t].op = q.op /\ me'[t].rem = q.rem
        /\ me'[t].env = q.env
    BY <2>6 DEF Locals
  <2>8. Noted' = {}
    BY <2>5 DEF Noted
  <2>9. Knows(t)'
    <3>1. q.after = "allocate" => q.op = "deploy" /\ q.rem = {} /\ q.env = {}
      BY <1>1, <2>1 DEF Knows
    <3>2. QED
      BY <1>1, <2>1, <2>4, <2>5, <2>7, <2>8, <3>1, EmptyIs DEF Knows, Making, MadeBy
  <2>10. Keeps(t)
    BY <1>1, <1>2, <2>4 DEF Keeps, Missing, Findable, JustMade, Making
  <2>11. Intact(t) => Intact(t)'
    <3>1. q.after = "allocate" => q.env = {}
      BY <1>1, <2>1 DEF Knows
    <3>2. QED
      BY <1>1, <1>3, <2>1, <2>4, <2>5, <2>7, <3>1 DEF Intact, Making, Claimed
  <2>12. QED
    BY <1>3, <2>9, <2>10, <2>11 DEF Safe
<1>6. QED
  BY <1>4, <1>5

\* state.json gets what the run made: all its journal names but registrations.
LEMMA DeploySavesIsSafe ==
    ASSUME IInv, NEW t \in Tasks, Knows(t), FilesAgree, DeploySaves(t), UNCHANGED mishaps
    PROVE  Safe(t)
<1>1. /\ pc[t] = "execute" /\ pc'[t] = "saving" /\ UNCHANGED <<live, tags, journal, me>>
      /\ saved' = me[t].env /\ saved = Absent
  BY StateIs DEF DeploySaves, Executed, Goto, host, Knows, Making
<1>2. saved' # Absent
  BY <1>1, StateIs, ClaimedAre DEF Locals
<1>3. Noted' = Noted /\ FilesAgree'
  BY <1>1 DEF Noted, FilesAgree, Knows, Making, MadeBy
<1>4. Claimed' = me[t].env
  BY <1>1, <1>2 DEF Claimed
<1>5. Knows(t)'
  BY <1>1, <1>3 DEF Knows, Making, MadeBy
<1>6. Keeps(t)
  BY <1>1, <1>3 DEF Keeps, Missing, Findable, JustMade, Making
<1>7. Intact(t) => Intact(t)'
  BY <1>1, <1>4 DEF Intact, Making
<1>8. QED
  BY <1>3, <1>5, <1>6, <1>7 DEF Safe

\* No apply runs.
LEMMA NoApply ==
    ASSUME IInv, NEW t \in Tasks, Knows(t), FilesAgree
    PROVE  ~Apply(t) /\ ~ApplyDiscards(t) /\ ~ApplySaves(t) /\ ~RemoveNode(t)
BY DEF Knows, Making, Apply, ApplyDiscards, ApplySaves, RemoveNode, Executed

\* A destroy loads what state.json claims.
LEMMA LoadsSafely ==
    ASSUME IInv, NEW t \in Tasks, Knows(t), FilesAgree, "apply" \notin Ops, UNCHANGED mishaps,
           Load(t) \/ LoadTopology(t)
    PROVE  Safe(t)
<1>1. UNCHANGED <<live, tags, saved, journal>>
  BY DEF Load, LoadTopology, host, disk
<1>2. Noted' = Noted /\ Claimed' = Claimed /\ FilesAgree'
  BY <1>1, FilesStay
<1>3. PICK q \in Locals : q = me[t]
  BY StateIs
<1>4. CASE LoadTopology(t) /\ Leave(t)
  <2>1. Findable(t) \subseteq OnDisk' /\ pc[t] = "loading"
    BY <1>1, <1>4, FoundOnDisk DEF LoadTopology, JustMade, OnDisk, Claimed, Registered, Noted
  <2>2. QED
    BY <1>1, <1>2, <1>4, <2>1, LeaveIsSafe
<1>5. CASE Load(t) \/ ~Leave(t)
  <2>1. pc[t] \in {"idle", "loading"} /\ pc'[t] \in {"loading", "loaded"}
    BY <1>5, StateIs DEF Load, LoadTopology, Goto
  <2>2. "destroy" \in Ops /\ me'[t].op = "destroy" /\ me'[t].nodes = saved
    <3>1. CASE Load(t)
      <4>1. "destroy" \in Ops /\ me'[t] = [Blank EXCEPT !.op = "destroy", !.nodes = saved]
        BY <3>1, StateIs DEF Load
      <4>2. QED
        BY <4>1 DEF Blank
    <3>2. CASE LoadTopology(t)
      <4>1. me'[t] = [q EXCEPT !.topo = topo] /\ pc[t] = "loading"
        BY <1>3, <1>5, <3>2, StateIs DEF LoadTopology, Load
      <4>2. me'[t].op = q.op /\ me'[t].nodes = q.nodes
        BY <4>1 DEF Locals
      <4>3. QED
        BY <1>3, <4>1, <4>2 DEF Knows
    <3>3. QED
      BY <3>1, <3>2
  <2>3. Knows(t)'
    BY <1>1, <1>2, <2>1, <2>2 DEF Knows, Making
  <2>4. Keeps(t)
    BY <1>1, <2>1 DEF Keeps, Missing, Findable, JustMade, Making, OnDisk, Claimed, Registered, Noted
  <2>5. Intact(t) => Intact(t)'
    BY <1>1, <1>2, <2>1 DEF Intact, Making
  <2>6. QED
    BY <1>2, <2>3, <2>4, <2>5 DEF Safe
<1>6. QED
  BY <1>4, <1>5

\* A destroy has all that state.json claims to delete.
LEMMA DestroyIsSafe ==
    ASSUME IInv, NEW t \in Tasks, Knows(t), FilesAgree, Destroy(t), UNCHANGED mishaps
    PROVE  Safe(t)
<1>1. /\ pc[t] = "loaded" /\ pc'[t] = "destroy" /\ UNCHANGED <<tags, saved, journal>>
      /\ live' = live \ Registrations /\ me[t].nodes = saved
  BY StateIs DEF Destroy, Goto, disk, Knows
<1>2. saved \in SUBSET Nodes /\ saved # Absent
  BY <1>1, StateIs, ClaimedAre DEF Locals
<1>3. me'[t].rem = saved
  <2>1. me'[t] = [Blank EXCEPT !.op = "destroy", !.rem = saved]
    BY <1>1, StateIs DEF Destroy
  <2>2. QED
    BY <2>1 DEF Blank
<1>4. FilesAgree' /\ (journal # Absent => Noted \subseteq saved \cup Registrations)
  BY <1>1, <1>2, FilesStay DEF FilesAgree
<1>5. Knows(t)'
  BY <1>1, <1>2, <1>3, <1>4 DEF Knows, Making
<1>6. Findable(t) \subseteq Findable(t)' \cup Registrations
  BY <1>1, <1>2, <1>3, <1>4 DEF Findable, Making, OnDisk, Claimed, Registered
<1>7. Keeps(t)
  BY <1>1, <1>6 DEF Keeps, Missing
<1>8. Intact(t)'
  BY <1>1 DEF Intact, Making
<1>9. QED
  BY <1>4, <1>5, <1>7, <1>8 DEF Safe

\* A node that could not be deleted is lost, for a mishap.
LEMMA DestroyNodeIsSafe ==
    ASSUME IInv, NEW t \in Tasks, Knows(t), FilesAgree, DestroyNode(t)
    PROVE  Safe(t)
<1>1. pc[t] = "destroy" /\ pc' = pc /\ UNCHANGED <<saved, journal>>
  BY DEF DestroyNode, disk
<1>2. PICK n \in me[t].rem : Delete(t, n, [me[t] EXCEPT !.rem = @ \ {n}]) /\ tags' = tags \ {n}
  BY DEF DestroyNode
<1>3. PICK q \in Locals : q = me[t]
  BY StateIs
<1>4. n \in Resources
  BY <1>2, <1>3 DEF Locals, Resources
<1>5. PICK l : l = [q EXCEPT !.rem = @ \ {n}]
  OBVIOUS
<1>6. l \in Locals /\ l.rem = q.rem \ {n}
  BY <1>5 DEF Locals
<1>7. Delete(t, n, l)
  BY <1>2, <1>3, <1>5
<1>8. \/ me'[t] = l /\ live' = live \ {n} /\ mishaps' = mishaps
      \/ live' = live /\ mishaps' = mishaps + 1 /\ me'[t] = [l EXCEPT !.failed = TRUE]
  BY <1>4, <1>6, <1>7, DeleteDoes
<1>9. me'[t].rem = q.rem \ {n}
  <2>1. [l EXCEPT !.failed = TRUE].rem = l.rem
    BY <1>6 DEF Locals
  <2>2. QED
    BY <1>6, <1>8, <2>1
<1>10. FilesAgree'
  BY <1>1, FilesStay
<1>11. Knows(t)'
  BY <1>1, <1>3, <1>9, <1>10 DEF Knows, Making
<1>12. Findable(t) \subseteq Findable(t)' \cup {n}
  BY <1>1, <1>2, <1>3, <1>9 DEF Findable
<1>13. Keeps(t)
  BY <1>4, <1>8, <1>12 DEF Keeps, Missing
<1>14. Intact(t)'
  BY <1>1 DEF Intact, Making
<1>15. QED
  BY <1>10, <1>11, <1>13, <1>14 DEF Safe

\* The directory goes, with what the files said; only the tags are left.
LEMMA RemovesSafely ==
    ASSUME IInv, NEW t \in Tasks, Knows(t), FilesAgree, UNCHANGED mishaps, Destroyed(t) \/ RemoveDir(t)
    PROVE  Safe(t)
<1>1. /\ pc[t] \in {"destroy", "remove_dir"} /\ pc'[t] = "remove_dir" /\ UNCHANGED <<live, tags>>
      /\ saved' \in {saved, Absent} /\ journal' \in {journal, Absent}
      /\ pc[t] = "destroy" => me[t].rem = {}
  BY StateIs DEF Destroyed, RemoveDir, Goto, host, disk
<1>2. FilesAgree'
  BY <1>1 DEF Noted, FilesAgree
<1>3. Knows(t)'
  BY <1>1, <1>2 DEF Knows, Making
<1>4. Keeps(t)
  BY <1>1 DEF Keeps, Missing, Findable, JustMade, Making
<1>5. Intact(t)'
  BY <1>1 DEF Intact, Making
<1>6. QED
  BY <1>2, <1>3, <1>4, <1>5 DEF Safe

\* A reaper looks: it deletes no node, and goes for the journal of a lab
\* without state.json only.
LEMMA LookIsSafe ==
    ASSUME IInv, NEW t \in Tasks, Knows(t), FilesAgree, UNCHANGED <<tags, saved, journal, mishaps>>,
           live' \subseteq live, live \cap Nodes \subseteq live',
           \/ pc[t] \in Looking \cup {"idle", "reap_owned"}
           \/ pc[t] = "remove_dir" /\ (saved = Absent \/ "save" \in Faults),
           pc'[t] \in Looking \cup {"reap_owned"},
           Intact(t) => /\ pc'[t] \in {"reap_lock", "reap_busy"} => saved = Absent
                        /\ pc'[t] \in {"reap_group", "reap_unowned", "reap_owned"} =>
                              me'[t].rem \cap Claimed = {}
                        /\ pc'[t] = "reap_unowned" => me'[t].add \cap Claimed = {}
    PROVE  Safe(t)
<1>1. Noted' = Noted /\ Claimed' = Claimed /\ FilesAgree' /\ Claimed \subseteq Nodes
  BY FilesStay, ClaimedAre
<1>2. /\ pc[t] \notin {"destroy", "unwind", "created"}
      /\ pc[t] = "remove_dir" => saved = Absent \/ "save" \in Faults
      /\ pc'[t] \notin Making \cup {"merging", "unwind", "loading", "loaded", "destroy", "remove_dir", "created"}
  BY DEF Looking, Making
<1>3. Knows(t)'
  BY <1>1, <1>2 DEF Knows, Making
<1>4. Findable(t) \subseteq Findable(t)'
  BY <1>2 DEF Findable, OnDisk, Making, Looking, Claimed, Registered, Noted
<1>5. Keeps(t)
  BY <1>4 DEF Keeps, Missing
<1>6. ASSUME Intact(t), "save" \notin Faults PROVE Intact(t)'
  <2>1. mishaps = 0 => Claimed \subseteq live
    BY <1>2, <1>6 DEF Intact, Claimed
  <2>2. QED
    BY <1>1, <1>2, <1>6, <2>1 DEF Intact, Making
<1>7. QED
  BY <1>1, <1>3, <1>5, <1>6 DEF Safe

\* The guard drops, and a reaper goes on: there is no state.json, unless
\* the directory could not be removed.
LEMMA RemovedIsSafe ==
    ASSUME IInv, NEW t \in Tasks, Knows(t), FilesAgree, Removed(t), UNCHANGED mishaps
    PROVE  Safe(t)
<1>1. /\ pc[t] = "remove_dir" /\ UNCHANGED <<live, tags, saved, journal>>
      /\ saved = Absent \/ "save" \in Faults
  BY DEF Removed, host, disk
<1>2. CASE Leave(t)
  <2>1. Findable(t) = tags
    BY <1>1 DEF Findable
  <2>2. QED
    BY <1>1, <1>2, <2>1, LeaveIsSafe DEF OnDisk
<1>3. CASE ~Leave(t)
  <2>1. pc'[t] = "reap_claims"
    BY <1>3, StateIs DEF Removed, Goto
  <2>2. "reap_claims" \in Looking
    BY DEF Looking
  <2>3. QED
    BY <1>1, <2>1, <2>2, LookIsSafe
<1>4. QED
  BY <1>2, <1>3

\* The reaper's looks.
LEMMA LooksAreSafe ==
    ASSUME IInv, NEW t \in Tasks, Knows(t), FilesAgree, UNCHANGED mishaps,
           Reap(t) \/ ReapPending(t) \/ ReapFilter(t) \/ ReapClaims(t) \/ ReapList(t)
    PROVE  Safe(t)
<1>1. /\ pc[t] \in Looking \cup {"idle"} /\ UNCHANGED <<tags, saved, journal>> /\ live' \subseteq live
      /\ live \ {"claims"} \subseteq live'
  BY DEF Reap, ReapPending, ReapFilter, ReapClaims, ReapList, Looking, host, disk
<1>2. /\ pc'[t] \in {"reap_pending", "reap_claims", "reap_filter", "reap_lock", "reap_list",
                     "reap_claimed", "reap_state"}
      /\ pc'[t] = "reap_lock" => saved = Absent
  BY StateIs DEF Reap, ReapPending, ReapFilter, ReapClaims, ReapList, Goto
<1>3. live \cap Nodes \subseteq live'
  BY <1>1, LifecycleConstants
<1>4. pc'[t] \in Looking /\ pc'[t] \notin {"reap_busy", "reap_group", "reap_unowned", "reap_owned"}
  BY <1>2 DEF Looking
<1>5. QED
  BY <1>1, <1>2, <1>3, <1>4, LookIsSafe

\* What the reaper will delete, state.json does not claim.
LEMMA SparesClaimed ==
    ASSUME IInv, NEW t \in Tasks, Knows(t), FilesAgree, UNCHANGED mishaps,
           ReapClaimed(t) \/ ReapState(t) \/ ReapBusy(t) \/ ReapGroup(t)
    PROVE  Safe(t)
<1>1. pc[t] \in Looking /\ UNCHANGED <<live, tags, saved, journal>>
  BY DEF ReapClaimed, ReapState, ReapBusy, ReapGroup, Looking, host, disk
<1>2. PICK q \in Locals : q = me[t]
  BY StateIs
<1>3. {"reap_group", "reap_busy", "reap_unowned"} \subseteq Looking
  BY DEF Looking
<1>4. CASE ReapGroup(t)
  <2>1. pc[t] = "reap_group" /\ pc'[t] = "reap_unowned"
        /\ me'[t] = [q EXCEPT !.add = q.rem \ tags, !.rem = q.rem \cap tags]
    BY <1>2, <1>4, StateIs DEF ReapGroup, Goto
  <2>2. me'[t].add = q.rem \ tags /\ me'[t].rem = q.rem \cap tags
    BY <2>1 DEF Locals
  <2>3. Intact(t) => q.rem \cap Claimed = {}
    BY <1>2, <2>1 DEF Intact
  <2>4. QED
    BY <1>1, <1>3, <2>1, <2>2, <2>3, LookIsSafe
<1>5. CASE ReapState(t) /\ saved = Absent
  <2>1. pc'[t] = "reap_busy"
    BY <1>5, StateIs DEF ReapState, Goto
  <2>2. QED
    BY <1>1, <1>3, <1>5, <2>1, LookIsSafe
<1>6. CASE ReapClaimed(t) \/ ReapBusy(t) \/ (ReapState(t) /\ saved # Absent)
  <2>1. PICK s : /\ me' = [me EXCEPT ![t].rem = s] /\ pc'[t] = "reap_group"
                 /\ Intact(t) => s \cap Claimed = {}
    <3>1. CASE ReapClaimed(t)
      <4>1. PICK s : s = IF saved = Absent THEN {} ELSE q.rem \ saved
        OBVIOUS
      <4>2. me' = [me EXCEPT ![t].rem = s] /\ pc'[t] = "reap_group"
        BY <1>2, <3>1, <4>1, StateIs DEF ReapClaimed, Goto
      <4>3. s \cap Claimed = {}
        BY <4>1 DEF Claimed
      <4>4. QED
        BY <4>2, <4>3
    <3>2. CASE ReapBusy(t)
      <4>1. Intact(t) => Claimed = {}
        BY <3>2 DEF ReapBusy, Intact, Claimed
      <4>2. QED
        BY <1>2, <3>2, <4>1, StateIs DEF ReapBusy, Goto
    <3>3. CASE ReapState(t) /\ saved # Absent
      <4>1. PICK s : s = {}
        OBVIOUS
      <4>2. me' = [me EXCEPT ![t].rem = s] /\ pc'[t] = "reap_group"
        BY <3>3, <4>1, StateIs DEF ReapState, Goto
      <4>3. s \cap Claimed = {}
        BY <4>1
      <4>4. QED
        BY <4>2, <4>3
    <3>4. QED
      BY <1>6, <3>1, <3>2, <3>3
  <2>2. me'[t].rem = s
    <3>1. me'[t] = [q EXCEPT !.rem = s]
      BY <1>2, <2>1, StateIs
    <3>2. QED
      BY <3>1 DEF Locals
  <2>3. QED
    BY <1>1, <1>3, <2>1, <2>2, LookIsSafe
<1>7. QED
  BY <1>4, <1>5, <1>6

\* The reaper unwinds a journal for want of a state.json.
LEMMA ReapJournalIsSafe ==
    ASSUME IInv, NEW t \in Tasks, Knows(t), FilesAgree, ReapJournal(t), UNCHANGED mishaps
    PROVE  Safe(t)
<1>1. pc[t] = "reap_lock" /\ UNCHANGED <<live, tags, saved, journal>>
  BY DEF ReapJournal, host, disk
<1>2. PICK q \in Locals : q = me[t]
  BY StateIs
<1>3. CASE holder = Nobody /\ journal # Absent
  <2>1. pc'[t] = "unwind" /\ me'[t] = [q EXCEPT !.entries = journal, !.after = "reaped", !.before = live]
    BY <1>2, <1>3, StateIs DEF ReapJournal, Goto
  <2>2. me'[t].entries = journal /\ me'[t].after = "reaped"
    BY <2>1 DEF Locals
  <2>3. Noted' = Noted /\ Claimed' = Claimed /\ FilesAgree' /\ Noted = Range(journal)
    BY <1>1, <1>3, FilesStay DEF Noted
  <2>4. Knows(t)'
    BY <1>1, <2>1, <2>2, <2>3 DEF Knows, Making
  <2>5. Keeps(t)
    BY <1>1, <1>3, <2>1, <2>2, <2>3 DEF Keeps, Missing, Findable, JustMade, Making, OnDisk
  <2>6. Intact(t) => Intact(t)'
    BY <1>1, <2>1, <2>3 DEF Intact, Making, Claimed
  <2>7. QED
    BY <2>3, <2>4, <2>5, <2>6 DEF Safe
<1>4. CASE ~(holder = Nobody /\ journal # Absent)
  <2>1. pc'[t] = "reap_claims"
    BY <1>4, StateIs DEF ReapJournal, Goto
  <2>2. "reap_claims" \in Looking /\ "reap_lock" \in Looking
    BY DEF Looking
  <2>3. QED
    BY <1>1, <2>1, <2>2, LookIsSafe
<1>5. QED
  BY <1>3, <1>4

\* The reaper deletes a namespace that state.json does not claim; when that
\* fails it keeps its tag.
LEMMA ReapDeletesSafely ==
    ASSUME IInv, NEW t \in Tasks, Knows(t), FilesAgree, ReapUnowned(t) \/ ReapOwned(t)
    PROVE  Safe(t)
<1>1. PICK q \in Locals : q = me[t]
  BY StateIs
<1>2. pc[t] \in {"reap_unowned", "reap_owned"} /\ pc' = pc /\ UNCHANGED <<saved, journal>>
  BY DEF ReapUnowned, ReapOwned, disk
<1>3. PICK n \in Nodes, l \in Locals : /\ ReapNamespace(t, n, l) /\ l.rem \subseteq q.rem /\ l.add \subseteq q.add
                                       /\ Intact(t) => n \notin Claimed
  <2>1. CASE ReapUnowned(t)
    <3>1. PICK n \in q.add : ReapNamespace(t, n, [me[t] EXCEPT !.add = @ \ {n}])
      BY <1>1, <2>1 DEF ReapUnowned
    <3>2. PICK l : l = [q EXCEPT !.add = @ \ {n}]
      OBVIOUS
    <3>3. l \in Locals /\ l.rem = q.rem /\ l.add = q.add \ {n} /\ n \in Nodes
      BY <3>1, <3>2 DEF Locals
    <3>4. ReapNamespace(t, n, l)
      BY <1>1, <3>1, <3>2
    <3>5. Intact(t) => n \notin Claimed
      BY <1>1, <2>1, <3>1 DEF ReapUnowned, Intact
    <3>6. QED
      BY <3>3, <3>4, <3>5
  <2>2. CASE ReapOwned(t)
    <3>1. PICK n \in q.rem : ReapNamespace(t, n, [me[t] EXCEPT !.rem = @ \ {n}])
      BY <1>1, <2>2 DEF ReapOwned
    <3>2. PICK l : l = [q EXCEPT !.rem = @ \ {n}]
      OBVIOUS
    <3>3. l \in Locals /\ l.rem = q.rem \ {n} /\ l.add = q.add /\ n \in Nodes
      BY <3>1, <3>2 DEF Locals
    <3>4. ReapNamespace(t, n, l)
      BY <1>1, <3>1, <3>2
    <3>5. Intact(t) => n \notin Claimed
      BY <1>1, <2>2, <3>1 DEF ReapOwned, Intact
    <3>6. QED
      BY <3>3, <3>4, <3>5
  <2>3. QED
    BY <2>1, <2>2
<1>4. n \in Resources
  BY DEF Resources
<1>5. /\ \/ me'[t] = l /\ live' = live \ {n} /\ mishaps' = mishaps
         \/ me'[t] = [l EXCEPT !.failed = TRUE] /\ live' = live /\ mishaps' = mishaps + 1
      /\ live' = live => tags' = tags
      /\ tags \ {n} \subseteq tags'
  <2>1. CASE n \notin live /\ me' = [me EXCEPT ![t] = l] /\ UNCHANGED <<live, tags, mishaps>>
    BY <2>1, StateIs
  <2>2. CASE n \in live /\ Delete(t, n, l) /\ tags' = tags \ (live \ live')
    BY <1>4, <2>2, DeleteDoes
  <2>3. QED
    BY <1>3, <2>1, <2>2 DEF ReapNamespace
<1>6. me'[t].rem \subseteq q.rem /\ me'[t].add \subseteq q.add
  <2>1. PICK k : k = [l EXCEPT !.failed = TRUE]
    OBVIOUS
  <2>2. k.rem = l.rem /\ k.add = l.add
    BY <2>1 DEF Locals
  <2>3. QED
    BY <1>3, <1>5, <2>1, <2>2
<1>7. Noted' = Noted /\ Claimed' = Claimed /\ FilesAgree'
  BY <1>2, FilesStay
<1>8. Knows(t)'
  BY <1>2, <1>7 DEF Knows, Making
<1>9. Findable(t) \subseteq Findable(t)' \cup (tags \ tags')
  BY <1>2 DEF Findable, Making, OnDisk, Claimed, Registered, Noted
<1>10. Keeps(t)
  BY <1>4, <1>5, <1>9 DEF Keeps, Missing
<1>11. Intact(t) => Intact(t)'
  <2>1. mishaps \in Nat
    BY StateIs
  <2>2. QED
    BY <1>1, <1>2, <1>3, <1>5, <1>6, <1>7, <2>1 DEF Intact, Making
<1>12. QED
  BY <1>7, <1>8, <1>10, <1>11 DEF Safe

\* The owner's lock, taken and given back.
LEMMA ReapOwnerIsSafe ==
    ASSUME IInv, NEW t \in Tasks, Knows(t), FilesAgree, UNCHANGED mishaps, ReapOwner(t) \/ ReapRelease(t)
    PROVE  Safe(t)
<1>1. /\ pc[t] \in {"reap_unowned", "reap_owned"} /\ pc'[t] \in {"reap_owned", "reaped"}
      /\ UNCHANGED <<live, tags, saved, journal, me>>
  BY StateIs DEF ReapOwner, ReapRelease, Goto, host, disk
<1>2. "reap_unowned" \in Looking /\ "reaped" \in Looking
  BY DEF Looking
<1>3. Intact(t) => me[t].rem \cap Claimed = {}
  BY <1>1 DEF Intact
<1>4. QED
  BY <1>1, <1>2, <1>3, LookIsSafe

\* Every step of a run that is no apply is safe.
LEMMA StepIsSafe ==
    ASSUME IInv, NEW t \in Tasks, Knows(t), FilesAgree, "apply" \notin Ops, Step(t)
    PROVE  Safe(t)
<1>1. CASE DeployStep(t) /\ UNCHANGED mishaps
  BY <1>1, DeployIsSafe, RegisterIsSafe, AllocateFailsIsSafe, RecordsAreSafe, DeploySavesIsSafe DEF DeployStep
<1>2. CASE ExecuteStep(t) /\ UNCHANGED mishaps
  BY <1>2, CreatesSafely, RecordsAreSafe, StartUnwindIsSafe, UnwoundIsSafe, RegisterIsSafe, EndIsSafe
     DEF ExecuteStep
<1>3. CASE HandleStep(t) /\ UNCHANGED mishaps
  BY <1>3, LoadsSafely, EndIsSafe, NoApply, DestroyIsSafe, RemovesSafely, RemovedIsSafe DEF HandleStep
<1>4. CASE ReapStep(t) /\ UNCHANGED mishaps
  BY <1>4, LooksAreSafe, SparesClaimed, ReapJournalIsSafe, ReapOwnerIsSafe, EndIsSafe DEF ReapStep
<1>5. CASE DeletingStep(t)
  BY <1>5, NoApply, UnwindIsSafe, DestroyNodeIsSafe, ReapDeletesSafely DEF DeletingStep
<1>6. QED
  BY <1>1, <1>2, <1>3, <1>4, <1>5, KillIsSafe DEF Step

\* What a step loses is what it keeps no trace of: the subnets that spill
\* stay so until they are in hand again.
LEMMA SpillsAreNotLost ==
    ASSUME IInv, NEW t \in Tasks, Spills(t), Keeps(t)
    PROVE  \/ mishaps' = mishaps /\ Lost(t)' \subseteq Lost(t)
           \/ mishaps' = mishaps + 1 /\ \E x : Lost(t)' \subseteq Lost(t) \cup {x}
<1>1. spilled \subseteq {"subnets"}
  BY DEF IInv, TypeOK
<1>2. Lost(t)' \cap spilled = {}
  <2>1. CASE pc'[t] = "allocated"
    <3>1. "subnets" \in Findable(t)'
      BY <2>1 DEF Findable, Making, JustMade
    <3>2. QED
      BY <1>1, <3>1 DEF Lost, Missing
  <2>2. CASE pc'[t] # "allocated"
    BY <2>2 DEF Spills, Lost, Missing
  <2>3. QED
    BY <2>1, <2>2
<1>3. pc'[t] = "idle" => "subnets" \in live \/ "subnets" \notin Lost(t)'
  BY DEF Spills, Lost, Missing
<1>4. CASE mishaps' = mishaps
  BY <1>2, <1>3, <1>4 DEF Keeps, Lost
<1>5. CASE mishaps' = mishaps + 1 /\ mishaps' # mishaps
  BY <1>2, <1>5 DEF Keeps, Lost
<1>6. QED
  BY <1>4, <1>5 DEF Keeps

\* A set that grows by at most one element, and then for a mishap, stays few.
LEMMA FewStayFew ==
    ASSUME NEW S, IsFiniteSet(S), NEW T, NEW m \in Nat, NEW n, Cardinality(S) <= m,
           (n = m /\ T \subseteq S) \/ (n = m + 1 /\ \E x : T \subseteq S \cup {x})
    PROVE  IsFiniteSet(T) /\ Cardinality(T) <= n
<1>1. Cardinality(S) \in Nat
  BY FS_CardinalityType
<1>2. CASE n = m /\ T \subseteq S
  <2>1. IsFiniteSet(T) /\ Cardinality(T) <= Cardinality(S)
    BY <1>2, FS_Subset
  <2>2. Cardinality(T) \in Nat
    BY <2>1, FS_CardinalityType
  <2>3. QED
    BY <1>1, <1>2, <2>1, <2>2
<1>3. CASE n = m + 1 /\ \E x : T \subseteq S \cup {x}
  <2>1. PICK x : T \subseteq S \cup {x}
    BY <1>3
  <2>2. IsFiniteSet(S \cup {x}) /\ Cardinality(S \cup {x}) <= Cardinality(S) + 1
    BY <1>1, FS_AddElement
  <2>3. IsFiniteSet(T) /\ Cardinality(T) <= Cardinality(S \cup {x})
    BY <2>1, <2>2, FS_Subset
  <2>4. Cardinality(T) \in Nat /\ Cardinality(S \cup {x}) \in Nat
    BY <2>2, <2>3, FS_CardinalityType
  <2>5. QED
    BY <1>1, <1>3, <2>2, <2>3, <2>4
<1>4. QED
  BY <1>2, <1>3

-----------------------------------------------------------------------------
\* Two runs that overlap

\* A run without the lock leaves the holder's files alone; of what exists it
\* deletes at most, and untags nothing that stays.
LEMMA OutsiderIsHarmless ==
    ASSUME IInv, NEW t \in Tasks, Step(t), holder \notin {t, Nobody}
    PROVE  /\ UNCHANGED <<saved, journal>>
           /\ live' \subseteq live /\ live' \cap tags \subseteq tags'
<1>1. pc[t] \notin Held
  BY StateIs
<1>2. ~DeployStep(t) /\ ~ExecuteStep(t)
  BY <1>1 DEF DeployStep, ExecuteStep, Held, Executed, CanFail, Deploy, Allocate, AllocateFails, RecordSubnets,
              RecordClaims, Claim, DeploySaves, Create, RecordNode, Tag, Fail, Panic, Unwound, SaveTopology, Finish
<1>3. CASE HandleStep(t)
  BY <1>1, <1>3 DEF HandleStep, Held, Executed, Load, LoadTopology, Refused, Apply, ApplyDiscards, ApplySaves,
                    ApplyNotSaved, Destroy, Destroyed, RemoveDir, Removed, host, disk
<1>4. CASE ReapStep(t)
  BY <1>1, <1>4 DEF ReapStep, Held, Reap, ReapPending, ReapFilter, ReapJournal, ReapClaims, ReapList, ReapClaimed,
                    ReapState, ReapBusy, ReapGroup, ReapOwner, ReapRelease, Reaped, host, disk
<1>5. CASE DeletingStep(t)
  <2>1. ReapUnowned(t)
    BY <1>1, <1>5 DEF DeletingStep, Held, RemoveNode, Unwind, DestroyNode, ReapOwned
  <2>2. PICK n \in me[t].add : ReapNamespace(t, n, [me[t] EXCEPT !.add = @ \ {n}])
    BY <2>1 DEF ReapUnowned
  <2>3. live' \subseteq live /\ live' \cap tags \subseteq tags'
    BY <2>2 DEF ReapNamespace, Delete
  <2>4. QED
    BY <2>1, <2>3 DEF ReapUnowned, disk
<1>6. CASE Kill(t)
  BY <1>6 DEF Kill, host, disk
<1>7. QED
  BY <1>2, <1>3, <1>4, <1>5, <1>6 DEF Step

\* A run that waits knows what it knew, whatever another does.
LEMMA OthersKnow ==
    ASSUME IInv, NEW t \in Tasks, Step(t), NEW u \in Tasks \ {t}, Knows(u), "destroy" \notin Ops
    PROVE  Knows(u)'
<1>1. pc'[u] = pc[u] /\ me'[u] = me[u] /\ (holder = u <=> pc[u] \in Held) /\ u # Nobody
  BY StepDoes, StateIs DEF Good, Frame
<1>2. CASE holder = u
  <2>1. UNCHANGED <<saved, journal>>
    BY <1>1, <1>2, OutsiderIsHarmless
  <2>2. Noted' = Noted
    BY <2>1, FilesStay
  <2>3. QED
    BY <1>1, <2>1, <2>2 DEF Knows, MadeBy
<1>3. CASE holder # u
  BY <1>1, <1>3 DEF Knows, Held, Making
<1>4. QED
  BY <1>2, <1>3

\* The invariant of runs none of which is an apply.
Tracked == FilesAgree /\ (\A t \in Tasks : Knows(t)) /\ LostAreFew

\* A step of a run that has the lock, or could take it: what it has lost is
\* few, and what nobody holds is lost to everybody alike.
LEMMA HolderLosesFew ==
    ASSUME IInv, IInv', NEW t \in Tasks, Step(t), Spills(t), Keeps(t), LostAreFew, holder \in {t, Nobody}
    PROVE  LostAreFew'
<1>1. mishaps \in Nat /\ holder' \in {t, Nobody}
  BY StepDoes, StateIs DEF Good, LockMoves
<1>2. IsFiniteSet(Lost(t)') /\ Cardinality(Lost(t)') <= mishaps'
  <2>1. PICK S, T : S = Lost(t) /\ T = Lost(t)'
    OBVIOUS
  <2>2. IsFiniteSet(S) /\ Cardinality(S) <= mishaps
    BY <2>1 DEF LostAreFew
  <2>3. (mishaps' = mishaps /\ T \subseteq S) \/ (mishaps' = mishaps + 1 /\ \E x : T \subseteq S \cup {x})
    BY <2>1, SpillsAreNotLost
  <2>4. IsFiniteSet(T) /\ Cardinality(T) <= mishaps'
    BY <1>1, <2>2, <2>3, FewStayFew
  <2>5. QED
    BY <2>1, <2>4
<1>3. ASSUME NEW u \in Tasks, u # t, holder' \in {u, Nobody} PROVE Lost(u)' = Lost(t)'
  <2>1. holder' = Nobody /\ t # Nobody /\ u # Nobody
    BY <1>1, <1>3, StateIs
  <2>2. pc'[t] \notin Held /\ pc'[u] \notin Held
    BY <2>1 DEF IInv, HolderIsAtWork
  <2>3. Findable(t)' = OnDisk' /\ Findable(u)' = OnDisk'
    BY <2>2 DEF Findable, Held, Making
  <2>4. QED
    BY <2>3 DEF Lost, Missing
<1>4. SUFFICES ASSUME NEW u \in Tasks, holder' \in {u, Nobody}
               PROVE  IsFiniteSet(Lost(u)') /\ Cardinality(Lost(u)') <= mishaps'
  BY DEF LostAreFew
<1>5. Lost(u)' = Lost(t)'
  BY <1>3, <1>4
<1>6. QED
  BY <1>2, <1>5

\* A step beside the lock's holder loses nothing of the holder's.
LEMMA OutsiderLosesNone ==
    ASSUME IInv, NEW t \in Tasks, Step(t), Spills(t), LostAreFew, holder \notin {t, Nobody}
    PROVE  LostAreFew'
<1>1. PICK h \in Tasks : h = holder /\ h # t /\ h # Nobody
  BY DEF IInv, TypeOK
<1>2. /\ holder' = h /\ pc'[h] = pc[h] /\ me'[h] = me[h]
      /\ mishaps \in Nat /\ mishaps' \in {mishaps, mishaps + 1}
  BY <1>1, StepDoes, StateIs DEF Good, Frame, LockMoves, Tidy
<1>3. UNCHANGED <<saved, journal>> /\ live' \subseteq live /\ live' \cap tags \subseteq tags'
  BY OutsiderIsHarmless
<1>4. Noted' = Noted /\ Claimed' = Claimed /\ Registered' = Registered
  BY <1>3, FilesStay
<1>5. Findable(h) \subseteq Findable(h)' \cup (tags \ tags')
  BY <1>2, <1>3, <1>4 DEF Findable, JustMade, OnDisk
<1>6. Lost(h)' \subseteq Lost(h)
  <2>1. pc'[t] # "allocated"
    BY <1>1, StepDoes, StateIs DEF Good, LockMoves, Held
  <2>2. live' \cap spilled \subseteq spilled'
    BY <2>1 DEF Spills
  <2>3. QED
    BY <1>3, <1>5, <2>2 DEF Lost, Missing
<1>7. IsFiniteSet(Lost(h)') /\ Cardinality(Lost(h)') <= mishaps'
  <2>1. PICK S, T : S = Lost(h) /\ T = Lost(h)'
    OBVIOUS
  <2>2. IsFiniteSet(S) /\ Cardinality(S) <= mishaps
    BY <1>1, <2>1 DEF LostAreFew
  <2>3. T \subseteq S
    BY <1>6, <2>1
  <2>4. IsFiniteSet(T) /\ Cardinality(T) <= mishaps'
    BY <1>2, <2>2, <2>3, FewStayFew
  <2>5. QED
    BY <2>1, <2>4
<1>8. QED
  BY <1>1, <1>2, <1>7 DEF LostAreFew

\* The invariant holds of deploys and reaps by any tasks, and of destroys
\* too when one task takes all the runs.
LEMMA TrackedHolds ==
    ASSUME "apply" \notin Ops, "destroy" \in Ops => \E t : Tasks = {t}
    PROVE  Spec => []Tracked
<1>1. Init => Tracked
  <2>1. SUFFICES ASSUME Init PROVE Tracked
    OBVIOUS
  <2>2. live = {} /\ saved = Absent /\ mishaps = 0 /\ \A t \in Tasks : pc[t] = "idle"
    BY <2>1 DEF Init
  <2>3. \A t \in Tasks : Lost(t) = {}
    BY <2>2 DEF Lost, Missing
  <2>4. LostAreFew
    BY <2>2, <2>3, FS_EmptySet DEF LostAreFew
  <2>5. FilesAgree /\ \A t \in Tasks : Knows(t)
    BY <2>2 DEF FilesAgree, Knows, Making
  <2>6. QED
    BY <2>4, <2>5 DEF Tracked
<1>2. IInv /\ IInv' /\ Tracked /\ [Next]_vars => Tracked'
  <2>1. SUFFICES ASSUME IInv, IInv', Tracked, [Next]_vars PROVE Tracked'
    OBVIOUS
  <2>2. CASE UNCHANGED vars
    <3>1. UNCHANGED <<holder, live, tags, saved, journal, pc, me, spilled, mishaps>>
      BY <2>2 DEF vars, host, disk
    <3>2. Noted' = Noted /\ Claimed' = Claimed /\ Registered' = Registered /\ FilesAgree'
      BY <2>1, <3>1, FilesStay DEF Tracked
    <3>3. \A t \in Tasks : Lost(t)' = Lost(t) /\ (Knows(t) => Knows(t)')
      BY <3>1, <3>2 DEF Lost, Missing, Findable, JustMade, OnDisk, Knows, MadeBy
    <3>4. QED
      BY <2>1, <3>1, <3>2, <3>3 DEF Tracked, LostAreFew
  <2>3. CASE Next
    <3>1. PICK t \in Tasks : Step(t) /\ Spills(t)
      BY <2>3 DEF Next
    <3>2. Safe(t)
      BY <2>1, <3>1, StepIsSafe DEF Tracked
    <3>3. ASSUME NEW u \in Tasks, u # t PROVE Knows(u)'
      BY <2>1, <3>1, <3>3, OthersKnow DEF Tracked
    <3>4. LostAreFew'
      BY <2>1, <3>1, <3>2, HolderLosesFew, OutsiderLosesNone DEF Tracked, Safe
    <3>5. QED
      BY <3>2, <3>3, <3>4 DEF Tracked, Safe
  <2>4. QED
    BY <2>1, <2>2, <2>3
<1>3. QED
  BY <1>1, <1>2, LifecycleInvariant, PTL DEF Spec

\* Whatever deploys and reaps overlap, and destroys when the runs come one
\* after another, every resource, subnets included, is claimed, journaled,
\* tagged, registered to a lab with state or in the hands of the run under
\* way, but for one per kill or failed delete (ResourcesTracked): for any
\* nodes and registrations and every fault, a failed save among them.  Only
\* the subnets of a deploy whose pool ran full (spilled) are set apart.
THEOREM ResourcesStayTracked ==
    ASSUME Tasks # {}, "apply" \notin Ops, "destroy" \in Ops => \E t : Tasks = {t}
    PROVE  Spec => []ResourcesTracked
<1>1. IInv /\ Tracked => ResourcesTracked
  <2>1. SUFFICES ASSUME IInv, Tracked PROVE ResourcesTracked
    OBVIOUS
  <2>2. ASSUME NEW t \in Tasks, holder \in {t, Nobody} PROVE ResourcesTracked
    <3>1. /\ IsFiniteSet(Lost(t)) /\ Cardinality(Lost(t)) <= mishaps
          /\ (holder = t <=> pc[t] \in Held) /\ t # Nobody /\ mishaps \in Nat
      BY <2>1, <2>2, StateIs DEF Tracked, LostAreFew
    <3>2. Findable(t) \subseteq Claimed \cup tags \cup InHand \cup Noted \cup Registered
      <4>1. pc[t] \in {"destroy", "remove_dir", "unwind", "created", "allocated"} => holder = t
        BY <3>1 DEF Held
      <4>2. /\ holder = t => me[t].rem \cup {me[t].cur} \cup Range(me[t].entries) \subseteq InHand
            /\ holder = t /\ pc[t] = "allocated" => "subnets" \in InHand
        BY <3>1 DEF InHand
      <4>3. JustMade(t) \subseteq InHand
        BY <4>1, <4>2 DEF JustMade
      <4>4. QED
        BY <4>1, <4>2, <4>3 DEF Findable, OnDisk
    <3>3. Untracked \ spilled \in SUBSET Lost(t)
      BY <3>2 DEF Untracked, Lost, Missing
    <3>4. /\ IsFiniteSet(Untracked \ spilled)
          /\ Cardinality(Untracked \ spilled) <= Cardinality(Lost(t))
      BY <3>1, <3>3, FS_Subset
    <3>5. Cardinality(Untracked \ spilled) \in Nat /\ Cardinality(Lost(t)) \in Nat
      BY <3>1, <3>4, FS_CardinalityType
    <3>6. QED
      BY <2>1, <3>1, <3>4, <3>5 DEF IInv, ResourcesTracked
  <2>3. QED
    BY <2>1, <2>2 DEF IInv, TypeOK
<1>2. QED
  BY <1>1, TrackedHolds, LifecycleInvariant, PTL

\* When one task takes all the runs, no save and no removal of the directory
\* fails and none is an apply, a lab that has its files and no run under way
\* has its nodes (SavedLabIsLive), whatever operations fail or panic on the
\* way: Intact is inductive beside what the run knows of the files.
THEOREM SavedLabsStayLive ==
    ASSUME NEW t, Tasks = {t}, "apply" \notin Ops, "save" \notin Faults
    PROVE  Spec => []SavedLabIsLive
<1>1. Init => Intact(t)
  BY DEF Init, Intact, Claimed, Making
<1>2. IInv /\ Tracked /\ Intact(t) /\ [Next]_vars => Intact(t)'
  <2>1. SUFFICES ASSUME IInv, Tracked, Intact(t), [Next]_vars PROVE Intact(t)'
    OBVIOUS
  <2>2. CASE UNCHANGED vars
    BY <2>1, <2>2 DEF vars, host, disk, Intact, Claimed
  <2>3. CASE Next
    <3>1. Step(t) /\ t \in Tasks
      BY <2>3 DEF Next
    <3>2. Safe(t)
      BY <2>1, <3>1, StepIsSafe DEF Tracked
    <3>3. QED
      BY <2>1, <3>2 DEF Safe
  <2>4. QED
    BY <2>1, <2>2, <2>3
<1>3. IInv /\ Intact(t) => SavedLabIsLive
  <2>1. SUFFICES ASSUME IInv, Intact(t), holder = Nobody, mishaps = 0 PROVE Claimed \subseteq live
    BY DEF SavedLabIsLive
  <2>2. pc[t] \notin Held
    BY <2>1, StateIs
  <2>3. QED
    BY <2>1, <2>2 DEF Intact, Held
<1>4. Spec => []Tracked
  BY TrackedHolds
<1>5. QED
  BY <1>1, <1>2, <1>3, <1>4, LifecycleInvariant, PTL DEF Spec
=============================================================================
