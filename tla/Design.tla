------------------------------- MODULE Design -------------------------------
(***************************************************************************)
(* A design tab of the GUI (bins/gui/src/reduce.rs): a topology file in an *)
(* editor, while other programs write the same file.                       *)
(*                                                                         *)
(* The reducer handles one message at a time; reading, writing and polling *)
(* the file are effects that run on other threads and answer with a        *)
(* message, in any order.  A text is a number, a modification time the     *)
(* number of the write.  Format is an edit.  One poll runs at a time: it   *)
(* is a stat, against a timer of seconds.  The file is there throughout,   *)
(* and the source stays the same file (SaveAs is not modelled).            *)
(***************************************************************************)
EXTENDS Naturals, FiniteSets

CONSTANTS MaxTexts,   \* bound: texts typed here or written elsewhere
          MaxWrites,  \* bound: writes of the file
          MaxLoads,   \* bound: loads, so generations
          None        \* no text of the user's to lose

ASSUME DesignConstants ==
    /\ MaxTexts \in Nat /\ MaxWrites \in Nat /\ MaxLoads \in Nat
    /\ None \notin Nat

VARIABLES file,    \* the file: its text and modification time
          tab,     \* the tab's Design, and whether it is open
          loads,   \* Load effects under way
          saves,   \* Save effects under way
          poll,    \* the Poll effect under way: its place and times
          texts,   \* how many texts there were
          mine,    \* what the user typed and nobody saved or gave up (history)
          races    \* "edit in save", and "other" things that hit an effect (history)

vars == <<file, tab, loads, saves, poll, texts, mine, races>>
effects == <<loads, saves, poll>>

NoPoll == [pc |-> "none", seen |-> 0, now |-> 0]

\* The tab was opened and its first load answered.
Init ==
    /\ file = [text |-> 0, time |-> 0]
    /\ tab = [open |-> TRUE, discard |-> FALSE, editor |-> 0, edited |-> FALSE,
              changed |-> FALSE, loading |-> FALSE, saving |-> FALSE, modified |-> 0, gen |-> 0]
    /\ loads = {} /\ saves = {} /\ poll = NoPoll
    /\ texts = 0 /\ mine = None /\ races = {}

-----------------------------------------------------------------------------
\* The file

\* A write of the file falls between the two looks a load or one of the
\* other saves takes at it.
Hits(others) == (\E l \in loads : l.pc = "read" /\ l.gen = tab.gen) \/ (\E s \in others : s.pc = "written")

Race(hit, kind) == races' = IF hit THEN races \cup {kind} ELSE races

WriteFile(text, others) ==
    /\ file.time < MaxWrites
    /\ file' = [text |-> text, time |-> file.time + 1]
    /\ Race(Hits(others), "other")

\* Another program.
External ==
    /\ texts < MaxTexts
    /\ texts' = texts + 1
    /\ WriteFile(texts + 1, saves)
    /\ UNCHANGED <<tab, effects, mine>>

-----------------------------------------------------------------------------
\* Loading

\* load_from and analyze: a new generation, of the text given or the file's.
StartLoad(d, edited, text) ==
    /\ d.gen < MaxLoads
    /\ tab' = [d EXCEPT !.loading = TRUE, !.gen = d.gen + 1]
    /\ loads' = loads \cup {[gen |-> d.gen + 1, pc |-> IF edited THEN "done" ELSE "asked",
                             edited |-> edited, text |-> text, time |-> 0]}

\* Reload: the file's text, whatever the editor holds.
Reload ==
    /\ tab.open
    /\ StartLoad(tab, FALSE, 0)
    /\ mine' = None
    /\ UNCHANGED <<file, saves, poll, texts, races>>

\* The params changed: the editor's text when it has edits.
Reanalyse ==
    /\ tab.open
    /\ StartLoad(tab, tab.edited, IF tab.edited THEN tab.editor ELSE 0)
    /\ UNCHANGED <<file, saves, poll, texts, mine, races>>

\* doc::load: the text, and then the time.
LoadReads(l) ==
    /\ l.pc = "asked"
    /\ loads' = (loads \ {l}) \cup {[l EXCEPT !.pc = "read", !.text = file.text]}
    /\ UNCHANGED <<file, tab, saves, poll, texts, mine, races>>

LoadStats(l) ==
    /\ l.pc = "read"
    /\ loads' = (loads \ {l}) \cup {[l EXCEPT !.pc = "done", !.time = file.time]}
    /\ UNCHANGED <<file, tab, saves, poll, texts, mine, races>>

\* What the tab makes of a load of its generation: one from disk goes to
\* the editor.
TakeIn(l) ==
    /\ tab' = IF l.edited THEN [tab EXCEPT !.loading = FALSE]
              ELSE [tab EXCEPT !.loading = FALSE, !.editor = l.text, !.edited = FALSE,
                               !.changed = FALSE, !.modified = l.time]
    /\ Race(saves # {} /\ ~l.edited, "other")

\* Mutant: whichever generation it is of.
LoadedAny(l) ==
    /\ l.pc = "done"
    /\ loads' = loads \ {l}
    /\ IF tab.open THEN TakeIn(l) ELSE UNCHANGED <<tab, races>>
    /\ UNCHANGED <<file, saves, poll, texts, mine>>

Loaded(l) ==
    /\ l.pc = "done"
    /\ loads' = loads \ {l}
    /\ IF tab.open /\ l.gen = tab.gen THEN TakeIn(l) ELSE UNCHANGED <<tab, races>>
    /\ UNCHANGED <<file, saves, poll, texts, mine>>

-----------------------------------------------------------------------------
\* Editing and saving

Edit ==
    /\ tab.open /\ texts < MaxTexts
    /\ texts' = texts + 1
    /\ StartLoad([tab EXCEPT !.editor = texts + 1, !.edited = TRUE], TRUE, texts + 1)
    /\ mine' = texts + 1
    /\ Race(saves # {}, "edit in save")
    /\ UNCHANGED <<file, saves, poll>>

\* The n-th save tells two of the same text apart.
Save ==
    /\ tab.open
    /\ Cardinality(saves) + file.time < MaxWrites
    /\ tab' = [tab EXCEPT !.saving = TRUE]
    /\ \E n \in 1..MaxWrites :
        /\ \A s \in saves : s.n # n
        /\ \A m \in 1..(n - 1) : \E s \in saves : s.n = m
        /\ saves' = saves \cup {[n |-> n, pc |-> "asked", text |-> tab.editor, time |-> 0]}
    /\ Race(saves # {}, "other")
    /\ UNCHANGED <<file, loads, poll, texts, mine>>

SaveWrites(s) ==
    /\ s.pc = "asked"
    /\ WriteFile(s.text, saves \ {s})
    /\ saves' = (saves \ {s}) \cup {[s EXCEPT !.pc = "written"]}
    /\ mine' = IF mine = s.text THEN None ELSE mine
    /\ UNCHANGED <<tab, loads, poll, texts>>

SaveStats(s) ==
    /\ s.pc = "written"
    /\ saves' = (saves \ {s}) \cup {[s EXCEPT !.pc = "done", !.time = file.time]}
    /\ UNCHANGED <<file, tab, loads, poll, texts, mine, races>>

SaveFails(s) ==
    /\ s.pc = "asked"
    /\ saves' = (saves \ {s}) \cup {[s EXCEPT !.pc = "failed"]}
    /\ UNCHANGED <<file, tab, loads, poll, texts, mine, races>>

Saved(s) ==
    /\ s.pc \in {"done", "failed"}
    /\ saves' = saves \ {s}
    /\ \/ ~tab.open /\ UNCHANGED tab
       \/ tab.open /\ s.pc = "failed" /\ tab' = [tab EXCEPT !.saving = FALSE]
       \/ /\ tab.open /\ s.pc = "done"
          /\ tab' = [tab EXCEPT !.saving = FALSE, !.edited = FALSE, !.changed = FALSE, !.modified = s.time]
    /\ UNCHANGED <<file, loads, poll, texts, mine, races>>

-----------------------------------------------------------------------------
\* The poll for changes of others

Poll ==
    /\ tab.open /\ ~tab.loading /\ poll.pc = "none"
    /\ poll' = [pc |-> "asked", seen |-> tab.modified, now |-> 0]
    /\ UNCHANGED <<file, tab, loads, saves, texts, mine, races>>

PollStats ==
    /\ poll.pc = "asked"
    /\ poll' = IF file.time = poll.seen THEN NoPoll
               ELSE [poll EXCEPT !.pc = "changed", !.now = file.time]
    /\ UNCHANGED <<file, tab, loads, saves, texts, mine, races>>

\* Mutant: the file's text, whatever the editor holds.
ChangedReloads ==
    /\ poll.pc = "changed" /\ ~tab.saving /\ ~tab.loading /\ tab.open
    /\ poll' = NoPoll
    /\ StartLoad([tab EXCEPT !.modified = poll.now], FALSE, 0)
    /\ UNCHANGED <<file, saves, texts, mine, races>>

\* No edits to lose: the file is loaded again.
ChangedReload ==
    /\ poll.pc = "changed" /\ ~tab.saving /\ ~tab.edited /\ ~tab.loading /\ tab.open
    /\ poll' = NoPoll
    /\ StartLoad([tab EXCEPT !.modified = poll.now], FALSE, 0)
    /\ UNCHANGED <<file, saves, texts, mine, races>>

\* Mutant: the time is taken in and nobody asked.
ChangedUnasked ==
    /\ poll.pc = "changed" /\ ~tab.saving /\ tab.edited /\ tab.open
    /\ poll' = NoPoll
    /\ tab' = [tab EXCEPT !.modified = poll.now]
    /\ UNCHANGED <<file, loads, saves, texts, mine, races>>

\* Edits would be lost: ask.
ChangedAsk ==
    /\ poll.pc = "changed" /\ ~tab.saving /\ tab.edited /\ tab.open
    /\ poll' = NoPoll
    /\ tab' = [tab EXCEPT !.modified = poll.now, !.changed = TRUE]
    /\ UNCHANGED <<file, loads, saves, texts, mine, races>>

\* Taken for our own save.
ChangedInSave ==
    /\ poll.pc = "changed" /\ tab.saving /\ tab.open
    /\ poll' = NoPoll
    /\ tab' = [tab EXCEPT !.modified = poll.now]
    /\ Race(TRUE, "other")
    /\ UNCHANGED <<file, loads, saves, texts, mine>>

\* The tab is loading, or closed.
ChangedIgnored ==
    /\ poll.pc = "changed"
    /\ ~tab.open \/ (tab.loading /\ ~tab.saving /\ ~tab.edited)
    /\ poll' = NoPoll
    /\ UNCHANGED <<file, tab, loads, saves, texts, mine, races>>

KeepMine ==
    /\ tab.open /\ tab.changed
    /\ tab' = [tab EXCEPT !.changed = FALSE]
    /\ UNCHANGED <<file, effects, texts, mine, races>>

-----------------------------------------------------------------------------
\* Closing: one with unsaved edits asks first

Close ==
    /\ tab.open
    /\ tab' = IF tab.edited THEN [tab EXCEPT !.discard = TRUE] ELSE [tab EXCEPT !.open = FALSE]
    /\ UNCHANGED <<file, effects, texts, mine, races>>

Discard(yes) ==
    /\ tab.open /\ tab.discard
    /\ tab' = [tab EXCEPT !.discard = FALSE, !.open = ~yes]
    /\ mine' = IF yes THEN None ELSE mine
    /\ UNCHANGED <<file, effects, texts, races>>

-----------------------------------------------------------------------------

User == Reload \/ Reanalyse \/ Edit \/ Save \/ KeepMine \/ Close \/ Discard(TRUE) \/ Discard(FALSE)

Load == \E l \in loads : LoadReads(l) \/ LoadStats(l) \/ Loaded(l)

WriteBack == \E s \in saves : SaveWrites(s) \/ SaveStats(s) \/ SaveFails(s) \/ Saved(s)

Changed == ChangedReload \/ ChangedAsk \/ ChangedInSave \/ ChangedIgnored

Next == External \/ User \/ Load \/ WriteBack \/ Poll \/ PollStats \/ Changed

Spec == Init /\ [][Next]_vars

\* Effects run and answer, the timer ticks; the user and the other programs
\* do what they like.
FairSpec ==
    /\ Spec
    /\ WF_vars(Load) /\ WF_vars(WriteBack)
    /\ WF_vars(Poll) /\ WF_vars(PollStats) /\ WF_vars(Changed)

-----------------------------------------------------------------------------
\* Properties

Texts == 0..MaxTexts
Times == 0..MaxWrites
Tabs ==
    [open : BOOLEAN, discard : BOOLEAN, editor : Texts, edited : BOOLEAN, changed : BOOLEAN,
     loading : BOOLEAN, saving : BOOLEAN, modified : Times, gen : 0..MaxLoads]
Loads == [gen : 0..MaxLoads, pc : {"asked", "read", "done"}, edited : BOOLEAN, text : Texts, time : Times]
Saves == [n : 1..MaxWrites, pc : {"asked", "written", "done", "failed"}, text : Texts, time : Times]

\* Every variable has its type; a load of a generation is the only one.
TypeOK ==
    /\ file \in [text : Texts, time : Times]
    /\ tab \in Tabs /\ loads \subseteq Loads /\ saves \subseteq Saves
    /\ poll \in [pc : {"none", "asked", "changed"}, seen : Times, now : Times]
    /\ texts \in Texts /\ mine \in Texts \cup {None} /\ races \subseteq {"edit in save", "other"}
    /\ \A l, m \in loads : l.gen <= tab.gen /\ (l.gen = m.gen => l = m)

\* What the user typed is neither replaced nor closed without asking: until
\* it is written or given up, the editor holds it and the tab says so.
\* Not so when it was typed while a save ran, which then clears the mark.
EditsKept ==
    /\ TypeOK
    /\ mine # None /\ "edit in save" \notin races =>
            tab.open /\ tab.editor = mine /\ tab.edited

\* A tab that shows no edits and knows the file's time shows the file: no
\* load of an old text passes for the file.  A write that falls between an
\* effect's two looks at the file, and a poll that falls into a save, are
\* the cases the code does not tell apart.
CleanShowsFile ==
    tab.open /\ ~tab.edited /\ ~tab.loading /\ tab.modified = file.time /\ races = {}
        => tab.editor = file.text

\* A change made elsewhere reaches the editor of a tab without edits, unless
\* the user types or closes meanwhile.  Of a tab with edits the user is asked
\* about it, unless the edits are saved, given up or closed first: whatever
\* polls are dropped while a load is under way, one finds that the file's time
\* is not the one the tab knows.
ChangeIsNoticed ==
    /\ (tab.open /\ ~tab.edited /\ tab.editor # file.text)
            ~> (tab.editor = file.text \/ tab.edited \/ ~tab.open \/ races # {} \/ tab.gen = MaxLoads)
    /\ (tab.open /\ tab.edited /\ tab.modified # file.time)
            ~> (tab.changed \/ ~tab.edited \/ ~tab.open \/ races # {})

-----------------------------------------------------------------------------
\* The inductive invariant

\* No time was seen that the file did not have yet.
TimesFit ==
    /\ tab.modified <= file.time /\ poll.now <= file.time
    /\ \A l \in loads : l.time <= file.time
    /\ \A s \in saves : s.time <= file.time

\* The editor's text is there to be analysed; a tab loads while its
\* generation is under way.
LoadsFit ==
    \A l \in loads :
        /\ l.edited => l.pc = "done"
        /\ l.gen = tab.gen /\ tab.open => tab.loading

FromDisk(l) == l.gen = tab.gen /\ ~l.edited

\* No load will replace what the user typed, and a save that runs is of it.
EditsSafe ==
    mine # None /\ "edit in save" \notin races =>
        /\ tab.open /\ tab.editor = mine /\ tab.edited
        /\ \A l \in loads : ~FromDisk(l)
        /\ \A s \in saves : s.text = mine /\ s.pc \in {"asked", "failed"}

\* A text and a time that an effect took from the file belong together as
\* long as that is the file's time, and so do the editor's.
InStep ==
    races = {} =>
        /\ \A l \in loads :
            FromDisk(l) /\ (l.pc = "read" \/ (l.pc = "done" /\ l.time = file.time)) => l.text = file.text
        /\ \A s \in saves :
            /\ s.text = tab.editor
            /\ s.pc = "written" \/ (s.pc = "done" /\ s.time = file.time) => s.text = file.text
        /\ tab.open /\ ~tab.edited /\ (\A l \in loads : ~FromDisk(l)) /\ tab.modified = file.time
            => tab.editor = file.text

IInv == TypeOK /\ TimesFit /\ LoadsFit /\ EditsSafe /\ InStep
=============================================================================
