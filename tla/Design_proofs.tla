---------------------------- MODULE Design_proofs ----------------------------
(***************************************************************************)
(* Design for any number of texts, writes and loads: the inductive         *)
(* invariant IInv, that what the user typed is kept until it is written or *)
(* given up, and that a tab that shows no edits shows the file.            *)
(***************************************************************************)
EXTENDS Design, TLAPS

-----------------------------------------------------------------------------
\* The file

\* At first the tab shows the file, and nothing is under way.
LEMMA DesignInit == DesignConstants /\ Init => IInv
<1>1. SUFFICES ASSUME DesignConstants, Init PROVE IInv
  OBVIOUS
<1>2. 0 \in Texts /\ 0 \in Times /\ 0 \in 0..MaxLoads
  BY <1>1 DEF DesignConstants, Texts, Times
<1>3. TypeOK
  BY <1>1, <1>2 DEF Init, TypeOK, Tabs, NoPoll
<1>4. TimesFit /\ LoadsFit /\ EditsSafe /\ InStep
  BY <1>1, <1>2 DEF Init, TimesFit, LoadsFit, EditsSafe, InStep, NoPoll, DesignConstants
<1>5. QED
  BY <1>3, <1>4 DEF IInv

\* Nothing happens.
LEMMA StutterIInv == IInv /\ UNCHANGED vars => IInv'
BY ZenonT(60) DEF vars, effects, IInv, TypeOK, TimesFit, LoadsFit, EditsSafe, InStep, FromDisk

\* A write: no time that was seen is the file's any more.
LEMMA WriteIsNew ==
    ASSUME DesignConstants, TypeOK, NEW text \in Texts, file.time < MaxWrites,
           file' = [text |-> text, time |-> file.time + 1]
    PROVE  /\ file' \in [text : Texts, time : Times] /\ file'.text = text /\ file.time \in Times
           /\ \A x \in Times : x <= file.time => x <= file'.time /\ x # file'.time
<1>1. file.time \in 0..MaxWrites
  BY DEF TypeOK, Times
<1>2. PICK t \in Nat : t = file.time
  BY <1>1
<1>3. MaxWrites \in Nat /\ t < MaxWrites
  BY <1>2 DEF DesignConstants
<1>4. t + 1 \in Times /\ t \in Times
  BY <1>3 DEF Times
<1>5. file' = [text |-> text, time |-> t + 1]
  BY <1>2
<1>6. \A x \in Times : x <= t => x <= t + 1 /\ x # t + 1
  BY DEF Times
<1>7. QED
  BY <1>2, <1>4, <1>5, <1>6

\* A write by another program.
LEMMA ExternalIInv == DesignConstants /\ IInv /\ External => IInv'
<1>1. SUFFICES ASSUME DesignConstants, IInv, External PROVE IInv'
  OBVIOUS
<1>2. /\ file' = [text |-> texts + 1, time |-> file.time + 1] /\ file.time < MaxWrites
      /\ texts < MaxTexts /\ texts' = texts + 1
      /\ UNCHANGED <<tab, loads, saves, poll, mine>>
      /\ races' = IF Hits(saves) THEN races \cup {"other"} ELSE races
  BY <1>1 DEF External, WriteFile, Race, effects
<1>3. texts + 1 \in Texts
  <2>1. texts \in 0..MaxTexts /\ MaxTexts \in Nat
    BY <1>1 DEF IInv, TypeOK, Texts, DesignConstants
  <2>2. QED
    BY <1>2, <2>1 DEF Texts
<1>4. /\ file' \in [text : Texts, time : Times] /\ file.time \in Times
      /\ \A x \in Times : x <= file.time => x <= file'.time /\ x # file'.time
  BY <1>1, <1>2, <1>3, WriteIsNew DEF IInv
<1>5. /\ tab.modified \in Times /\ poll.now \in Times
      /\ (\A l \in loads : l.time \in Times) /\ \A s \in saves : s.time \in Times
  BY <1>1 DEF IInv, TypeOK, Tabs, Loads, Saves
<1>6. TypeOK'
  BY <1>1, <1>2, <1>3, <1>4 DEF IInv, TypeOK
<1>7. TimesFit'
  BY <1>1, <1>2, <1>4, <1>5 DEF IInv, TimesFit
<1>8. LoadsFit' /\ EditsSafe'
  BY <1>1, <1>2 DEF IInv, LoadsFit, EditsSafe, FromDisk
<1>9. InStep'
  <2>1. SUFFICES ASSUME races' = {} PROVE InStep'
    BY DEF InStep
  <2>2. races = {} /\ ~Hits(saves)
    BY <1>2, <2>1
  <2>3. (\A l \in loads : l.gen = tab.gen => l.pc # "read") /\ \A s \in saves : s.pc # "written"
    BY <2>2 DEF Hits
  <2>4. QED
    BY <1>1, <1>2, <1>4, <1>5, <2>2, <2>3 DEF IInv, InStep, TimesFit, FromDisk
<1>10. QED
  BY <1>6, <1>7, <1>8, <1>9 DEF IInv

-----------------------------------------------------------------------------
\* Loading

\* A step of the tab alone, which keeps its text, generation and marks.
LEMMA TabMoves ==
    ASSUME IInv, NEW d \in Tabs, tab' = d, d.gen = tab.gen, d.editor = tab.editor,
           UNCHANGED <<file, loads, saves, poll, texts>>, races \subseteq races', races' \subseteq {"edit in save", "other"},
           mine' \in {mine, None}, d.modified <= file.time,
           d.open => tab.open /\ \A l \in loads : l.gen = tab.gen => d.loading,
           mine' # None /\ "edit in save" \notin races => d.open /\ d.edited,
           races' = {} /\ d.open /\ ~d.edited => ~tab.edited /\ d.modified = tab.modified
    PROVE  IInv'
<1>1. TypeOK'
  BY DEF IInv, TypeOK
<1>2. TimesFit' /\ LoadsFit'
  BY DEF IInv, TimesFit, LoadsFit
<1>3. EditsSafe'
  BY DEF IInv, EditsSafe, FromDisk
<1>4. InStep'
  BY DEF IInv, InStep, FromDisk
<1>5. QED
  BY <1>1, <1>2, <1>3, <1>4 DEF IInv

\* The next generation is not one there was.
LEMMA NextGeneration ==
    ASSUME DesignConstants, NEW g \in 0..MaxLoads, g < MaxLoads
    PROVE  /\ g + 1 \in 0..MaxLoads /\ g + 1 <= g + 1
           /\ \A x \in 0..MaxLoads : x <= g => x <= g + 1 /\ x # g + 1
BY DEF DesignConstants

\* No time is before 0.
LEMMA TimeZero ==
    ASSUME DesignConstants, NEW x \in Times
    PROVE  0 \in Times /\ 0 <= x
BY DEF DesignConstants, Times

\* A new generation: of what the editor will hold, or of the file.
LEMMA StartLoadDoes ==
    ASSUME DesignConstants, IInv, NEW d \in Tabs, NEW edited \in BOOLEAN, NEW text \in Texts,
           StartLoad(d, edited, text), d.gen = tab.gen, d.open = tab.open, tab.open,
           d.modified <= file.time,
           UNCHANGED <<file, saves>>,
           poll' \in [pc : {"none", "asked", "changed"}, seen : Times, now : Times], poll'.now <= file.time,
           texts' \in Texts, mine' \in Texts \cup {None},
           races \subseteq races', races' \subseteq {"edit in save", "other"},
           mine' # None /\ "edit in save" \notin races' =>
                /\ edited /\ d.edited /\ d.editor = mine'
                /\ \A s \in saves : s.text = mine' /\ s.pc \in {"asked", "failed"},
           races' = {} /\ saves # {} => d.editor = tab.editor,
           edited => d.edited
    PROVE  IInv'
<1>1. PICK g \in 0..MaxLoads : g = tab.gen
  BY DEF IInv, TypeOK, Tabs
<1>2. /\ g + 1 \in 0..MaxLoads /\ g + 1 <= g + 1
      /\ \A x \in 0..MaxLoads : x <= g => x <= g + 1 /\ x # g + 1
  <2>1. g < MaxLoads
    BY <1>1 DEF StartLoad
  <2>2. QED
    BY <1>1, <2>1, NextGeneration
<1>3. PICK e : e = [d EXCEPT !.loading = TRUE, !.gen = g + 1]
  OBVIOUS
<1>4. /\ e \in Tabs /\ e.gen = g + 1 /\ e.loading = TRUE /\ e.open = tab.open /\ e.edited = d.edited
      /\ e.editor = d.editor /\ e.modified = d.modified
  BY <1>2, <1>3 DEF Tabs
<1>5. PICK l : l = [gen |-> g + 1, pc |-> IF edited THEN "done" ELSE "asked",
                    edited |-> edited, text |-> text, time |-> 0]
  OBVIOUS
<1>6. 0 \in Times /\ file.time \in Times /\ 0 <= file.time
  <2>1. file.time \in Times
    BY DEF IInv, TypeOK
  <2>2. QED
    BY <2>1, TimeZero
<1>7. /\ l \in Loads /\ l.gen = g + 1 /\ l.edited = edited /\ l.time <= file.time
      /\ l.pc = IF edited THEN "done" ELSE "asked"
  BY <1>2, <1>5, <1>6 DEF Loads
<1>8. tab' = e /\ loads' = loads \cup {l}
  BY <1>1, <1>3, <1>5 DEF StartLoad
<1>9. \A m \in loads : m.gen \in 0..MaxLoads /\ m.gen <= g /\ m.gen # g + 1 /\ m.gen <= g + 1
  BY <1>1, <1>2 DEF IInv, TypeOK, Loads
<1>10. TypeOK'
  <2>1. \A m, k \in loads : m.gen = k.gen => m = k
    BY DEF IInv, TypeOK
  <2>2. ASSUME NEW m \in loads', NEW k \in loads' PROVE m.gen <= tab'.gen /\ (m.gen = k.gen => m = k)
    <3>1. m \in loads \/ m = l
      BY <1>8
    <3>2. k \in loads \/ k = l
      BY <1>8
    <3>3. tab'.gen = g + 1
      BY <1>4, <1>8
    <3>4. m.gen <= tab'.gen
      BY <1>2, <1>7, <1>9, <3>1, <3>3
    <3>5. m.gen = k.gen => m = k
      BY <1>7, <1>9, <2>1, <3>1, <3>2
    <3>6. QED
      BY <3>4, <3>5
  <2>3. \A m, k \in loads' : m.gen <= tab'.gen /\ (m.gen = k.gen => m = k)
    BY <2>2
  <2>4. file' \in [text : Texts, time : Times] /\ tab' \in Tabs /\ loads' \subseteq Loads /\ saves' \subseteq Saves
    BY <1>4, <1>7, <1>8 DEF IInv, TypeOK
  <2>5. QED
    BY <2>3, <2>4 DEF TypeOK
<1>11. TimesFit' /\ LoadsFit'
  BY <1>4, <1>7, <1>8, <1>9 DEF IInv, TimesFit, LoadsFit
<1>12. EditsSafe'
  BY <1>4, <1>7, <1>8, <1>9 DEF IInv, EditsSafe, FromDisk
<1>13. InStep'
  <2>1. FromDisk(l)' <=> ~edited
    BY <1>4, <1>7, <1>8 DEF FromDisk
  <2>2. \A m \in loads : ~FromDisk(m)'
    BY <1>4, <1>8, <1>9 DEF FromDisk
  <2>3. races' = {} => races = {}
    OBVIOUS
  <2>4. edited => e.edited
    BY <1>4
  <2>5. QED
    BY <1>4, <1>7, <1>8, <2>1, <2>2, <2>3, <2>4 DEF IInv, InStep
<1>14. QED
  BY <1>10, <1>11, <1>12, <1>13 DEF IInv

\* A load of the file's text replaces nothing that the user did not give up.
LEMMA FromDiskIInv == DesignConstants /\ IInv /\ (Reload \/ Reanalyse \/ ChangedReload) => IInv'
<1>1. SUFFICES ASSUME DesignConstants, IInv, Reload \/ Reanalyse \/ ChangedReload PROVE IInv'
  OBVIOUS
<1>2. PICK d \in Tabs : d = tab
  BY <1>1 DEF IInv, TypeOK
<1>3. /\ file \in [text : Texts, time : Times] /\ texts \in Texts /\ mine \in Texts \cup {None}
      /\ races \subseteq {"edit in save", "other"} /\ tab.modified <= file.time /\ poll.now <= file.time
      /\ poll \in [pc : {"none", "asked", "changed"}, seen : Times, now : Times]
  BY <1>1 DEF IInv, TypeOK, TimesFit
<1>4. 0 \in Texts /\ 0 \in Times /\ 0 <= file.time
  <2>1. file.time \in Times
    BY <1>3
  <2>2. 0 \in Texts
    BY <1>1 DEF Texts, DesignConstants
  <2>3. QED
    BY <1>1, <2>1, <2>2, TimeZero
<1>5. d.editor \in Texts /\ d.edited \in BOOLEAN
  BY DEF Tabs
<1>6. CASE Reload
  <2>1. /\ StartLoad(d, FALSE, 0) /\ d.open /\ mine' = None
        /\ UNCHANGED <<file, saves, poll, texts, races>>
    BY <1>2, <1>6 DEF Reload
  <2>2. FALSE \in BOOLEAN
    OBVIOUS
  <2>3. QED
    BY <1>1, <1>2, <1>3, <1>4, <2>1, <2>2, StartLoadDoes
<1>7. CASE Reanalyse
  <2>1. PICK text \in Texts : text = IF d.edited THEN d.editor ELSE 0
    BY <1>4, <1>5
  <2>2. /\ StartLoad(d, d.edited, text) /\ d.open
        /\ UNCHANGED <<file, saves, poll, texts, mine, races>>
    BY <1>2, <1>7, <2>1 DEF Reanalyse
  <2>3. mine # None /\ "edit in save" \notin races =>
            d.edited /\ d.editor = mine /\ \A s \in saves : s.text = mine /\ s.pc \in {"asked", "failed"}
    BY <1>1, <1>2 DEF IInv, EditsSafe
  <2>4. QED
    BY <1>1, <1>2, <1>3, <1>5, <2>2, <2>3, StartLoadDoes
<1>8. CASE ChangedReload
  <2>1. PICK e : e = [d EXCEPT !.modified = poll.now]
    OBVIOUS
  <2>2. /\ e \in Tabs /\ e.gen = d.gen /\ e.open = d.open /\ e.editor = d.editor /\ e.edited = d.edited
        /\ e.modified = poll.now
    BY <1>3, <2>1 DEF Tabs
  <2>3. /\ StartLoad(e, FALSE, 0) /\ d.open /\ ~d.edited /\ poll' = NoPoll
        /\ UNCHANGED <<file, saves, texts, mine, races>>
    BY <1>2, <1>8, <2>1 DEF ChangedReload
  <2>4. mine = None \/ "edit in save" \in races
    BY <1>1, <1>2, <2>3 DEF IInv, EditsSafe
  <2>5. poll' \in [pc : {"none", "asked", "changed"}, seen : Times, now : Times] /\ poll'.now <= file.time
    BY <1>4, <2>3 DEF NoPoll
  <2>6. FALSE \in BOOLEAN
    OBVIOUS
  <2>7. QED
    BY <1>1, <1>2, <1>3, <1>4, <2>2, <2>3, <2>4, <2>5, <2>6, StartLoadDoes
<1>9. QED
  BY <1>1, <1>6, <1>7, <1>8

\* The user types: the editor's new text is analysed.
LEMMA EditIInv == DesignConstants /\ IInv /\ Edit => IInv'
<1>1. SUFFICES ASSUME DesignConstants, IInv, Edit PROVE IInv'
  OBVIOUS
<1>2. PICK d \in Tabs : d = tab
  BY <1>1 DEF IInv, TypeOK
<1>3. /\ poll \in [pc : {"none", "asked", "changed"}, seen : Times, now : Times]
      /\ races \subseteq {"edit in save", "other"} /\ tab.modified <= file.time /\ poll.now <= file.time
  BY <1>1 DEF IInv, TypeOK, TimesFit
<1>4. PICK text \in Texts : text = texts + 1
  <2>1. texts \in 0..MaxTexts /\ MaxTexts \in Nat /\ texts < MaxTexts
    BY <1>1 DEF IInv, TypeOK, Texts, DesignConstants, Edit
  <2>2. texts + 1 \in 0..MaxTexts
    BY <2>1
  <2>3. QED
    BY <2>2 DEF Texts
<1>5. PICK e : e = [d EXCEPT !.editor = text, !.edited = TRUE]
  OBVIOUS
<1>6. /\ e \in Tabs /\ e.gen = d.gen /\ e.open = d.open /\ e.editor = text /\ e.edited = TRUE
      /\ e.modified = d.modified
  BY <1>5 DEF Tabs
<1>7. /\ StartLoad(e, TRUE, text) /\ d.open /\ mine' = text /\ texts' = text
      /\ UNCHANGED <<file, saves, poll>>
      /\ races' = IF saves # {} THEN races \cup {"edit in save"} ELSE races
  BY <1>1, <1>2, <1>4, <1>5 DEF Edit, Race
<1>8. "edit in save" \notin races' => saves = {}
  BY <1>7
<1>9. races \subseteq races' /\ races' \subseteq {"edit in save", "other"} /\ (races' = {} => saves = {})
  BY <1>3, <1>7
<1>10. TRUE \in BOOLEAN
  OBVIOUS
<1>11. QED
  BY <1>1, <1>2, <1>3, <1>6, <1>7, <1>8, <1>9, <1>10, StartLoadDoes

\* A load takes the text, and then the time, of the file.
LEMMA LoadMoves ==
    ASSUME DesignConstants, IInv, NEW l \in loads, LoadReads(l) \/ LoadStats(l)
    PROVE  IInv'
<1>1. PICK k \in Loads : k = l
  BY DEF IInv, TypeOK
<1>2. file \in [text : Texts, time : Times] /\ file.time \in Times /\ file.text \in Texts /\ file.time <= file.time
  <2>1. file \in [text : Texts, time : Times]
    BY DEF IInv, TypeOK
  <2>2. PICK t \in Times : t = file.time
    BY <2>1
  <2>3. t <= t
    BY DEF Times
  <2>4. QED
    BY <2>1, <2>2, <2>3
<1>3. PICK m : m = IF l.pc = "asked" THEN [k EXCEPT !.pc = "read", !.text = file.text]
                   ELSE [k EXCEPT !.pc = "done", !.time = file.time]
  OBVIOUS
<1>4. /\ m \in Loads /\ m.gen = k.gen /\ m.edited = k.edited /\ k.pc \in {"asked", "read"}
      /\ k.pc = "asked" => m.pc = "read" /\ m.text = file.text /\ m.time = k.time
      /\ k.pc = "read" => m.pc = "done" /\ m.text = k.text /\ m.time = file.time
  BY <1>1, <1>2, <1>3 DEF Loads, LoadReads, LoadStats
<1>5. loads' = (loads \ {l}) \cup {m} /\ UNCHANGED <<file, tab, saves, poll, texts, mine, races>>
  BY <1>1, <1>3 DEF LoadReads, LoadStats
<1>6. \A n \in loads : n.gen = m.gen => n = l
  BY <1>1, <1>4, ZenonT(60) DEF IInv, TypeOK
<1>7. TypeOK'
  BY <1>1, <1>4, <1>5, <1>6, ZenonT(60) DEF IInv, TypeOK
<1>8. TimesFit' /\ LoadsFit'
  BY <1>1, <1>2, <1>4, <1>5 DEF IInv, TimesFit, LoadsFit
<1>9. /\ \A n \in loads' : n \in loads \/ n = m
      /\ FromDisk(m)' <=> FromDisk(l)
      /\ \A n \in loads : FromDisk(n)' <=> FromDisk(n)
  BY <1>1, <1>4, <1>5 DEF FromDisk
<1>10. EditsSafe'
  BY <1>5, <1>9 DEF IInv, EditsSafe
<1>11. InStep'
  <2>1. SUFFICES ASSUME races = {} PROVE InStep'
    BY <1>5 DEF InStep
  <2>2. FromDisk(m)' => m.text = file.text
    BY <1>1, <1>4, <1>9, <2>1 DEF IInv, InStep
  <2>3. (\A n \in loads' : ~FromDisk(n)') => \A n \in loads : ~FromDisk(n)
    BY <1>5, <1>9
  <2>4. QED
    BY <1>5, <1>9, <2>1, <2>2, <2>3 DEF IInv, InStep
<1>12. QED
  BY <1>7, <1>8, <1>10, <1>11 DEF IInv

\* The tab takes a load of its generation: the editor has the file's text.
LEMMA LoadedIInv ==
    ASSUME DesignConstants, IInv, NEW l \in loads, Loaded(l)
    PROVE  IInv'
<1>1. PICK k \in Loads : k = l
  BY DEF IInv, TypeOK
<1>2. PICK d \in Tabs : d = tab
  BY DEF IInv, TypeOK
<1>3. loads' = loads \ {l} /\ UNCHANGED <<file, saves, poll, texts, mine>> /\ k.pc = "done"
  BY <1>1 DEF Loaded
<1>4. \A n \in loads' : n.gen # k.gen
  BY <1>1, <1>3 DEF IInv, TypeOK
<1>5. CASE tab.open /\ l.gen = tab.gen /\ l.edited
  <2>1. PICK e : e = [d EXCEPT !.loading = FALSE]
    OBVIOUS
  <2>2. /\ e \in Tabs /\ e.gen = d.gen /\ e.open = d.open /\ e.editor = d.editor /\ e.edited = d.edited
        /\ e.modified = d.modified
    BY <2>1 DEF Tabs
  <2>3. tab' = e /\ races' = races
    BY <1>2, <1>5, <2>1 DEF Loaded, TakeIn, Race
  <2>4. TypeOK' /\ TimesFit' /\ LoadsFit'
    BY <1>1, <1>2, <1>3, <1>4, <1>5, <2>2, <2>3, ZenonT(60) DEF IInv, TypeOK, TimesFit, LoadsFit
  <2>5. EditsSafe' /\ InStep'
    BY <1>1, <1>2, <1>3, <1>4, <1>5, <2>2, <2>3 DEF IInv, EditsSafe, InStep, FromDisk
  <2>6. QED
    BY <2>4, <2>5 DEF IInv
<1>6. CASE tab.open /\ l.gen = tab.gen /\ ~l.edited
  <2>1. PICK e : e = [d EXCEPT !.loading = FALSE, !.editor = k.text, !.edited = FALSE,
                               !.changed = FALSE, !.modified = k.time]
    OBVIOUS
  <2>2. /\ e \in Tabs /\ e.gen = d.gen /\ e.open = d.open /\ e.editor = k.text /\ e.edited = FALSE
        /\ e.modified = k.time
    BY <2>1 DEF Tabs, Loads
  <2>3. tab' = e /\ races' = IF saves # {} THEN races \cup {"other"} ELSE races
    BY <1>1, <1>2, <1>6, <2>1 DEF Loaded, TakeIn, Race
  <2>4. races \subseteq races' /\ races' \subseteq {"edit in save", "other"} /\ (races' = {} => saves = {})
    BY <2>3 DEF IInv, TypeOK
  <2>5. mine = None \/ "edit in save" \in races
    BY <1>6 DEF IInv, EditsSafe, FromDisk
  <2>6. TypeOK' /\ TimesFit' /\ LoadsFit'
    BY <1>1, <1>2, <1>3, <1>4, <1>6, <2>2, <2>3, <2>4, ZenonT(60) DEF IInv, TypeOK, TimesFit, LoadsFit
  <2>7. EditsSafe' /\ InStep'
    BY <1>1, <1>2, <1>3, <1>4, <1>6, <2>2, <2>3, <2>4, <2>5 DEF IInv, EditsSafe, InStep, FromDisk
  <2>8. QED
    BY <2>6, <2>7 DEF IInv
<1>7. CASE ~(tab.open /\ l.gen = tab.gen)
  <2>1. tab' = tab /\ races' = races
    BY <1>7 DEF Loaded
  <2>2. TypeOK' /\ TimesFit' /\ LoadsFit' /\ EditsSafe'
    BY <1>3, <2>1 DEF IInv, TypeOK, TimesFit, LoadsFit, EditsSafe, FromDisk
  <2>3. tab.open => l.gen # tab.gen
    BY <1>7
  <2>4. InStep'
    BY <1>3, <2>1, <2>3 DEF IInv, InStep, FromDisk
  <2>5. QED
    BY <2>2, <2>4 DEF IInv
<1>8. QED
  BY <1>5, <1>6, <1>7

-----------------------------------------------------------------------------
\* Saving

\* A save takes the editor's text.
LEMMA SaveIInv == DesignConstants /\ IInv /\ Save => IInv'
<1>1. SUFFICES ASSUME DesignConstants, IInv, Save PROVE IInv'
  OBVIOUS
<1>2. PICK d \in Tabs : d = tab
  BY <1>1 DEF IInv, TypeOK
<1>3. PICK n \in 1..MaxWrites :
        saves' = saves \cup {[n |-> n, pc |-> "asked", text |-> tab.editor, time |-> 0]}
  BY <1>1 DEF Save
<1>4. 0 \in Times /\ 0 <= file.time
  <2>1. file.time \in Times
    BY <1>1 DEF IInv, TypeOK
  <2>2. QED
    BY <1>1, <2>1, TimeZero
<1>5. PICK s : s = [n |-> n, pc |-> "asked", text |-> d.editor, time |-> 0]
  OBVIOUS
<1>6. s \in Saves /\ s.pc = "asked" /\ s.text = d.editor /\ s.time = 0
  BY <1>4, <1>5 DEF Saves, Tabs
<1>7. PICK e : e = [d EXCEPT !.saving = TRUE]
  OBVIOUS
<1>8. /\ e \in Tabs /\ e.gen = d.gen /\ e.open = d.open /\ e.editor = d.editor /\ e.edited = d.edited
      /\ e.modified = d.modified /\ e.loading = d.loading
  BY <1>7 DEF Tabs
<1>9. /\ saves' = saves \cup {s} /\ tab' = e /\ UNCHANGED <<file, loads, poll, texts, mine>>
      /\ races' = IF saves # {} THEN races \cup {"other"} ELSE races
  BY <1>1, <1>2, <1>3, <1>5, <1>7 DEF Save, Race
<1>10. races \subseteq races' /\ races' \subseteq {"edit in save", "other"} /\ (races' = {} => saves = {})
  BY <1>1, <1>9 DEF IInv, TypeOK
<1>11. TypeOK'
  <2>1. tab' \in Tabs /\ saves' \subseteq Saves /\ tab'.gen = tab.gen
    BY <1>1, <1>2, <1>6, <1>8, <1>9 DEF IInv, TypeOK
  <2>2. races' \subseteq {"edit in save", "other"} /\ UNCHANGED <<file, loads, poll, texts, mine>>
    BY <1>9, <1>10
  <2>3. QED
    BY <1>1, <2>1, <2>2 DEF IInv, TypeOK
<1>12. TimesFit' /\ LoadsFit'
  BY <1>1, <1>2, <1>4, <1>6, <1>8, <1>9 DEF IInv, TimesFit, LoadsFit
<1>13. \A l : FromDisk(l)' <=> FromDisk(l)
  BY <1>2, <1>8, <1>9 DEF FromDisk
<1>14. EditsSafe'
  BY <1>1, <1>2, <1>6, <1>8, <1>9, <1>10, <1>13 DEF IInv, EditsSafe
<1>15. InStep'
  <2>1. SUFFICES ASSUME races' = {} PROVE InStep'
    BY DEF InStep
  <2>2. races = {} /\ saves' = {s}
    BY <1>9, <1>10, <2>1
  <2>3. QED
    BY <1>1, <1>2, <1>6, <1>8, <1>9, <1>13, <2>2 DEF IInv, InStep
<1>16. QED
  BY <1>11, <1>12, <1>14, <1>15 DEF IInv

\* A save writes the file: what the user typed is there.
LEMMA SaveWritesIInv ==
    ASSUME DesignConstants, IInv, NEW s \in saves, SaveWrites(s)
    PROVE  IInv'
<1>1. PICK k \in Saves : k = s
  BY DEF IInv, TypeOK
<1>2. PICK m : m = [k EXCEPT !.pc = "written"]
  OBVIOUS
<1>3. m \in Saves /\ m.pc = "written" /\ m.text = k.text /\ m.time = k.time /\ k.text \in Texts
  BY <1>2 DEF Saves
<1>4. /\ file' = [text |-> k.text, time |-> file.time + 1] /\ file.time < MaxWrites
      /\ saves' = (saves \ {s}) \cup {m} /\ mine' = IF mine = k.text THEN None ELSE mine
      /\ UNCHANGED <<tab, loads, poll, texts>>
      /\ races' = IF Hits(saves \ {s}) THEN races \cup {"other"} ELSE races
  BY <1>1, <1>2 DEF SaveWrites, WriteFile, Race
<1>5. /\ file' \in [text : Texts, time : Times] /\ file'.text = k.text /\ file.time \in Times
      /\ \A x \in Times : x <= file.time => x <= file'.time /\ x # file'.time
  BY <1>3, <1>4, WriteIsNew DEF IInv
<1>6. /\ tab.modified \in Times /\ poll.now \in Times
      /\ (\A l \in loads : l.time \in Times) /\ \A t \in saves : t.time \in Times
  BY DEF IInv, TypeOK, Tabs, Loads, Saves
<1>7. TypeOK'
  BY <1>3, <1>4, <1>5 DEF IInv, TypeOK
<1>8. TimesFit'
  BY <1>1, <1>3, <1>4, <1>5, <1>6 DEF IInv, TimesFit
<1>9. LoadsFit'
  BY <1>4 DEF IInv, LoadsFit
<1>10. EditsSafe'
  BY <1>1, <1>4 DEF IInv, EditsSafe
<1>11. InStep'
  <2>1. SUFFICES ASSUME races' = {} PROVE InStep'
    BY DEF InStep
  <2>2. races = {} /\ ~Hits(saves \ {s})
    BY <1>4, <2>1
  <2>3. (\A l \in loads : l.gen = tab.gen => l.pc # "read") /\ \A t \in saves \ {s} : t.pc # "written"
    BY <2>2 DEF Hits
  <2>4. QED
    BY <1>1, <1>3, <1>4, <1>5, <1>6, <2>2, <2>3 DEF IInv, InStep, TimesFit, FromDisk
<1>12. QED
  BY <1>7, <1>8, <1>9, <1>10, <1>11 DEF IInv

\* A save looks at the time of the file it wrote, or fails to write it.
LEMMA SaveMoves ==
    ASSUME IInv, NEW s \in saves, SaveStats(s) \/ SaveFails(s)
    PROVE  IInv'
<1>1. PICK k \in Saves : k = s
  BY DEF IInv, TypeOK
<1>2. file.time \in Times /\ file.time <= file.time
  <2>1. PICK t \in Times : t = file.time
    BY DEF IInv, TypeOK
  <2>2. t <= t
    BY DEF Times
  <2>3. QED
    BY <2>1, <2>2
<1>3. PICK m : m = IF s.pc = "written" THEN [k EXCEPT !.pc = "done", !.time = file.time]
                   ELSE [k EXCEPT !.pc = "failed"]
  OBVIOUS
<1>4. /\ m \in Saves /\ m.text = k.text /\ k.pc \in {"asked", "written"}
      /\ k.pc = "written" => m.pc = "done" /\ m.time = file.time
      /\ k.pc = "asked" => m.pc = "failed" /\ m.time = k.time
  BY <1>1, <1>2, <1>3 DEF Saves, SaveStats, SaveFails
<1>5. saves' = (saves \ {s}) \cup {m} /\ UNCHANGED <<file, tab, loads, poll, texts, mine, races>>
  BY <1>1, <1>3 DEF SaveStats, SaveFails
<1>6. TypeOK'
  BY <1>4, <1>5 DEF IInv, TypeOK
<1>7. TimesFit' /\ LoadsFit'
  BY <1>1, <1>2, <1>4, <1>5 DEF IInv, TimesFit, LoadsFit
<1>8. EditsSafe' /\ InStep'
  BY <1>1, <1>4, <1>5 DEF IInv, EditsSafe, InStep, FromDisk
<1>9. QED
  BY <1>6, <1>7, <1>8 DEF IInv

\* The tab takes the answer: the editor's text is the file's of that time.
LEMMA SavedIInv ==
    ASSUME IInv, NEW s \in saves, Saved(s)
    PROVE  IInv'
<1>1. PICK k \in Saves : k = s
  BY DEF IInv, TypeOK
<1>2. PICK d \in Tabs : d = tab
  BY DEF IInv, TypeOK
<1>3. saves' = saves \ {s} /\ UNCHANGED <<file, loads, poll, texts, mine, races>> /\ k.pc \in {"done", "failed"}
  BY <1>1 DEF Saved
<1>4. PICK e \in Tabs :
        /\ tab' = e /\ e.gen = d.gen /\ e.open = d.open /\ e.editor = d.editor /\ e.loading = d.loading
        /\ \/ e.edited = d.edited /\ e.modified = d.modified
           \/ k.pc = "done" /\ e.edited = FALSE /\ e.modified = k.time
  <2>1. CASE ~tab.open
    BY <1>2, <2>1 DEF Saved
  <2>2. CASE tab.open /\ s.pc = "failed"
    <3>1. PICK e : e = [d EXCEPT !.saving = FALSE]
      OBVIOUS
    <3>2. /\ e \in Tabs /\ e.gen = d.gen /\ e.open = d.open /\ e.editor = d.editor /\ e.loading = d.loading
          /\ e.edited = d.edited /\ e.modified = d.modified
      BY <3>1 DEF Tabs
    <3>3. tab' = e
      BY <1>2, <2>2, <3>1 DEF Saved
    <3>4. QED
      BY <3>2, <3>3
  <2>3. CASE tab.open /\ s.pc # "failed"
    <3>1. PICK e : e = [d EXCEPT !.saving = FALSE, !.edited = FALSE, !.changed = FALSE, !.modified = k.time]
      OBVIOUS
    <3>2. /\ e \in Tabs /\ e.gen = d.gen /\ e.open = d.open /\ e.editor = d.editor /\ e.loading = d.loading
          /\ e.edited = FALSE /\ e.modified = k.time
      BY <3>1 DEF Tabs, Saves
    <3>3. tab' = e
      BY <1>1, <1>2, <2>3, <3>1 DEF Saved
    <3>4. k.pc = "done"
      BY <1>1, <1>3, <2>3
    <3>5. QED
      BY <3>2, <3>3, <3>4
  <2>4. QED
    BY <2>1, <2>2, <2>3
<1>5. TypeOK'
  BY <1>2, <1>3, <1>4 DEF IInv, TypeOK
<1>6. TimesFit' /\ LoadsFit'
  BY <1>1, <1>2, <1>3, <1>4 DEF IInv, TimesFit, LoadsFit
<1>7. EditsSafe' /\ InStep'
  BY <1>1, <1>2, <1>3, <1>4 DEF IInv, EditsSafe, InStep, FromDisk
<1>8. QED
  BY <1>5, <1>6, <1>7 DEF IInv

-----------------------------------------------------------------------------
\* The poll, and closing

\* A poll looks at the time, against the one the tab knew.
LEMMA PollIInv == DesignConstants /\ IInv /\ (Poll \/ PollStats \/ ChangedIgnored) => IInv'
<1>1. SUFFICES ASSUME DesignConstants, IInv, Poll \/ PollStats \/ ChangedIgnored PROVE IInv'
  OBVIOUS
<1>2. PICK d \in Tabs : d = tab
  BY <1>1 DEF IInv, TypeOK
<1>3. PICK p \in [pc : {"none", "asked", "changed"}, seen : Times, now : Times] : p = poll
  BY <1>1 DEF IInv, TypeOK
<1>4. PICK t \in Times : t = file.time
  BY <1>1 DEF IInv, TypeOK
<1>5. 0 \in Times /\ 0 <= t /\ t <= t /\ d.modified \in Times
  BY <1>1, TimeZero DEF Times, Tabs
<1>6. poll' \in [pc : {"none", "asked", "changed"}, seen : Times, now : Times] /\ poll'.now <= t
  <2>1. CASE Poll
    BY <1>2, <1>5, <2>1 DEF Poll
  <2>2. CASE PollStats /\ file.time = poll.seen
    BY <1>5, <2>2 DEF PollStats, NoPoll
  <2>3. CASE PollStats /\ file.time # poll.seen
    <3>1. poll' = [p EXCEPT !.pc = "changed", !.now = t]
      BY <1>3, <1>4, <2>3 DEF PollStats
    <3>2. QED
      BY <1>5, <3>1
  <2>4. CASE ChangedIgnored
    BY <1>5, <2>4 DEF ChangedIgnored, NoPoll
  <2>5. QED
    BY <1>1, <2>1, <2>2, <2>3, <2>4
<1>7. UNCHANGED <<file, tab, loads, saves, texts, mine, races>>
  BY <1>1 DEF Poll, PollStats, ChangedIgnored
<1>8. TypeOK' /\ TimesFit'
  BY <1>1, <1>4, <1>6, <1>7 DEF IInv, TypeOK, TimesFit
<1>9. LoadsFit' /\ EditsSafe' /\ InStep'
  BY <1>1, <1>7 DEF IInv, LoadsFit, EditsSafe, InStep, FromDisk
<1>10. QED
  BY <1>8, <1>9 DEF IInv

\* A change that is asked about, or is taken for the tab's own save.
LEMMA ChangedIInv == DesignConstants /\ IInv /\ (ChangedAsk \/ ChangedInSave) => IInv'
<1>1. SUFFICES ASSUME DesignConstants, IInv, ChangedAsk \/ ChangedInSave PROVE IInv'
  OBVIOUS
<1>2. PICK d \in Tabs : d = tab
  BY <1>1 DEF IInv, TypeOK
<1>3. PICK t \in Times : t = poll.now
  BY <1>1 DEF IInv, TypeOK
<1>4. t <= file.time
  BY <1>1, <1>3 DEF IInv, TimesFit
<1>5. PICK e \in Tabs :
        /\ tab' = e /\ e.gen = d.gen /\ e.open = d.open /\ e.editor = d.editor /\ e.loading = d.loading
        /\ e.edited = d.edited /\ e.modified = t
  <2>1. CASE ChangedAsk
    <3>1. PICK e : e = [d EXCEPT !.modified = t, !.changed = TRUE]
      OBVIOUS
    <3>2. /\ e \in Tabs /\ e.gen = d.gen /\ e.open = d.open /\ e.editor = d.editor /\ e.loading = d.loading
          /\ e.edited = d.edited /\ e.modified = t
      BY <3>1 DEF Tabs
    <3>3. tab' = e
      BY <1>2, <1>3, <2>1, <3>1 DEF ChangedAsk
    <3>4. QED
      BY <3>2, <3>3
  <2>2. CASE ChangedInSave
    <3>1. PICK e : e = [d EXCEPT !.modified = t]
      OBVIOUS
    <3>2. /\ e \in Tabs /\ e.gen = d.gen /\ e.open = d.open /\ e.editor = d.editor /\ e.loading = d.loading
          /\ e.edited = d.edited /\ e.modified = t
      BY <3>1 DEF Tabs
    <3>3. tab' = e
      BY <1>2, <1>3, <2>2, <3>1 DEF ChangedInSave
    <3>4. QED
      BY <3>2, <3>3
  <2>3. QED
    BY <1>1, <2>1, <2>2
<1>6. UNCHANGED <<file, loads, saves, texts, mine>> /\ poll' = NoPoll /\ races' \in {races, races \cup {"other"}}
  BY <1>1 DEF ChangedAsk, ChangedInSave, Race
<1>7. races' = {} => d.edited
  BY <1>1, <1>2 DEF ChangedAsk, ChangedInSave, Race
<1>8. NoPoll \in [pc : {"none", "asked", "changed"}, seen : Times, now : Times] /\ NoPoll.now <= file.time
  <2>1. file.time \in Times
    BY <1>1 DEF IInv, TypeOK
  <2>2. 0 \in Times /\ 0 <= file.time
    BY <1>1, <2>1, TimeZero
  <2>3. QED
    BY <2>2 DEF NoPoll
<1>9. TypeOK'
  BY <1>1, <1>2, <1>5, <1>6, <1>8, ZenonT(60) DEF IInv, TypeOK
<1>10. TimesFit' /\ LoadsFit'
  BY <1>1, <1>2, <1>4, <1>5, <1>6, <1>8 DEF IInv, TimesFit, LoadsFit
<1>11. EditsSafe' /\ InStep'
  BY <1>1, <1>2, <1>5, <1>6, <1>7 DEF IInv, EditsSafe, InStep, FromDisk
<1>12. QED
  BY <1>9, <1>10, <1>11 DEF IInv

\* The user answers, or closes: unsaved edits go only with a yes.
LEMMA CloseIInv == IInv /\ (KeepMine \/ Close \/ Discard(TRUE) \/ Discard(FALSE)) => IInv'
<1>1. SUFFICES ASSUME IInv, KeepMine \/ Close \/ Discard(TRUE) \/ Discard(FALSE) PROVE IInv'
  OBVIOUS
<1>2. PICK d \in Tabs : d = tab
  BY <1>1 DEF IInv, TypeOK
<1>3. PICK e \in Tabs :
        /\ tab' = e /\ e.gen = d.gen /\ e.editor = d.editor /\ e.loading = d.loading
        /\ e.edited = d.edited /\ e.modified = d.modified /\ (e.open => d.open)
        /\ ~e.open => ~d.edited \/ mine' = None
  <2>1. CASE KeepMine
    <3>1. PICK e : e = [d EXCEPT !.changed = FALSE]
      OBVIOUS
    <3>2. /\ e \in Tabs /\ e.gen = d.gen /\ e.open = d.open /\ e.editor = d.editor /\ e.loading = d.loading
          /\ e.edited = d.edited /\ e.modified = d.modified
      BY <3>1 DEF Tabs
    <3>3. tab' = e /\ d.open
      BY <1>2, <2>1, <3>1 DEF KeepMine
    <3>4. QED
      BY <3>2, <3>3
  <2>2. CASE Close
    <3>1. PICK e : e = IF d.edited THEN [d EXCEPT !.discard = TRUE] ELSE [d EXCEPT !.open = FALSE]
      OBVIOUS
    <3>2. d.open /\ tab' = e
      BY <1>2, <2>2, <3>1 DEF Close
    <3>3. /\ e \in Tabs /\ e.gen = d.gen /\ e.editor = d.editor /\ e.loading = d.loading
          /\ e.edited = d.edited /\ e.modified = d.modified /\ (d.edited => e.open = d.open)
      BY <3>1 DEF Tabs
    <3>4. QED
      BY <3>2, <3>3
  <2>3. CASE Discard(TRUE) \/ Discard(FALSE)
    <3>1. PICK yes \in BOOLEAN : Discard(yes)
      BY <2>3
    <3>2. PICK e : e = [d EXCEPT !.discard = FALSE, !.open = ~yes]
      OBVIOUS
    <3>3. /\ e \in Tabs /\ e.gen = d.gen /\ e.open = ~yes /\ e.editor = d.editor /\ e.loading = d.loading
          /\ e.edited = d.edited /\ e.modified = d.modified
      BY <3>2 DEF Tabs
    <3>4. tab' = e /\ d.open /\ (yes => mine' = None)
      BY <1>2, <3>1, <3>2 DEF Discard
    <3>5. QED
      BY <3>3, <3>4
  <2>4. QED
    BY <1>1, <2>1, <2>2, <2>3
<1>4. UNCHANGED <<file, loads, saves, poll, texts, races>> /\ mine' \in {mine, None}
  BY <1>1 DEF KeepMine, Close, Discard, effects
<1>5. /\ d.modified <= file.time /\ races \subseteq {"edit in save", "other"}
      /\ \A l \in loads : l.gen = tab.gen /\ tab.open => d.loading
  BY <1>1, <1>2 DEF IInv, TypeOK, TimesFit, LoadsFit
<1>6. mine' # None /\ "edit in save" \notin races => e.open /\ e.edited
  BY <1>1, <1>2, <1>3, <1>4 DEF IInv, EditsSafe
<1>7. QED
  BY <1>1, <1>2, <1>3, <1>4, <1>5, <1>6, TabMoves

-----------------------------------------------------------------------------
\* The theorems

\* Every step keeps the inductive invariant.
LEMMA DesignStep == DesignConstants /\ IInv /\ [Next]_vars => IInv'
<1>1. SUFFICES ASSUME DesignConstants, IInv, [Next]_vars PROVE IInv'
  OBVIOUS
<1>2. CASE External
  BY <1>1, <1>2, ExternalIInv
<1>3. CASE User
  BY <1>1, <1>3, FromDiskIInv, EditIInv, SaveIInv, CloseIInv DEF User
<1>4. CASE Load
  BY <1>1, <1>4, LoadMoves, LoadedIInv DEF Load
<1>5. CASE WriteBack
  BY <1>1, <1>5, SaveWritesIInv, SaveMoves, SavedIInv DEF WriteBack
<1>6. CASE Poll \/ PollStats \/ Changed
  BY <1>1, <1>6, PollIInv, ChangedIInv, FromDiskIInv DEF Changed
<1>7. CASE UNCHANGED vars
  BY <1>1, <1>7, StutterIInv
<1>8. QED
  BY <1>1, <1>2, <1>3, <1>4, <1>5, <1>6, <1>7 DEF Next

\* The reducer (reduce.rs) keeps its inductive invariant: types, the times
\* that were seen, one load a generation, and what loads and saves may do.
THEOREM DesignInvariant == Spec => []IInv
<1>1. Init => IInv
  BY DesignConstants, DesignInit
<1>2. IInv /\ [Next]_vars => IInv'
  BY DesignConstants, DesignStep
<1>3. QED
  BY <1>1, <1>2, PTL DEF Spec

\* A load from disk is dropped when the user typed since, a change of the
\* file is asked about, and closing asks: what was typed is in the editor,
\* marked as edited, until it is written or given up.
THEOREM DesignEditsKept == Spec => []EditsKept
<1>1. IInv => EditsKept
  BY DEF IInv, EditsKept, EditsSafe
<1>2. QED
  BY <1>1, DesignInvariant, PTL

\* A tab without edits that knows the file's time shows the file's text, but
\* for the writes that fall between an effect's two looks at it.
THEOREM DesignShowsFile == Spec => []CleanShowsFile
<1>1. ASSUME IInv, tab.open, ~tab.edited, ~tab.loading, tab.modified = file.time, races = {}
      PROVE  tab.editor = file.text
  <2>1. \A l \in loads : ~FromDisk(l)
    BY <1>1 DEF IInv, LoadsFit, FromDisk
  <2>2. QED
    BY <1>1, <2>1 DEF IInv, InStep
<1>2. IInv => CleanShowsFile
  BY <1>1 DEF CleanShowsFile
<1>3. QED
  BY <1>2, DesignInvariant, PTL

=============================================================================
