\* Two texts typed or written elsewhere, two writes, two loads: an edit
\* during a reload, two saves at once, a change between a load's two looks.
SPECIFICATION FairSpec
CONSTANTS
    MaxTexts = 2
    MaxWrites = 2
    MaxLoads = 2
    None = None
INVARIANTS EditsKept CleanShowsFile
PROPERTIES ChangeIsNoticed
CHECK_DEADLOCK FALSE
