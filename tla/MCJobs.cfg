\* Two calls (the one that starts the job and one that attaches, or two that
\* attach to what was left) and a channel and a log of one event.
SPECIFICATION FairSpec
CONSTANTS
    Calls = {c1, c2}
    MaxReports = 2
    MaxMessages = 1
    Cap = 1
    Replay = 1
    None = None
INVARIANTS ResultIsFinal OwnerMayLeave
PROPERTIES ImplementsStream EveryCallEnds
CHECK_DEADLOCK FALSE
