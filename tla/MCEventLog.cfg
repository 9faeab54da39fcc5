\* Two writers, a file that is full with two lines, five events: two
\* rotations, and an inode number used again after the second.
SPECIFICATION FairSpec
CONSTANTS
    Writers = {w1, w2}
    Inodes = {i1, i2, i3}
    NoFile = NoFile
    MaxLines = 1
    MaxEvents = 5
INVARIANTS LogKept TailIsExact
PROPERTIES EveryAppendReturns EveryEventSeen
