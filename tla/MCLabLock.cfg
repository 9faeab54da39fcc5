\* Two tasks and the copies their forks leave; two inodes, the one at the
\* path and a detached one.  Every behaviour is fair, so no symmetry.
SPECIFICATION FairSpec
CONSTANTS
    Tasks = {t1, t2}
    Inodes = {i1, i2}
    Nobody = Nobody
    Child = Child
    NoFile = NoFile
    AcquireAttempts = 2
INVARIANTS TypeOK MutualExclusion HolderOwnsPath RecordNamesHolder
PROPERTIES ImplementsMutex EveryCallReturns
CHECK_DEADLOCK FALSE
