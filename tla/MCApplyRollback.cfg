\* A macvlan among the changes: what a rolled back apply leaves of it.
SPECIFICATION Spec
CONSTANTS
    None = None
    NodeOrder <- TwoNodes
    Topologies <- SmallTopologies
    MaxFaults = 1
    Mtus = {"m1"}
    MgmtAndExec <- Plain
    Macvlans = {{}, {"a"}}
INVARIANT NothingNewLeft
