\* Two nodes, every change of one topology into another, one fault.
SPECIFICATION FairSpec
CONSTANTS
    None = None
    NodeOrder <- TwoNodes
    Topologies <- SmallTopologies
    MaxFaults = 1
    Mtus = {"m1", "m2"}
    MgmtAndExec <- Mixed
    Macvlans = {{}}
INVARIANTS Converges OpsFit NothingNewLeft
PROPERTIES RepeatedChangeEnds
