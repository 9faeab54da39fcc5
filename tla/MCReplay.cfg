\* A Lab and a replay that ends without keep.
SPECIFICATION Spec
CONSTANTS
    a1 = a1
    a2 = a2
    b1 = b1
    v = v
    w = w
    lab = lab
    engine = engine
    replayer = replayer
    p1 = p1
    p2 = p2
    Handles = {lab, replayer}
    Labs = {lab}
    Replays = {replayer}
    Endpoints = {a1, a2}
    Targets <- NodeTargets
    NodeOf <- Nodes
    Declared <- Topology
    Values = {w}
    Clean = Clean
    Pids = {}
    Nobody = Nobody
    Absent = Absent
    Ops = {"impair", "clear", "partition", "heal", "tick", "end"}
    Faulty = {lab, replayer}
    MaxMishaps = 1
INVARIANTS FileHoldsWhatWasSet KernelMatchesFile
