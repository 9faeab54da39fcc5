\* Two committing handles, a Lab and an engine, no replay.
SPECIFICATION Spec
CONSTANTS
    a1 = a1
    a2 = a2
    b1 = b1
    v = v
    w = w
    lab = lab
    engine = engine
    replayer = replayer
    p1 = p1
    p2 = p2
    Handles = {lab, engine}
    Labs = {lab}
    Replays = {}
    Endpoints = {a1, b1}
    Targets <- LinkTargets
    NodeOf <- Nodes
    Declared <- Topology
    Values = {w}
    Clean = Clean
    Pids = {p1, p2}
    Nobody = Nobody
    Absent = Absent
    Ops = {"impair", "clear", "partition", "heal", "spawn"}
    Faulty = {lab}
    MaxMishaps = 1
SYMMETRY PidSymmetry
INVARIANTS FileHoldsWhatWasSet KernelMatchesFile ProcsTracked
