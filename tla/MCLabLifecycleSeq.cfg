\* One run after another, every kind of resource.
SPECIFICATION Spec
CONSTANTS
    Nobody = Nobody
    Absent = Absent
    Tasks = {t1}
    Namespaces = {n1, n2}
    Containers = {c1, c2}
    Registrations = {"subnets", "claims"}
    Ops = {"deploy", "destroy", "reap"}
    Faults = {"op", "pool", "panic", "delete", "kill"}
    MaxMishaps = 2
SYMMETRY LifecycleSymmetry
INVARIANTS ResourcesTracked RollbackComplete SavedLabIsLive
CHECK_DEADLOCK FALSE
