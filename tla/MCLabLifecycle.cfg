\* Two concurrent tasks, namespaces only, every operation.
SPECIFICATION Spec
CONSTANTS
    Nobody = Nobody
    Absent = Absent
    Tasks = {t1, t2}
    Namespaces = {n1, n2}
    Containers = {}
    Registrations = {}
    Ops = {"deploy", "apply", "destroy", "reap"}
    Faults = {"op", "save", "panic", "delete", "kill"}
    MaxMishaps = 1
SYMMETRY LifecycleSymmetry
INVARIANTS NamespacesTracked RollbackComplete ReapLeavesNoDebris
CHECK_DEADLOCK FALSE
