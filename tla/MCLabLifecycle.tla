--------------------------- MODULE MCLabLifecycle ---------------------------
(* LabLifecycle on small instances. *)
EXTENDS LabLifecycle

LifecycleSymmetry == Permutations(Tasks) \cup Permutations(Namespaces)
                     \cup Permutations(Containers)
=============================================================================
