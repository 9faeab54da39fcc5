------------------------------ MODULE LabMutex ------------------------------
(***************************************************************************)
(* What the per-lab lock promises: "one mutation per lab at a time".  A    *)
(* task holds the lab or nobody does; it takes the lab only when nobody    *)
(* has it, and the lab is free again when the holder lets go or dies.      *)
(* LabLock implements this over lock files, and LabLifecycle and           *)
(* RuntimeState are written on top of it.                                  *)
(***************************************************************************)
CONSTANTS Tasks, Nobody

VARIABLE holder

Init == holder = Nobody

Acquire(t) == holder = Nobody /\ holder' = t

Release(t) == holder = t /\ holder' = Nobody

Next == \E t \in Tasks : Acquire(t) \/ Release(t)

Spec == Init /\ [][Next]_holder
=============================================================================
