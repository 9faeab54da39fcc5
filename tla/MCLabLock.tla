----------------------------- MODULE MCLabLock ------------------------------
(* LabLock on a small instance. *)
EXTENDS LabLock
=============================================================================
