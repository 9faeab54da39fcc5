---------------------------- MODULE MCLabQueues -----------------------------
(* LabQueues on a small instance. *)
EXTENDS LabQueues
=============================================================================
