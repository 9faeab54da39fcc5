----------------------------- MODULE MCEventLog -----------------------------
(* EventLog on a small instance. *)
EXTENDS EventLog
=============================================================================
