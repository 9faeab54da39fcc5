------------------------------- MODULE MCJobs -------------------------------
(* Jobs on a small instance. *)
EXTENDS Jobs
=============================================================================
