------------------------------ MODULE MCDesign ------------------------------
(* Design on a small instance. *)
EXTENDS Design
=============================================================================
