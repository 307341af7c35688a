------------------------------ MODULE MCTrace -------------------------------
(* Instances of Trace for model checking. *)
EXTENDS Trace
=============================================================================
