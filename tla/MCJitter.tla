------------------------------ MODULE MCJitter ------------------------------
(* Instances of Jitter. *)
EXTENDS Jitter
=============================================================================
