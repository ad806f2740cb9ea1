----------------------------- MODULE MCHistory -----------------------------
(* Instances of History. *)
EXTENDS History
=============================================================================
