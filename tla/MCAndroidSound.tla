--------------------------- MODULE MCAndroidSound ---------------------------
(* Instances of AndroidSound. *)
EXTENDS AndroidSound
=============================================================================
