----------------------------- MODULE MCMessages -----------------------------
(* Instances of Messages. *)
EXTENDS Messages

\* messages of one sender and second
OneSecond == [n \in Incoming |-> 1]
=============================================================================
