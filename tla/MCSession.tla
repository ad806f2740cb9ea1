----------------------------- MODULE MCSession -----------------------------
(* Instances of Session: two contacts that share a bucket or do not. *)
EXTENDS Session

CONSTANTS u1, u2, b1, b2

Both == {[u \in Uri |-> IF u = u2 THEN b ELSE b1] : b \in {b1, b2}}
=============================================================================
