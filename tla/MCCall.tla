------------------------------- MODULE MCCall -------------------------------
(* Instances of Call: two calls with ckeys of their own and every failure, or *)
(* two that share a ckey and all failures but the three AllAreFlagged names.  *)
EXTENDS Call

CONSTANTS c1, c2, k1, k2

TwoSettings ==
  {[keyOf |-> [c \in Call |-> IF c = c1 THEN k1 ELSE k2], faults |-> FaultKinds],
   [keyOf |-> [c \in Call |-> k1], faults |-> FaultKinds \ {"dns", "offer", "answer"}]}
=============================================================================
