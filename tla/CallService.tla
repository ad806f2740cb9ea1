---------------------------- MODULE CallService ----------------------------
(***************************************************************************)
(* What the softphone promises its user interface about calls, and nothing *)
(* of how: a call is announced once, may then be reported established any  *)
(* number of times, and ends once with a reason.  A call the user was told *)
(* is established can only end well: its reason is OK and it is filed in   *)
(* the history as OK, never as cancelled or hung up.                       *)
(***************************************************************************)
CONSTANT Call      \* the calls the softphone may ever handle

VARIABLES
  phase,    \* [Call -> Phases]    what the user interface believes of the call
  reason,   \* [Call -> Reasons]   why it ended, "NONE" before that
  filed     \* [Call -> Verdicts]  how the history files it, "none" before that

svars == <<phase, reason, filed>>

Phases   == {"absent", "announced", "established", "ended"}
Reasons  == {"NONE", "OK", "CANCEL", "HANG"}
Verdicts == {"none", "OK", "HANG"}

ServiceInit ==
  /\ phase  = [c \in Call |-> "absent"]
  /\ reason = [c \in Call |-> "NONE"]
  /\ filed  = [c \in Call |-> "none"]

\* sip.call.add
Announce(c) ==
  /\ phase[c] = "absent"
  /\ phase' = [phase EXCEPT ![c] = "announced"]
  /\ UNCHANGED <<reason, filed>>

\* sip.call.est
Establish(c) ==
  /\ phase[c] = "announced"
  /\ phase' = [phase EXCEPT ![c] = "established"]
  /\ UNCHANGED <<reason, filed>>

\* sip.call.del with its reason, and the history entry in the same step
End(c, r) ==
  /\ phase[c] \in {"announced", "established"}
  /\ r \in Reasons \ {"NONE"}
  /\ phase[c] = "established" => r = "OK"
  /\ phase'  = [phase EXCEPT ![c] = "ended"]
  /\ reason' = [reason EXCEPT ![c] = r]
  /\ filed'  = [filed EXCEPT ![c] = IF r = "OK" THEN "OK" ELSE "HANG"]

ServiceNext ==
  \E c \in Call :
    \/ Announce(c)
    \/ Establish(c)
    \/ \E r \in Reasons : End(c, r)

ServiceSpec == ServiceInit /\ [][ServiceNext]_svars
=============================================================================
