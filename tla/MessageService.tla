--------------------------- MODULE MessageService ---------------------------
(***************************************************************************)
(* What the user is promised about text messages, whatever is stopped,     *)
(* lost, sent twice or answered late: a message is kept before it is sent  *)
(* and for good, it is filed as delivered when it was accepted, and what   *)
(* the user is told of it is true and never taken back.                    *)
(***************************************************************************)
CONSTANTS
  Msg,       \* messages of the user
  Incoming,  \* messages other users write
  DateOf     \* the sender and the Date of each

VARIABLES
  kept,      \* messages of the user in the database
  accepted,  \* those a 200 came for
  filed,     \* those the database has as delivered
  told,      \* message -> what the user was told last
  inbox,     \* messages of others in the database
  shown      \* those the user was told of

vars == <<kept, accepted, filed, told, inbox, shown>>

Init ==
  /\ kept = {} /\ accepted = {} /\ filed = {} /\ told = [m \in Msg |-> "none"]
  /\ inbox = {} /\ shown = {}

\* A new message; the process may stop before the report.
Take(m) ==
  /\ m \notin kept /\ told[m] = "none"
  /\ kept' = kept \cup {m}
  /\ told' \in {told, [told EXCEPT ![m] = "pending"]}
  /\ UNCHANGED <<accepted, filed, inbox, shown>>

\* A 200; it may be the second.
Deliver(m) ==
  /\ m \in kept
  /\ accepted' = accepted \cup {m} /\ filed' = filed \cup {m}
  /\ told' \in {told, [told EXCEPT ![m] = "sync"]}
  /\ UNCHANGED <<kept, inbox, shown>>

\* A message of another user, new or again; a message makes room for it only if it
\* has the same sender and Date.
Receive(n) ==
  /\ inbox' \subseteq inbox \cup {n} /\ n \in inbox'
  /\ \A k \in inbox : k \in inbox' \/ DateOf[k] = DateOf[n]
  /\ shown' \in {shown, shown \cup {n}}
  /\ UNCHANGED <<kept, accepted, filed, told>>

Next ==
  \/ \E m \in Msg : Take(m) \/ Deliver(m)
  \/ \E n \in Incoming : Receive(n)

Spec == Init /\ [][Next]_vars
=============================================================================
