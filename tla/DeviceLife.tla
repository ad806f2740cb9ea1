----------------------------- MODULE DeviceLife -----------------------------
(***************************************************************************)
(* What a device promises that is closed by its own callbacks: only the    *)
(* last thread that uses it frees it, nobody joins once it is closing, and *)
(* none that could free it goes away before, unless a callback is lost.    *)
(***************************************************************************)
CONSTANT Threads

VARIABLES
  life,   \* none, open, closing, gone
  users,  \* threads that are in a callback, or will be called back
  lost    \* a callback that was to come will not

vars == <<life, users, lost>>

Init == life = "none" /\ users = {} /\ lost = FALSE

Open == life = "none" /\ life' = "open" /\ UNCHANGED <<users, lost>>

\* Opening failed half way.
GiveUp == life = "open" /\ users = {} /\ life' = "none" /\ UNCHANGED <<users, lost>>

Join(t) == life = "open" /\ users' = users \cup {t} /\ UNCHANGED <<life, lost>>

Close ==
  /\ life = "open" /\ (users = Threads \/ lost)
  /\ life' = "closing" /\ UNCHANGED <<users, lost>>

\* A thread leaves the rest to another.
Leave(t) ==
  /\ life = "closing" /\ t \in users /\ (users \ {t} # {} \/ lost)
  /\ users' = users \ {t} /\ UNCHANGED <<life, lost>>

\* A callback is lost, before it has come the first time or after.
Lose(t) ==
  /\ life \in {"open", "closing"}
  /\ users' = users \ {t} /\ lost' = TRUE /\ UNCHANGED life

Free(t) ==
  /\ life = "closing" /\ users = {t}
  /\ life' = "gone" /\ users' = {} /\ UNCHANGED lost

Next == Open \/ GiveUp \/ Close \/ \E t \in Threads : Join(t) \/ Leave(t) \/ Lose(t) \/ Free(t)

Spec == Init /\ [][Next]_vars
=============================================================================
