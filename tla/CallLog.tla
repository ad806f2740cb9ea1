------------------------------ MODULE CallLog ------------------------------
(***************************************************************************)
(* What a client may rely on of the list of past calls, whatever pages it  *)
(* is stored in: the screen always holds the newest calls, each once and   *)
(* without a gap, and who pages on sees older ones until it has seen all.  *)
(* Of a call that was being filed when the process was killed it may rely  *)
(* on less: it is in the list or is not, each time the list is opened.     *)
(***************************************************************************)
EXTENDS Integers

CONSTANT Call      \* numbers, in the order of the calls

VARIABLES
  filed,   \* the calls that have ended
  torn,    \* the calls a kill cut off while they were filed
  screen,  \* [Call -> Nat]: how often the client was sent each since it last
           \* opened the list
  view     \* "closed", "paging", or "done" at the end of the list

lvars == <<filed, torn, screen, view>>

\* the calls of s on the screen, each once
Showing(s) == [c \in Call |-> IF c \in s THEN 1 ELSE 0]

LogInit == filed = {} /\ torn = {} /\ screen = Showing({}) /\ view = "closed"

\* the parts of the list that lack no filed call newer than one they have
Newest == {s \in SUBSET (filed \cup torn) :
             \A c \in s, d \in filed : c <= d => d \in s}

\* no call of before is newer than c
Newer(c) == \A d \in filed \cup torn : d < c

\* a call that ended is the newest, and is put on the screen at once
File(c) ==
  /\ Newer(c)
  /\ filed' = filed \cup {c}
  /\ screen' = [screen EXCEPT ![c] = 1]
  /\ UNCHANGED <<torn, view>>

\* the process is killed while it files a call, and the screen is gone
CutOff(c) ==
  /\ Newer(c)
  /\ torn' = torn \cup {c}
  /\ screen' = Showing({}) /\ view' = "closed"
  /\ UNCHANGED filed

OpenLog ==
  /\ \E s \in Newest :
       /\ screen' = Showing(s)
       /\ IF s = {} THEN filed = {} /\ view' = "done" ELSE view' = "paging"
  /\ UNCHANGED <<filed, torn>>

\* older calls, or the news that there are none
PageOn ==
  /\ view = "paging"
  /\ \/ /\ view' = "done"
        /\ \A c \in filed : screen[c] = 1
        /\ UNCHANGED screen
     \/ /\ view' = "paging"
        /\ \E s, t \in Newest :
             /\ screen = Showing(s) /\ screen' = Showing(t)
             /\ s \subseteq t /\ s # t
             /\ \A c \in s, d \in t \ s : d < c
  /\ UNCHANGED <<filed, torn>>

CloseLog ==
  /\ screen' = Showing({}) /\ view' = "closed"
  /\ UNCHANGED <<filed, torn>>

LogNext ==
  \/ \E c \in Call : File(c) \/ CutOff(c)
  \/ OpenLog
  \/ PageOn
  \/ CloseLog

LogSpec == LogInit /\ [][LogNext]_lvars
=============================================================================
