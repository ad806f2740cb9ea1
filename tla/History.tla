------------------------------ MODULE History ------------------------------
(***************************************************************************)
(* The list of past calls: history.c over Store, filled by                 *)
(* tcsip_call_history and read by tcsip_hist_ipc.                          *)
(*                                                                         *)
(* A row holds a page of calls.  The page being filled is also in memory   *)
(* (top): a call that ends is appended to it and the whole page is stored  *)
(* again.  The first page that is fetched becomes the top one.             *)
(*                                                                         *)
(* Calls are numbered in the order of their ckeys "<second>@...", which    *)
(* the idx of pages are; each is of a second of its own, so this is the    *)
(* order of their times too.  The second is that of the start of a call,   *)
(* or the Date its caller sent.                                            *)
(***************************************************************************)
EXTENDS Store, FiniteSets, FiniteSetsExt

CONSTANTS
  MaxCall,     \* bound: calls that end
  Overlap,     \* calls may end in another order than that of their ckeys
  SameSecond   \* two calls may be filed within one second

ASSUME HistoryAssumption ==
  /\ MaxCall \in Nat \ {0}
  /\ {Overlap, SameSecond} \subseteq BOOLEAN

Call == 1 .. MaxCall
Null == 0

VARIABLES
  rows,    \* the current rows; val is the set of calls of a page
  filed,   \* ghost: the calls history_add has stored
  torn,    \* ghost: the calls whose history_add a kill cut off
  top,     \* hist->top, as a set
  topIdx,  \* hist->top_idx; Null if top is NULL
  iter,    \* hist->iter
  shown,   \* [Call -> Nat]: how often each is on the screen
  view     \* the client: "closed", "paging", or "done" at the last page

vars == <<rows, filed, torn, top, topIdx, iter, shown, view>>

Init ==
  /\ rows = {}
  /\ filed = {} /\ torn = {}
  /\ top = {} /\ topIdx = Null
  /\ iter = Null
  /\ shown = [c \in Call |-> 0]
  /\ view = "closed"

\* the idx a page is fetched before; NULL is the newest
Before(i) == IF i = Null THEN MaxCall + 1 ELSE i

\* mutant: the page in memory is not stored again
AddDropsPage(c) == <<{c}, IF topIdx = Null THEN c ELSE topIdx>>

\* mutant: a first page gets no idx
AddWithoutIdx(c) == <<top \cup {c}, topIdx>>

\* the page and the idx a call is stored in
AddTo(c) == IF topIdx = Null THEN <<{c}, c>> ELSE <<top \cup {c}, topIdx>>

\* call c ends, and tcsip_call_history gives it to history_add
Ends(c) ==
  /\ c \notin filed \cup torn
  /\ Overlap \/ \A d \in Call : d < c => d \in filed \cup torn
  /\ SameSecond \/ \A r \in rows : ~r.young

\* history_add
Add(c) ==
  /\ Ends(c)
  /\ filed' = filed \cup {c}
  /\ top' = AddTo(c)[1]
  /\ topIdx' = AddTo(c)[2]
  /\ rows' \in Stored(rows, topIdx', top')
  /\ shown' = [shown EXCEPT ![c] = @ + 1]
  /\ UNCHANGED <<torn, iter, view>>

\* what a new process, or a new struct history, starts with
Fresh ==
  /\ top' = {} /\ topIdx' = Null
  /\ iter' = Null
  /\ shown' = [c \in Call |-> 0]
  /\ view' = "closed"

\* The process is killed in history_add, before the INSERT or between it and the
\* UPDATE, and started anew.
KilledInAdd(c) ==
  /\ Ends(c)
  /\ torn' = torn \cup {c}
  /\ rows' \in {rows, Inserted(rows, AddTo(c)[2], AddTo(c)[1])}
  /\ Fresh
  /\ UNCHANGED filed

\* mutant: the next page starts at the newest call of this one
OldestIsNewest(page) == Max(page)

\* get_idx: the tail of the page sorted by time, latest first
Oldest(page) == Min(page)

\* history_fetch before `start', with `idx' of the top page; `old' is what the
\* screen has
Fetch(start, idx, old) ==
  IF Fetched(rows, Before(start)) = {}
  THEN /\ view' = "done"
       /\ iter' = start
       /\ topIdx' = idx
       /\ top' = IF idx = Null THEN {} ELSE top
       /\ shown' = old
  ELSE \E r \in Fetched(rows, Before(start)) :
         /\ view' = "paging"
         /\ iter' = Oldest(r.val)
         /\ topIdx' = IF idx = Null THEN Oldest(r.val) ELSE idx
         /\ top' = IF idx = Null THEN r.val ELSE top
         /\ shown' = [c \in Call |-> old[c] + IF c \in r.val THEN 1 ELSE 0]

\* tcsip_hist_ipc with its flag: history_reset, then the newest page
Open ==
  /\ Fetch(Null, Null, [c \in Call |-> 0])
  /\ UNCHANGED <<rows, filed, torn>>

\* tcsip_hist_ipc without the flag.  The client (external) opens the list with it
\* and pages on while pages come: tcsip_hist_ipc would also answer one that does
\* not, with the newest page if none was read, calls reported before in it.
More ==
  /\ view = "paging"
  /\ Fetch(iter, topIdx, shown)
  /\ UNCHANGED <<rows, filed, torn>>

Second ==
  /\ \E r \in rows : r.young
  /\ rows' = Aged(rows)
  /\ UNCHANGED <<filed, torn, top, topIdx, iter, shown, view>>

\* the process is started anew, or tcsip_local allocates a new struct history
Restart ==
  /\ Fresh
  /\ UNCHANGED <<rows, filed, torn>>

Next ==
  \/ \E c \in Call : Add(c) \/ KilledInAdd(c)
  \/ Open
  \/ More
  \/ Second
  \/ Restart

Spec == Init /\ [][Next]_vars

(***************************************************************************)
(* Properties.                                                             *)
(***************************************************************************)
TypeOK ==
  /\ rows \subseteq Row(Call, SUBSET Call)
  /\ filed \subseteq Call /\ torn \subseteq Call /\ top \subseteq Call
  /\ topIdx \in Call \cup {Null} /\ iter \in Call \cup {Null}
  /\ shown \in [Call -> Nat]
  /\ view \in {"closed", "paging", "done"}

\* README: "history and contacts store available offline".  A call whose
\* history_add came to its end is in a current row, after any mix of calls,
\* paging, resets, restarts and kills, those between the INSERT and the UPDATE
\* of another call included, although each call rewrites a whole page from memory
\* and the page in memory may be the older of two rows of one idx.  A call whose
\* own history_add was cut off (torn) is not meant: it may be in no row, or in one
\* that a page read without it replaces later.
FiledIsKept == \A c \in filed : \E r \in rows : c \in r.val

\* A client that pages to the end shows every call of filed, and shows it once: no
\* page is skipped because its idx is not below the oldest call of the page before,
\* whichever of several rows of an idx is read, and calls reported while it pages
\* come in no later page again.  A torn call is shown once or not at all.
EachIsShownOnce ==
  view = "done" => /\ \A c \in filed : shown[c] = 1
                   /\ \A c \in torn : shown[c] <= 1

\* Each further page is older than all that is on the screen.
NewestFirst ==
  [][More => \A c, d \in Call : shown[c] > 0 /\ shown'[d] > shown[d] => d < c]_vars

Log == INSTANCE CallLog WITH screen <- shown

\* The screen holds the newest calls, each once and without a gap but for torn ones,
\* a further page adds only older ones and some, and the end of the list is reported
\* when all filed calls are there: the pages, how many rows an idx has, the top page
\* in memory and what history_add does to it do not show.
ImplementsLog == Log!LogSpec
=============================================================================
