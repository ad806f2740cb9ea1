------------------------------- MODULE Store -------------------------------
(***************************************************************************)
(* The rows store.c keeps for one client, history or contacts: the current *)
(* ones (curnt = 1), each under an idx.                                    *)
(*                                                                         *)
(* A row is never changed: store_add_state inserts a new one, and          *)
(* store_obsolete retires the rows of the same idx whose blob_key is less. *)
(* The key ends in "%d.%d" of seconds and microseconds and is compared as  *)
(* text, so a row of the same second (young) may be retired or not.        *)
(* The two are statements of their own, in no transaction: a process that  *)
(* is killed between them leaves several current rows of one idx.          *)
(* An idx is a number: the order of the numbers is the order of the texts. *)
(***************************************************************************)
EXTENDS Integers

Row(Idx, Val) == [idx : Idx, val : Val, young : BOOLEAN]

SameIdx(rows, i) == {r \in rows : r.idx = i}

\* store_add_state's INSERT; a process killed before the UPDATE leaves this
Inserted(rows, i, v) == rows \cup {[idx |-> i, val |-> v, young |-> TRUE]}

\* store_add to its end, UPDATE included: what the current rows may be then
Stored(rows, i, v) ==
  {Inserted(rows \ gone, i, v) :
     gone \in {g \in SUBSET SameIdx(rows, i) :
                 \A r \in SameIdx(rows, i) : r \in g \/ r.young}}

\* mutant: the order another client asked for is still set
FetchedAscending(rows, start) ==
  LET below == {r \in rows : r.idx < start} IN
  {r \in below : \A q \in below : q.idx >= r.idx}

\* store_fetch in descending order, LIMIT 1: the rows it may read
\* (several if they share an idx), none if there is nothing before start
Fetched(rows, start) ==
  LET below == {r \in rows : r.idx < start} IN
  {r \in below : \A q \in below : q.idx <= r.idx}

\* mutant: store_fetch with FETCH_SQL_ASC's condition and FETCH_SQL's order
FetchedLast(rows, start) ==
  LET above == {r \in rows : r.idx > start} IN
  {r \in above : \A q \in above : q.idx <= r.idx}

\* store_fetch in ascending order, LIMIT 1; start is less than any idx for NULL
FetchedNext(rows, start) ==
  LET above == {r \in rows : r.idx > start} IN
  {r \in above : \A q \in above : q.idx >= r.idx}

\* the clock passes a second
Aged(rows) == {[r EXCEPT !.young = FALSE] : r \in rows}
=============================================================================
