------------------------------ MODULE Contacts ------------------------------
(***************************************************************************)
(* The address book: contacts.c over Store, read by the client with        *)
(* tcsip_contacts_ipc.                                                     *)
(*                                                                         *)
(* While nothing is stored a fetch downloads the list: it is sorted by     *)
(* name and cut into bundles, each stored under the login of its head; the *)
(* first is reported at once.  Every other fetch reports the stored bundle *)
(* with the next greater login, and in the end an empty one.               *)
(*                                                                         *)
(* Contacts are numbered in the order of their logins; `rank' is the order *)
(* of their names, which differ (list_sort never ends on equal ones).      *)
(***************************************************************************)
EXTENDS Store, FiniteSets

CONSTANTS
  MaxContact,   \* bound: contacts
  Bundle,       \* contacts in a bundle: BUNDLE_SIZE - 1
  MaxAsked      \* bound: requests in flight

ASSUME ContactsAssumption == {MaxContact, Bundle, MaxAsked} \subseteq Nat \ {0}

Contact == 1 .. MaxContact
Null == 0

VARIABLES
  rank,    \* the order of names; never changes
  rows,    \* the current rows; val is the set of contacts of a bundle
  cur,     \* ct->cur_idx
  asked,   \* requests in flight
  shown,   \* how often each was reported to the client; 2 is twice or more
  view,    \* the client: "closed", "paging", or "done" at the empty bundle
  latest,  \* ghost: the last list that came, if it was stored to its end
  lists,   \* ghost: how many came, and whether one did in this process
  here

vars == <<rank, rows, cur, asked, shown, view, latest, lists, here>>

Orders == {f \in [Contact -> Contact] : \A c, d \in Contact : f[c] = f[d] => c = d}

Init ==
  /\ rank \in Orders
  /\ rows = {}
  /\ cur = Null
  /\ asked = 0
  /\ shown = [c \in Contact |-> 0]
  /\ view = "closed"
  /\ latest = {} /\ lists = 0 /\ here = FALSE

\* how many come before c in the sorted list
Place(list, c) == Cardinality({d \in list : rank[d] < rank[c]})

\* mutant: what does not fill a bundle is lost
FullBundles(list) ==
  {{c \in list : Place(list, c) \div Bundle = n} : n \in 0 .. (Cardinality(list) \div Bundle) - 1}

\* list_slice, again and again
Bundles(list) ==
  {{c \in list : Place(list, c) \div Bundle = n} : n \in {Place(list, c) \div Bundle : c \in list}}

\* the login of the head of a bundle sorted by name
Idx(bundle) == CHOOSE c \in bundle : \A d \in bundle : rank[c] <= rank[d]

\* store_contacts for each of some bundles: see Stored
Replaced(bundles) ==
  LET new == {[idx |-> Idx(b), val |-> b, young |-> TRUE] : b \in bundles}
      old == UNION {SameIdx(rows, n.idx) : n \in new} IN
  {(rows \ gone) \cup new : gone \in {g \in SUBSET old : \A r \in old : r \in g \/ r.young}}

\* contact_h for a bundle
Shown(bundle) ==
  [c \in Contact |-> IF c \in bundle /\ shown[c] < 2 THEN shown[c] + 1 ELSE shown[c]]

\* mutant: cur_idx is left alone once it is set
CurStays(bundle) == IF cur = Null THEN Idx(bundle) ELSE cur

\* cur_idx
CurIdx(bundle) == Idx(bundle)

\* contacts_fetch with something stored, or with the end of it
FetchStored ==
  IF FetchedNext(rows, cur) = {}
  THEN /\ cur # Null
       /\ view' = "done"
       /\ UNCHANGED <<cur, shown>>
  ELSE \E r \in FetchedNext(rows, cur) :
         /\ cur' = CurIdx(r.val)
         /\ shown' = Shown(r.val)
         /\ view' = "paging"

\* tcsip_contacts_ipc; a client at the end asks no more
Fetch ==
  /\ view # "done"
  /\ FetchStored
  /\ UNCHANGED <<rank, rows, asked, latest, lists, here>>

\* contacts_fetch with nothing stored: contacts_fetch_http
Ask ==
  /\ rows = {} /\ cur = Null
  /\ asked < MaxAsked
  /\ asked' = asked + 1
  /\ UNCHANGED <<rank, rows, cur, shown, view, latest, lists, here>>

\* http_ct_done with a list
Answer(list) ==
  /\ asked > 0 /\ list # {}
  /\ asked' = asked - 1
  /\ LET first == {c \in list : Place(list, c) < Bundle} IN
       /\ shown' = Shown(first)
       /\ cur' = Idx(first)
  /\ rows' \in Replaced(Bundles(list))
  /\ view' = "paging"
  /\ latest' = list /\ lists' = lists + 1 /\ here' = TRUE
  /\ UNCHANGED rank

\* mutant: a request that failed calls back once more
NoAnswerUnasked ==
  /\ asked' = asked - 1
  /\ UNCHANGED <<rank, rows, cur, shown, view, latest, lists, here>>

\* http_ct_done with another code or an empty list, and http_ct_err: the
\* client is told nothing
NoAnswer ==
  /\ asked > 0
  /\ asked' = asked - 1
  /\ UNCHANGED <<rank, rows, cur, shown, view, latest, lists, here>>

Second ==
  /\ \E r \in rows : r.young
  /\ rows' = Aged(rows)
  /\ UNCHANGED <<rank, cur, asked, shown, view, latest, lists, here>>

\* a new struct contacts
Anew ==
  /\ cur' = Null /\ asked' = 0
  /\ shown' = [c \in Contact |-> 0]
  /\ view' = "closed" /\ here' = FALSE

\* the process ends, and with it its requests
Restart ==
  /\ Anew
  /\ UNCHANGED <<rank, rows, latest, lists>>

\* The process is killed in http_ct_done when only the first n bundles are stored,
\* the last of them to its end or to the INSERT only.
Killed(list, n) ==
  /\ asked > 0
  /\ Anew
  /\ \E stored \in Replaced({b \in Bundles(list) : \A c \in b : Place(list, c) < n * Bundle}),
        nth \in {c \in list : Place(list, c) = (n - 1) * Bundle} :
       rows' = stored \/ rows' = stored \cup SameIdx(rows, nth)
  /\ latest' = {} /\ lists' = lists + 1
  /\ UNCHANGED rank

Next ==
  \/ Fetch
  \/ Ask
  \/ \E list \in SUBSET Contact : Answer(list)
  \/ NoAnswer
  \/ Second
  \/ Restart
  \/ \E list \in SUBSET Contact :
       \E n \in 1 .. (Cardinality(list) + Bundle - 1) \div Bundle : Killed(list, n)

\* A client that began to read asks for the next bundle until the empty one comes.
Spec == Init /\ [][Next]_vars /\ WF_vars(Fetch)

(***************************************************************************)
(* Properties.                                                             *)
(***************************************************************************)
TypeOK ==
  /\ rank \in Orders
  /\ rows \subseteq Row(Contact, SUBSET Contact)
  /\ cur \in Contact \cup {Null}
  /\ asked \in 0 .. MaxAsked
  /\ shown \in [Contact -> 0 .. 2]
  /\ view \in {"closed", "paging", "done"}
  /\ latest \subseteq Contact /\ lists \in Nat /\ here \in BOOLEAN

\* README: "history and contacts store available offline".  Every contact of the
\* list that came last is in a current row, under an idx that finds it, whatever
\* another list, stored within the same second or not, has left there; unless the
\* process was killed while it stored a list, after which the rest never comes.
KeptOffline ==
  \A c \in latest : \E r \in rows : c \in r.val /\ r.idx \in r.val

\* If one list came, no contact is reported twice until the client starts anew,
\* although bundles are cut by name, found by login, and read from the store of
\* this process or of another.
NoneShownTwice ==
  lists <= 1 => \A c \in Contact : shown[c] <= 1

\* The bundle reported when the list comes need not be that of the least login:
\* those below it are passed over.
PassedOver(r) ==
  here /\ \E q \in rows : r.idx < q.idx /\ \A p \in rows : rank[q.idx] <= rank[p.idx]

\* If one list came, a client at the end has every other contact.
RestIsShown ==
  lists <= 1 /\ view = "done" =>
    \A r \in rows : PassedOver(r) \/ \A c \in r.val : shown[c] = 1

\* What "available" promises: a client at the end has every contact.
AllShown ==
  lists <= 1 /\ view = "done" => \A c \in latest : shown[c] = 1

\* Where it holds: for a client of a process that did not download the list itself,
\* and for any client if the bundle reported first has the least login.
AllShownUnlessPassed ==
  lists <= 1 /\ view = "done" /\ (~here \/ \A r \in rows : ~PassedOver(r)) =>
    \A c \in latest : shown[c] = 1
=============================================================================
