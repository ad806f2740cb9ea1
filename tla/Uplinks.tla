------------------------------ MODULE Uplinks ------------------------------
(***************************************************************************)
(* tcuplinks.c: the contacts the registrar knows for this user, kept in a  *)
(* hash of 16 buckets, and the adds, updates and removals reported to the  *)
(* user interface when a response to REGISTER brings a new list.           *)
(*                                                                         *)
(* The new list is put in a second hash (uris_c) while the old one         *)
(* (data_c) is asked what was there before; then the second replaces the   *)
(* first.  apply_find accepts any element, so both lookups find a contact  *)
(* of the same BUCKET.  A contact is a uri: its flag `ok' goes through to  *)
(* the report untouched.                                                   *)
(***************************************************************************)
CONSTANTS
  Uri,         \* the contacts there may be
  Buckets,     \* how the contacts may fall into the buckets
  HasHandler   \* the client gave an up_h (cli.c gives none)

ASSUME UplinksAssumption ==
  /\ \A f \in Buckets : DOMAIN f = Uri
  /\ HasHandler \in BOOLEAN

VARIABLES
  known,     \* ups->data_c
  report,    \* [Uri -> Ops]: the last report about a contact
  crashed,   \* a NULL handler was called
  bucket     \* [Uri -> bucket]: hash_joaat_ci of the uri modulo 16; never changes

uplinks == <<known, report, crashed, bucket>>

Ops == {"none", "rm", "add", "upd"}   \* 0, 1 and 2 in the source

UplinksInit ==
  /\ known = {}
  /\ report = [u \in Uri |-> "none"]
  /\ crashed = FALSE
  /\ bucket \in Buckets

\* hash_lookup(.., apply_find): something is in the bucket of u
Occupied(table, u) == \E w \in table : bucket[w] = bucket[u]

\* mutant: one_add looks in the table it fills
UpdateLooksInNew(upl) ==
  LET gone == {u \in known : ~Occupied(upl, u)} IN
  /\ known' = upl
  /\ report' = [u \in Uri |-> IF u \in upl THEN "upd"
                              ELSE IF u \in gone THEN "rm" ELSE report[u]]
  /\ crashed' = (~HasHandler /\ gone # {})
  /\ UNCHANGED bucket

\* mutant: a response without contacts is ignored
UpdateSkipsEmpty(upl) ==
  LET gone == {u \in known : ~Occupied(upl, u)} IN
  /\ known' = upl
  /\ report' = [u \in Uri |->
       IF u \in upl THEN IF Occupied(known, u) THEN "upd" ELSE "add"
       ELSE IF u \in gone /\ upl # {} THEN "rm" ELSE report[u]]
  /\ crashed' = (~HasHandler /\ gone # {})
  /\ UNCHANGED bucket

\* mutant: one_rm's test of `found' inverted
UpdateRemovesFound(upl) ==
  LET gone == {u \in known : Occupied(upl, u)} IN
  /\ known' = upl
  /\ report' = [u \in Uri |->
       IF u \in gone THEN "rm"
       ELSE IF u \in upl THEN IF Occupied(known, u) THEN "upd" ELSE "add"
       ELSE report[u]]
  /\ crashed' = (~HasHandler /\ gone # {})
  /\ UNCHANGED bucket

\* uplink_upd: one_add for the new contacts, one_rm for the old ones
Update(upl) ==
  LET gone == {u \in known : ~Occupied(upl, u)} IN
  /\ known' = upl
  /\ report' = IF HasHandler
               THEN [u \in Uri |->
                      IF u \in upl THEN IF Occupied(known, u) THEN "upd" ELSE "add"
                      ELSE IF u \in gone THEN "rm"
                      ELSE report[u]]
               ELSE report
  /\ crashed' = (~HasHandler /\ gone # {})
  /\ UNCHANGED bucket

(***************************************************************************)
(* Properties.                                                             *)
(***************************************************************************)
UplinksTypeOK ==
  /\ known \subseteq Uri
  /\ report \in [Uri -> Ops]
  /\ crashed \in BOOLEAN
  /\ bucket \in Buckets

Shown(u) == report[u] \in {"add", "upd"}

\* no other contact falls into the bucket of u
Alone(u) == \A w \in Uri : bucket[w] = bucket[u] => w = u

\* Every contact the registrar listed last is on the screen, whatever shares
\* its bucket and in whatever order lists came (one_add, one_rm).
KnownIsShown ==
  HasHandler => \A u \in known : Shown(u)

\* A contact with a bucket of its own is on the screen exactly while the
\* registrar lists it; one that shares a bucket may stay there for ever.
AloneIsExact ==
  HasHandler => \A u \in Uri : Alone(u) => (Shown(u) <=> u \in known)

\* The client can follow the reports about a contact with a bucket of its own:
\* an update or a removal only of what is shown, an add only of what is not.
ReportsFollowOn ==
  [][\A u \in Uri : Alone(u) =>
       /\ report'[u] = "upd" => Shown(u)
       /\ report'[u] = "rm"  => Shown(u) \/ report[u] = "rm"
       /\ report'[u] = "add" => ~Shown(u)]_uplinks

\* one_add returns early "if (ups->up_h == NULL)": a client may do without the
\* handler, and cli.c does.
NullHandlerIsNotCalled == ~crashed
=============================================================================
