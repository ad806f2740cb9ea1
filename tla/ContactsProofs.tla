--------------------------- MODULE ContactsProofs ---------------------------
(***************************************************************************)
(* Proofs about Contacts, for any number of contacts and requests, any     *)
(* size of bundles, any order of names and any lists that come.            *)
(***************************************************************************)
EXTENDS Contacts, FiniteSetTheorems, WellFoundedInduction, TLAPS

(***************************************************************************)
(* The inductive invariant.  Of several lists the last is kept; the rest   *)
(* is about clients that have seen one list at most: its bundles are       *)
(* disjoint, and cur divides what was shown from what was not.             *)
(***************************************************************************)
UnderHead == \A r \in rows : r.val # {} /\ r.idx = Idx(r.val)

Disjoint == \A r, q \in rows : r = q \/ r.val \cap q.val = {}

ShownIsBelow ==
  \A c \in Contact : shown[c] # 0 => \E r \in rows : c \in r.val /\ r.idx <= cur

BelowIsShown ==
  \A r \in rows : r.idx <= cur => PassedOver(r) \/ \A c \in r.val : shown[c] = 1

NoneAbove == view = "done" => \A r \in rows : r.idx <= cur

OneList == Disjoint /\ ShownIsBelow /\ BelowIsShown /\ NoneAbove /\ NoneShownTwice

IInv ==
  /\ TypeOK
  /\ UnderHead
  /\ KeptOffline
  /\ lists = 0 => rows = {}
  /\ lists <= 1 => OneList

(***************************************************************************)
(* Least elements.                                                         *)
(***************************************************************************)
\* A nonempty set of natural numbers has a least element.
LEMMA LeastNat ==
  ASSUME NEW S \in SUBSET Nat, S # {}
  PROVE  \E x \in S : \A y \in S : x <= y
<1>. DEFINE R == OpToRel(<, Nat)
<1>1. IsWellFoundedOn(R, S)
  BY NatLessThanWellFounded, IsWellFoundedOnSubset
<1>2. \A x, y \in Nat : y < x <=> <<y, x>> \in R
  BY DEF OpToRel
<1>. HIDE DEF R
<1>3. PICK x \in S : \A y \in S : ~(<<y, x>> \in R)
  BY <1>1, WFMin
<1>4. ASSUME NEW y \in S
      PROVE  x <= y
  <2>1. x \in Nat /\ y \in Nat
    OBVIOUS
  <2>2. ~(y < x)
    BY <1>2, <1>3, <2>1
  <2>. QED
    BY <2>1, <2>2
<1>. QED
  BY <1>4

\* The head of a bundle is in it, and has the least name.
LEMMA HeadIsLeast ==
  ASSUME rank \in Orders, NEW b \in SUBSET Contact, b # {}
  PROVE  Idx(b) \in b /\ \A d \in b : rank[Idx(b)] <= rank[d]
<1>. DEFINE S == {rank[c] : c \in b}
<1>1. \A c \in Contact : rank[c] \in Nat
  BY ContactsAssumption DEF Orders, Contact
<1>2. S \in SUBSET Nat /\ S # {}
  BY <1>1
<1>3. PICK x \in S : \A y \in S : x <= y
  <2>. HIDE DEF S
  <2>. QED
    BY <1>2, LeastNat
<1>4. PICK c \in b : x = rank[c]
  BY <1>3
<1>5. \A d \in b : rank[c] <= rank[d]
  BY <1>3, <1>4
<1>. QED
  BY <1>5 DEF Idx

\* If anything is stored above the start, something is fetched.
LEMMA NextExists ==
  ASSUME rows \subseteq Row(Contact, SUBSET Contact), NEW start, FetchedNext(rows, start) = {}
  PROVE  \A r \in rows : ~(r.idx > start)
<1>. SUFFICES ASSUME NEW r0 \in rows, r0.idx > start
              PROVE  FALSE
  OBVIOUS
<1>. DEFINE above == {r \in rows : r.idx > start}
            S == {r.idx : r \in above}
<1>1. S \in SUBSET Nat /\ S # {}
  <2>1. r0 \in above
    OBVIOUS
  <2>2. \A r \in rows : r.idx \in Nat
    BY ContactsAssumption DEF Row, Contact
  <2>. QED
    BY <2>1, <2>2
<1>2. PICK x \in S : \A y \in S : x <= y
  <2>. HIDE DEF S
  <2>. QED
    BY <1>1, LeastNat
<1>3. PICK r \in above : x = r.idx
  BY <1>2
<1>4. \A q \in above : q.idx >= r.idx
  BY <1>2, <1>3, <1>1
<1>5. r \in FetchedNext(rows, start)
  BY <1>3, <1>4 DEF FetchedNext
<1>. QED
  BY <1>5

(***************************************************************************)
(* Bundles.                                                                *)
(***************************************************************************)
LEMMA PlaceIsNat ==
  ASSUME NEW list \in SUBSET Contact, NEW c
  PROVE  Place(list, c) \in Nat
<1>1. IsFiniteSet(Contact)
  BY ContactsAssumption, FS_Interval DEF Contact
<1>2. IsFiniteSet({d \in list : rank[d] < rank[c]})
  BY <1>1, FS_Subset
<1>. QED
  BY <1>2, FS_CardinalityType DEF Place

\* The bundles of a list are a partition of it.
LEMMA BundlesPartition ==
  ASSUME NEW list \in SUBSET Contact
  PROVE  /\ \A b \in Bundles(list) : b \in SUBSET Contact /\ b # {}
         /\ \A b, e \in Bundles(list) : b = e \/ b \cap e = {}
         /\ \A c \in list : \E b \in Bundles(list) : c \in b
<1>. DEFINE N(c) == Place(list, c) \div Bundle
            B(n) == {c \in list : N(c) = n}
<1>1. Bundles(list) = {B(n) : n \in {N(c) : c \in list}}
  BY DEF Bundles
<1>. HIDE DEF N
<1>2. \A c \in list : B(N(c)) \in Bundles(list) /\ c \in B(N(c))
  BY <1>1
<1>3. \A b \in Bundles(list) : \E c \in list : b = B(N(c))
  BY <1>1
<1>4. \A b \in Bundles(list) : b \in SUBSET Contact /\ b # {}
  BY <1>2, <1>3
<1>5. \A b, e \in Bundles(list) : b = e \/ b \cap e = {}
  <2>. TAKE b, e \in Bundles(list)
  <2>. SUFFICES ASSUME NEW c \in b \cap e
                PROVE  b = e
    OBVIOUS
  <2>1. \A d \in list : c \in B(N(d)) => N(d) = N(c)
    OBVIOUS
  <2>. QED
    BY <1>3, <2>1
<1>6. \A c \in list : \E b \in Bundles(list) : c \in b
  BY <1>2
<1>. QED
  BY <1>4, <1>5, <1>6

\* The bundle that is reported at once is one of them, and has the least name.
LEMMA FirstBundle ==
  ASSUME rank \in Orders, NEW list \in SUBSET Contact, list # {}
  PROVE  LET first == {c \in list : Place(list, c) < Bundle} IN
         /\ first \in Bundles(list)
         /\ \A d \in list : rank[Idx(first)] <= rank[d]
<1>. DEFINE first == {c \in list : Place(list, c) < Bundle}
            h == Idx(list)
<1>1. h \in list /\ \A d \in list : rank[h] <= rank[d]
  BY HeadIsLeast
<1>2. Place(list, h) = 0
  <2>1. \A d \in list : rank[d] \in Nat
    BY ContactsAssumption DEF Orders, Contact
  <2>2. {d \in list : rank[d] < rank[h]} = {}
    BY <1>1, <2>1
  <2>. QED
    BY <2>2, FS_EmptySet DEF Place
<1>3. Bundle \in Nat \ {0}
  BY ContactsAssumption
<1>4. h \in first
  BY <1>1, <1>2, <1>3
<1>5. \A c \in list : Place(list, c) < Bundle <=> Place(list, c) \div Bundle = 0
  <2>. TAKE c \in list
  <2>. DEFINE p == Place(list, c)
  <2>1. p \in Nat
    BY PlaceIsNat
  <2>. HIDE DEF p
  <2>2. p < Bundle <=> p \div Bundle = 0
    BY <2>1, <1>3
  <2>. QED
    BY <2>2 DEF p
<1>6. first = {c \in list : Place(list, c) \div Bundle = Place(list, h) \div Bundle}
  BY <1>1, <1>4, <1>5
<1>7. first \in Bundles(list)
  BY <1>1, <1>6 DEF Bundles
<1>8. first \in SUBSET Contact /\ first # {}
  BY <1>4
<1>9. rank[Idx(first)] <= rank[h] /\ Idx(first) \in first
  BY <1>4, <1>8, HeadIsLeast
<1>10. \A d \in list : rank[Idx(first)] <= rank[d]
  <2>. TAKE d \in list
  <2>0. \A c \in Contact : rank[c] \in Nat
    BY ContactsAssumption DEF Orders, Contact
  <2>. HIDE DEF h
  <2>1. rank[d] \in Nat /\ rank[h] \in Nat /\ rank[Idx(first)] \in Nat
    BY <1>1, <1>8, <1>9, <2>0
  <2>. QED
    BY <1>1, <1>9, <2>1
<1>. QED
  BY <1>7, <1>10

\* What the rows are after some bundles are stored.
LEMMA ReplacedRows ==
  ASSUME TypeOK, UnderHead,
         NEW list \in SUBSET Contact, NEW bs \in SUBSET Bundles(list),
         NEW rs \in Replaced(bs)
  PROVE  LET new == {[idx |-> Idx(b), val |-> b, young |-> TRUE] : b \in bs} IN
         /\ new \subseteq rs
         /\ rs \subseteq rows \cup new
         /\ rows = {} => rs = new
         /\ rs \subseteq Row(Contact, SUBSET Contact)
         /\ \A r \in rs : r.val # {} /\ r.idx = Idx(r.val)
<1>. DEFINE new == {[idx |-> Idx(b), val |-> b, young |-> TRUE] : b \in bs}
<1>1. new \subseteq rs /\ rs \subseteq rows \cup new
  BY DEF Replaced
<1>2. \A b \in bs : b \in SUBSET Contact /\ b # {}
  BY BundlesPartition
<1>3. \A b \in bs : Idx(b) \in b
  BY <1>2, HeadIsLeast DEF TypeOK
<1>4. new \subseteq Row(Contact, SUBSET Contact)
  <2>1. \A b \in bs : Idx(b) \in Contact
    BY <1>2, <1>3
  <2>2. ASSUME NEW b \in bs, NEW i \in Contact
        PROVE  [idx |-> i, val |-> b, young |-> TRUE] \in Row(Contact, SUBSET Contact)
    BY <1>2 DEF Row
  <2>. QED
    BY <2>1, <2>2
<1>5. \A r \in new : r.val # {} /\ r.idx = Idx(r.val)
  BY <1>2
<1>8. rows = {} => rs = new
  BY <1>1
<1>. HIDE DEF new
<1>6. rs \subseteq Row(Contact, SUBSET Contact)
  BY <1>1, <1>4 DEF TypeOK
<1>7. \A r \in rs : r.val # {} /\ r.idx = Idx(r.val)
  BY <1>1, <1>5 DEF UnderHead
<1>. QED
  BY <1>1, <1>6, <1>7, <1>8 DEF new

(***************************************************************************)
(* The steps.                                                              *)
(***************************************************************************)
LEMMA InitIInv == Init => IInv
<1>. SUFFICES ASSUME Init
              PROVE  IInv
  OBVIOUS
<1>1. TypeOK
  <2>1. 0 \in 0 .. MaxAsked
    BY ContactsAssumption
  <2>2. [c \in Contact |-> 0] \in [Contact -> 0 .. 2]
    OBVIOUS
  <2>. QED
    BY <2>1, <2>2 DEF Init, TypeOK
<1>2. UnderHead /\ KeptOffline /\ OneList
  BY DEF Init, UnderHead, KeptOffline, OneList, Disjoint, ShownIsBelow, BelowIsShown,
         NoneAbove, NoneShownTwice
<1>. QED
  BY <1>1, <1>2 DEF IInv, Init

\* A request comes or goes, or nothing changes.
LEMMA AskedOnly ==
  ASSUME IInv, UNCHANGED <<rank, rows, cur, shown, view, latest, lists, here>>,
         asked' \in 0 .. MaxAsked
  PROVE  IInv'
<1>1. TypeOK'
  BY DEF IInv, TypeOK
<1>2. UnderHead' /\ KeptOffline'
  BY DEF IInv, UnderHead, KeptOffline, Idx
<1>3. OneList' <=> OneList
  BY DEF OneList, Disjoint, ShownIsBelow, BelowIsShown, PassedOver, NoneAbove, NoneShownTwice
<1>. QED
  BY <1>1, <1>2, <1>3 DEF IInv

\* A client that begins anew has seen nothing.
LEMMA AnewOneList ==
  ASSUME Anew, Disjoint', rows' \subseteq Row(Contact, SUBSET Contact)
  PROVE  OneList'
<1>1. \A r \in rows' : ~(r.idx <= 0)
  BY ContactsAssumption DEF Row, Contact
<1>2. ShownIsBelow' /\ NoneAbove' /\ NoneShownTwice'
  BY DEF Anew, ShownIsBelow, NoneAbove, NoneShownTwice
<1>3. BelowIsShown'
  BY <1>1 DEF Anew, BelowIsShown, Null
<1>. QED
  BY <1>2, <1>3 DEF OneList

LEMMA AnewType ==
  ASSUME TypeOK, Anew, rank' = rank, rows' \subseteq Row(Contact, SUBSET Contact),
         latest' \subseteq Contact, lists' \in Nat
  PROVE  TypeOK'
<1>1. 0 \in 0 .. MaxAsked
  BY ContactsAssumption
<1>2. [c \in Contact |-> 0] \in [Contact -> 0 .. 2]
  OBVIOUS
<1>. QED
  BY <1>1, <1>2 DEF TypeOK, Anew

LEMMA RestartKeeps ==
  ASSUME IInv, Restart
  PROVE  IInv'
<1>1. TypeOK'
  BY AnewType DEF IInv, Restart, TypeOK
<1>2. UnderHead' /\ KeptOffline'
  BY DEF IInv, UnderHead, KeptOffline, Idx, Restart
<1>3. lists <= 1 => Disjoint'
  BY DEF IInv, OneList, Disjoint, Restart
<1>4. lists <= 1 => OneList'
  BY <1>1, <1>3, AnewOneList DEF Restart, TypeOK
<1>. QED
  BY <1>1, <1>2, <1>4 DEF IInv, Restart

\* The next bundle is fetched, or there is none.
LEMMA FetchKeeps ==
  ASSUME IInv, Fetch
  PROVE  IInv'
<1>. USE DEF IInv
<1>1. UnderHead' /\ KeptOffline'
  BY DEF UnderHead, KeptOffline, Idx, Fetch
<1>2. rows' = rows /\ rank' = rank /\ here' = here /\ lists' = lists
  BY DEF Fetch
<1>3. Disjoint' <=> Disjoint
  BY <1>2 DEF Disjoint
<1>4. \A r \in rows : PassedOver(r)' <=> PassedOver(r)
  BY <1>2 DEF PassedOver
<1>5. CASE FetchedNext(rows, cur) = {}
  <2>1. cur' = cur /\ shown' = shown /\ view' = "done"
    BY <1>5 DEF Fetch, FetchStored
  <2>2. TypeOK'
    BY <2>1 DEF TypeOK, Fetch
  <2>3. \A r \in rows : r.idx <= cur
    <3>1. \A r \in rows : ~(r.idx > cur)
      BY <1>5, NextExists DEF TypeOK
    <3>2. \A r \in rows : r.idx \in Nat /\ cur \in Nat
      BY ContactsAssumption DEF TypeOK, Row, Contact, Null
    <3>. QED
      BY <3>1, <3>2
  <2>4. lists <= 1 => ShownIsBelow' /\ BelowIsShown' /\ NoneAbove' /\ NoneShownTwice'
    BY <1>2, <1>4, <2>1, <2>3
       DEF OneList, ShownIsBelow, BelowIsShown, NoneAbove, NoneShownTwice
  <2>. QED
    BY <1>1, <1>2, <1>3, <2>2, <2>4 DEF OneList
<1>6. CASE FetchedNext(rows, cur) # {}
  <2>1. PICK r \in FetchedNext(rows, cur) :
          cur' = Idx(r.val) /\ shown' = Shown(r.val) /\ view' = "paging"
    BY <1>6 DEF Fetch, FetchStored, CurIdx
  <2>2. r \in rows /\ r.idx > cur /\ \A q \in rows : q.idx > cur => q.idx >= r.idx
    BY DEF FetchedNext
  <2>3. cur' = r.idx /\ r.idx \in Contact /\ r.val \in SUBSET Contact
    BY <2>1, <2>2 DEF UnderHead, TypeOK, Row
  <2>4. \A q \in rows : q.idx \in Nat /\ cur \in Nat
    BY ContactsAssumption DEF TypeOK, Row, Contact, Null
  <2>5. \A c \in Contact : shown'[c] = IF c \in r.val /\ shown[c] < 2 THEN shown[c] + 1 ELSE shown[c]
    BY <2>1 DEF Shown
  <2>6. TypeOK'
    <3>1. shown' \in [Contact -> 0 .. 2]
      <4>1. \A c \in Contact : shown[c] \in 0 .. 2
        BY DEF TypeOK
      <4>. QED
        BY <2>1, <4>1 DEF Shown
    <3>. QED
      BY <2>1, <2>3, <3>1 DEF TypeOK, Fetch
  <2>7. ASSUME lists <= 1
        PROVE  OneList'
    <3>1. \A c \in r.val : shown[c] = 0
      <4>. SUFFICES ASSUME NEW c \in r.val, shown[c] # 0
                    PROVE  FALSE
        OBVIOUS
      <4>1. PICK q \in rows : c \in q.val /\ q.idx <= cur
        BY <2>3, <2>7 DEF OneList, ShownIsBelow
      <4>2. q # r
        BY <2>2, <2>4, <4>1
      <4>. QED
        BY <2>2, <2>7, <4>1, <4>2 DEF OneList, Disjoint
    <3>2. \A c \in Contact : shown'[c] = IF c \in r.val THEN 1 ELSE shown[c]
      BY <2>5, <3>1
    <3>3. ShownIsBelow'
      <4>. SUFFICES ASSUME NEW c \in Contact, shown'[c] # 0
                    PROVE  \E q \in rows : c \in q.val /\ q.idx <= cur'
        BY <1>2 DEF ShownIsBelow
      <4>1. CASE c \in r.val
        BY <2>2, <2>3, <2>4, <4>1
      <4>2. CASE c \notin r.val
        <5>1. PICK q \in rows : c \in q.val /\ q.idx <= cur
          BY <2>7, <3>2, <4>2 DEF OneList, ShownIsBelow
        <5>2. q.idx <= cur'
          BY <2>2, <2>3, <2>4, <5>1
        <5>. QED
          BY <5>1, <5>2
      <4>. QED
        BY <4>1, <4>2
    <3>4. BelowIsShown'
      <4>. SUFFICES ASSUME NEW q \in rows, q.idx <= cur', ~PassedOver(q)
                    PROVE  \A c \in q.val : shown'[c] = 1
        BY <1>2, <1>4 DEF BelowIsShown
      <4>0. q.val \in SUBSET Contact
        BY DEF TypeOK, Row
      <4>1. CASE q.idx <= cur
        <5>1. \A c \in q.val : shown[c] = 1
          BY <2>7, <4>1 DEF OneList, BelowIsShown
        <5>. QED
          BY <3>2, <4>0, <5>1
      <4>2. CASE ~(q.idx <= cur)
        <5>1. q.idx = r.idx
          BY <2>2, <2>3, <2>4, <4>2
        <5>2. r.idx \in q.val /\ r.idx \in r.val
          BY <2>2, <5>1, HeadIsLeast DEF UnderHead, TypeOK, Row
        <5>3. q = r
          BY <2>2, <2>7, <5>2 DEF OneList, Disjoint
        <5>. QED
          BY <3>2, <4>0, <5>3
      <4>. QED
        BY <4>1, <4>2
    <3>5. NoneAbove' /\ NoneShownTwice'
      BY <2>1, <2>7, <3>2 DEF OneList, NoneAbove, NoneShownTwice
    <3>. QED
      BY <1>3, <2>7, <3>3, <3>4, <3>5 DEF OneList
  <2>. QED
    BY <1>1, <1>2, <2>6, <2>7
<1>. QED
  BY <1>5, <1>6

\* A second passes: the rows are the same but for their age.
LEMMA SecondKeeps ==
  ASSUME IInv, Second
  PROVE  IInv'
<1>. USE DEF IInv
<1>. DEFINE Old(r) == [r EXCEPT !.young = FALSE]
<1>1. rows' = {Old(r) : r \in rows}
  BY DEF Second, Aged
<1>2. \A r \in rows : /\ Old(r).idx = r.idx /\ Old(r).val = r.val
                      /\ Old(r) \in Row(Contact, SUBSET Contact)
  BY DEF TypeOK, Row
<1>. HIDE DEF Old
<1>3. UNCHANGED <<rank, cur, asked, shown, view, latest, lists, here>>
  BY DEF Second
<1>4. \A r \in rows : Old(r) \in rows'
  BY <1>1
<1>5. \A q \in rows' : \E r \in rows : q = Old(r)
  BY <1>1
<1>6. TypeOK'
  BY <1>2, <1>3, <1>5 DEF TypeOK
<1>7. UnderHead'
  BY <1>2, <1>3, <1>5 DEF UnderHead, Idx
<1>8. KeptOffline'
  BY <1>2, <1>3, <1>4 DEF KeptOffline
<1>9. ASSUME lists <= 1
      PROVE  OneList'
  <2>1. Disjoint'
    BY <1>2, <1>5, <1>9 DEF OneList, Disjoint
  <2>2. ShownIsBelow'
    BY <1>2, <1>3, <1>4, <1>9 DEF OneList, ShownIsBelow
  <2>3. \A r \in rows : PassedOver(r) => PassedOver(Old(r))'
    BY <1>2, <1>3, <1>4, <1>5 DEF PassedOver
  <2>4. BelowIsShown'
    <3>. SUFFICES ASSUME NEW q \in rows', q.idx <= cur, ~PassedOver(q)'
                  PROVE  \A c \in q.val : shown[c] = 1
      BY <1>3 DEF BelowIsShown
    <3>1. PICK r \in rows : q = Old(r)
      BY <1>5
    <3>. QED
      BY <1>2, <1>9, <2>3, <3>1 DEF OneList, BelowIsShown
  <2>5. NoneAbove' /\ NoneShownTwice'
    BY <1>2, <1>3, <1>5, <1>9 DEF OneList, NoneAbove, NoneShownTwice
  <2>. QED
    BY <2>1, <2>2, <2>4, <2>5 DEF OneList
<1>10. (lists = 0 => rows = {})'
  BY <1>3, <1>5
<1>. QED
  BY <1>3, <1>6, <1>7, <1>8, <1>9, <1>10

\* Bundles of one list that are stored where there were none are disjoint.
LEMMA ReplacedDisjoint ==
  ASSUME IInv, lists = 0, NEW list \in SUBSET Contact, NEW bs \in SUBSET Bundles(list),
         rows' \in Replaced(bs)
  PROVE  Disjoint'
<1>1. rows' = {[idx |-> Idx(b), val |-> b, young |-> TRUE] : b \in bs}
  BY ReplacedRows DEF IInv
<1>2. \A b, e \in bs : b = e \/ b \cap e = {}
  BY BundlesPartition
<1>3. ASSUME NEW r \in rows', NEW q \in rows'
      PROVE  r = q \/ r.val \cap q.val = {}
  <2>1. PICK b \in bs : r = [idx |-> Idx(b), val |-> b, young |-> TRUE]
    BY <1>1
  <2>2. PICK e \in bs : q = [idx |-> Idx(e), val |-> e, young |-> TRUE]
    BY <1>1
  <2>. QED
    BY <1>2, <2>1, <2>2
<1>. QED
  BY <1>3 DEF Disjoint

\* The process is killed while it stores a list.
LEMMA KilledKeeps ==
  ASSUME IInv, NEW list \in SUBSET Contact, NEW n, Killed(list, n)
  PROVE  IInv'
<1>. USE DEF IInv
<1>. DEFINE bs == {b \in Bundles(list) : \A c \in b : Place(list, c) < n * Bundle}
<1>1. PICK stored \in Replaced(bs) :
         \E left \in SUBSET rows : rows' = stored \cup left
  <2>1. PICK stored \in Replaced(bs), nth \in Contact :
          rows' = stored \/ rows' = stored \cup SameIdx(rows, nth)
    BY DEF Killed
  <2>2. CASE rows' = stored
    <3>1. rows' = stored \cup {}
      BY <2>2
    <3>. QED
      BY <2>1, <3>1
  <2>3. CASE rows' = stored \cup SameIdx(rows, nth)
    BY <2>1, <2>3 DEF SameIdx
  <2>. QED
    BY <2>1, <2>2, <2>3
<1>10. bs \in SUBSET Bundles(list)
  OBVIOUS
<1>. HIDE DEF bs
<1>2. rank' = rank /\ latest' = {} /\ lists' = lists + 1 /\ lists \in Nat /\ Anew
  BY DEF Killed, TypeOK
<1>3. /\ rows' \subseteq Row(Contact, SUBSET Contact)
      /\ \A r \in rows' : r.val # {} /\ r.idx = Idx(r.val)
  <2>1. /\ stored \subseteq Row(Contact, SUBSET Contact)
        /\ \A r \in stored : r.val # {} /\ r.idx = Idx(r.val)
    BY <1>1, <1>10, ReplacedRows
  <2>. QED
    BY <1>1, <2>1 DEF TypeOK, UnderHead
<1>4. TypeOK'
  <2>1. TypeOK /\ latest' \subseteq Contact /\ lists' \in Nat
    BY <1>2
  <2>. QED
    BY <1>2, <1>3, <2>1, AnewType
<1>5. UnderHead' /\ KeptOffline'
  BY <1>2, <1>3 DEF UnderHead, KeptOffline, Idx
<1>6. lists' <= 1 => OneList'
  <2>. SUFFICES ASSUME lists' <= 1
                PROVE  OneList'
    OBVIOUS
  <2>1. lists = 0
    BY <1>2
  <2>2. rows' \in Replaced(bs)
    BY <1>1, <2>1
  <2>. QED
    BY <1>2, <1>3, <1>10, <2>1, <2>2, ReplacedDisjoint, AnewOneList
<1>7. lists' # 0
  BY <1>2
<1>. QED
  BY <1>4, <1>5, <1>6, <1>7

\* A list comes.
LEMMA AnswerKeeps ==
  ASSUME IInv, NEW list \in SUBSET Contact, Answer(list)
  PROVE  IInv'
<1>. USE DEF IInv
<1>. DEFINE first == {c \in list : Place(list, c) < Bundle}
            new == {[idx |-> Idx(b), val |-> b, young |-> TRUE] : b \in Bundles(list)}
            head == [idx |-> Idx(first), val |-> first, young |-> TRUE]
<1>1. /\ rank' = rank /\ latest' = list /\ lists' = lists + 1 /\ lists \in Nat
      /\ here' = TRUE /\ view' = "paging" /\ asked > 0 /\ asked' = asked - 1
      /\ list # {}
  BY DEF Answer, TypeOK
<1>2. cur' = Idx(first) /\ shown' = Shown(first) /\ rows' \in Replaced(Bundles(list))
  BY DEF Answer
<1>3. /\ new \subseteq rows'
      /\ rows = {} => rows' = new
      /\ rows' \subseteq Row(Contact, SUBSET Contact)
      /\ \A r \in rows' : r.val # {} /\ r.idx = Idx(r.val)
  BY <1>2, ReplacedRows
<1>4. first \in Bundles(list) /\ \A d \in list : rank[Idx(first)] <= rank[d]
  BY <1>1, FirstBundle DEF TypeOK
<1>5. /\ \A b \in Bundles(list) : b \in SUBSET Contact /\ b # {}
      /\ \A c \in list : \E b \in Bundles(list) : c \in b
      /\ \A b \in Bundles(list) : b \subseteq list
  <2>1. \A b \in Bundles(list) : b \subseteq list
    BY DEF Bundles
  <2>. QED
    BY <2>1, BundlesPartition
<1>6. \A b \in Bundles(list) : Idx(b) \in b
  BY <1>5, HeadIsLeast DEF TypeOK
<1>. HIDE DEF first
<1>7. TypeOK'
  <2>1. cur' \in Contact
    BY <1>2, <1>4, <1>5, <1>6
  <2>2. asked' \in 0 .. MaxAsked
    BY <1>1, ContactsAssumption DEF TypeOK
  <2>3. shown' \in [Contact -> 0 .. 2]
    <3>1. \A c \in Contact : shown[c] \in 0 .. 2
      BY DEF TypeOK
    <3>. QED
      BY <1>2, <3>1 DEF Shown
  <2>4. rows' \subseteq Row(Contact, SUBSET Contact)
    BY <1>3
  <2>5. rank' \in Orders /\ latest' \subseteq Contact /\ lists' \in Nat
    BY <1>1 DEF TypeOK
  <2>. QED
    BY <1>1, <2>1, <2>2, <2>3, <2>4, <2>5 DEF TypeOK
<1>8. UnderHead'
  BY <1>1, <1>3 DEF UnderHead, Idx
<1>9. KeptOffline'
  <2>. SUFFICES ASSUME NEW c \in list
                PROVE  \E r \in rows' : c \in r.val /\ r.idx \in r.val
    BY <1>1 DEF KeptOffline
  <2>1. PICK b \in Bundles(list) : c \in b
    BY <1>5
  <2>2. [idx |-> Idx(b), val |-> b, young |-> TRUE] \in rows'
    BY <1>3
  <2>. QED
    BY <1>6, <2>1, <2>2
<1>10. ASSUME lists' <= 1
       PROVE  OneList'
  <2>1. lists = 0 /\ rows = {} /\ rows' = new
    BY <1>1, <1>3, <1>10
  <2>2. Disjoint'
    BY <1>2, <2>1, ReplacedDisjoint
  <2>3. \A c \in Contact : shown[c] = 0
    BY <2>1 DEF OneList, ShownIsBelow
  <2>4. \A c \in Contact : shown'[c] = IF c \in first THEN 1 ELSE 0
    BY <1>2, <2>3 DEF Shown
  <2>5. head \in rows' /\ head.idx = cur' /\ head.val = first /\ cur' \in Contact
    BY <1>2, <1>4, <1>5, <1>6, <2>1
  <2>. HIDE DEF head
  <2>6. ShownIsBelow'
    <3>1. cur' <= cur'
      BY <2>5 DEF Contact
    <3>. QED
      BY <2>4, <2>5, <3>1 DEF ShownIsBelow
  <2>7. \A p \in rows' : rank[cur'] <= rank[p.idx]
    BY <1>2, <1>4, <1>5, <1>6, <2>1
  <2>8. BelowIsShown'
    <3>. SUFFICES ASSUME NEW r \in rows', r.idx <= cur', ~PassedOver(r)'
                  PROVE  \A c \in r.val : shown'[c] = 1
      BY DEF BelowIsShown
    <3>1. ~(r.idx < cur')
      BY <1>1, <2>5, <2>7 DEF PassedOver
    <3>2. r.idx = cur'
      <4>1. r.idx \in Nat /\ cur' \in Nat
        BY <1>3, <2>5, ContactsAssumption DEF Row, Contact
      <4>. QED
        BY <3>1, <4>1
    <3>3. r.idx \in r.val /\ r.idx \in head.val
      BY <1>2, <1>4, <1>6, <2>1, <2>5, <3>2
    <3>4. r = head
      BY <2>2, <2>5, <3>3 DEF Disjoint
    <3>. QED
      BY <1>4, <1>5, <2>4, <2>5, <3>4
  <2>9. NoneAbove' /\ NoneShownTwice'
    BY <1>1, <2>4 DEF NoneAbove, NoneShownTwice
  <2>. QED
    BY <2>2, <2>6, <2>8, <2>9 DEF OneList
<1>11. lists' # 0
  BY <1>1
<1>. QED
  BY <1>7, <1>8, <1>9, <1>10, <1>11

(***************************************************************************)
(* The theorems.                                                           *)
(***************************************************************************)
LEMMA StepIInv == IInv /\ [Next]_vars => IInv'
<1>. SUFFICES ASSUME IInv, [Next]_vars
              PROVE  IInv'
  OBVIOUS
<1>1. CASE Fetch
  BY <1>1, FetchKeeps
<1>2. CASE Ask
  <2>1. asked' \in 0 .. MaxAsked
    BY <1>2, ContactsAssumption DEF Ask, IInv, TypeOK
  <2>. QED
    BY <1>2, <2>1, AskedOnly DEF Ask
<1>3. ASSUME NEW list \in SUBSET Contact, Answer(list)
      PROVE  IInv'
  BY <1>3, AnswerKeeps
<1>4. CASE NoAnswer
  <2>1. asked' \in 0 .. MaxAsked
    BY <1>4, ContactsAssumption DEF NoAnswer, IInv, TypeOK
  <2>. QED
    BY <1>4, <2>1, AskedOnly DEF NoAnswer
<1>5. CASE Second
  BY <1>5, SecondKeeps
<1>6. CASE Restart
  BY <1>6, RestartKeeps
<1>7. ASSUME NEW list \in SUBSET Contact, NEW n, Killed(list, n)
      PROVE  IInv'
  BY <1>7, KilledKeeps
<1>8. CASE UNCHANGED vars
  <2>1. asked' \in 0 .. MaxAsked
    BY <1>8 DEF vars, IInv, TypeOK
  <2>. QED
    BY <1>8, <2>1, AskedOnly DEF vars
<1>. QED
  BY <1>1, <1>2, <1>3, <1>4, <1>5, <1>6, <1>7, <1>8 DEF Next

LEMMA Invariance == Spec => []IInv
<1>1. Init => IInv
  BY InitIInv
<1>2. IInv /\ [Next]_vars => IInv'
  BY StepIInv
<1>. QED
  BY <1>1, <1>2, PTL DEF Spec

\* Every variable keeps its type.
THEOREM TypeCorrect == Spec => []TypeOK
BY Invariance, PTL DEF IInv

\* What http_ct_done stored of the last list stays, over restarts, other lists and
\* rows of one second.
THEOREM Kept == Spec => []KeptOffline
BY Invariance, PTL DEF IInv

\* Paging reports no contact twice, be it in the process that downloaded them or not.
THEOREM ShownOnce == Spec => []NoneShownTwice
<1>1. IInv => NoneShownTwice
  BY DEF IInv, OneList, NoneShownTwice
<1>. QED
  BY <1>1, Invariance, PTL

\* Paging to the end reports every contact but those of bundles below the first.
THEOREM RestShown == Spec => []RestIsShown
<1>1. IInv => RestIsShown
  BY DEF IInv, OneList, NoneAbove, BelowIsShown, RestIsShown
<1>. QED
  BY <1>1, Invariance, PTL

\* The contacts are all there for who reads them offline, in a process that did not
\* download them: what is passed over is so only in the process that did.
THEOREM OfflineShowsAll == Spec => []AllShownUnlessPassed
<1>1. IInv => AllShownUnlessPassed
  <2>. SUFFICES ASSUME IInv, lists <= 1, view = "done",
                       ~here \/ \A r \in rows : ~PassedOver(r), NEW c \in latest
                PROVE  shown[c] = 1
    BY DEF AllShownUnlessPassed
  <2>1. PICK r \in rows : c \in r.val
    BY DEF IInv, KeptOffline
  <2>2. ~PassedOver(r)
    BY <2>1 DEF PassedOver
  <2>3. r.idx <= cur
    BY <2>1 DEF IInv, OneList, NoneAbove
  <2>. QED
    BY <2>1, <2>2, <2>3 DEF IInv, OneList, BelowIsShown
<1>. QED
  BY <1>1, Invariance, PTL
=============================================================================
