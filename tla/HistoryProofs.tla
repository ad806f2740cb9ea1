---------------------------- MODULE HistoryProofs ----------------------------
(***************************************************************************)
(* Proofs about History, for any number of calls and of kills, those in    *)
(* history_add included.  But for TypeCorrect they are of calls that end   *)
(* in the order of their ckeys and no two in one second (Orderly); TLC     *)
(* shows that each of the two is needed.                                   *)
(***************************************************************************)
EXTENDS History, WellFoundedInduction, TLAPS

Orderly == ~Overlap /\ ~SameSecond

(***************************************************************************)
(* The inductive invariant: the rows cut the calls that ended so far,      *)
(* which are a prefix, into intervals that start at their idx.  Kills may  *)
(* leave several rows of one idx; they hold the same filed calls and       *)
(* differ in torn ones only, so it does not matter which one is read.      *)
(***************************************************************************)
Ended == filed \cup torn

Prefix ==
  /\ \A c \in Ended, d \in Call : d <= c => d \in Ended
  /\ filed \cap torn = {}

\* the rows R cut the calls e; f are the filed ones of them
Cut(R, e, f) ==
  /\ \A r \in R : /\ r.idx \in r.val
                  /\ r.val \subseteq e
                  /\ \A c \in r.val : r.idx <= c
  /\ \A r, q \in R : r.idx < q.idx => \A c \in r.val : c < q.idx
  /\ \A r, q \in R : r.idx = q.idx => r.val \cap f \subseteq q.val

Pages == Cut(rows, Ended, filed)

\* the page in memory is that of a row of the newest idx
TopIsNewest ==
  topIdx # Null => \E r \in rows : /\ r.idx = topIdx /\ r.val = top
                                   /\ \A q \in rows : q.idx <= topIdx

\* the screen shows calls from iter on, the filed ones all, and each once
Screen ==
  view # "closed" =>
    /\ \A c \in Call : /\ shown[c] \in {0, 1}
                       /\ shown[c] = 1 => c \in Ended /\ iter <= c
                       /\ c \in filed /\ iter <= c => shown[c] = 1
    /\ iter # Null => \E r \in rows : r.idx = iter
    /\ view = "paging" => iter # Null
    /\ view = "done" => \A r \in rows : iter <= r.idx
    /\ view = "paging" => topIdx # Null

IInv == TypeOK /\ FiledIsKept /\ Prefix /\ Pages /\ TopIsNewest /\ Screen

(***************************************************************************)
(* The store.                                                              *)
(***************************************************************************)
\* If anything is before start, something is fetched.
LEMMA FetchedExists ==
  ASSUME rows \subseteq Row(Call, SUBSET Call), NEW start, Fetched(rows, start) = {}
  PROVE  \A r \in rows : ~(r.idx < start)
<1>. SUFFICES ASSUME NEW r0 \in rows, r0.idx < start
              PROVE  FALSE
  OBVIOUS
<1>. DEFINE below == {r \in rows : r.idx < start}
            S == {MaxCall - r.idx : r \in below}
            R == OpToRel(<, Nat)
<1>1. \A r \in rows : r.idx \in 1 .. MaxCall /\ MaxCall \in Nat
  BY HistoryAssumption DEF Row, Call
<1>2. S \subseteq Nat /\ S # {}
  <2>1. r0 \in below
    OBVIOUS
  <2>2. MaxCall - r0.idx \in S
    BY <2>1
  <2>3. \A r \in below : MaxCall - r.idx \in Nat
    BY <1>1
  <2>. QED
    BY <2>2, <2>3
<1>3. IsWellFoundedOn(R, Nat)
  BY NatLessThanWellFounded
<1>4. \A x, y \in Nat : <<y, x>> \in R <=> y < x
  BY DEF OpToRel
<1>. HIDE DEF R, S
<1>5. PICK x \in S : \A y \in S : ~(<<y, x>> \in R)
  BY <1>2, <1>3, WFMin
<1>6. PICK r \in below : x = MaxCall - r.idx
  BY <1>5 DEF S
<1>7. \A q \in below : q.idx <= r.idx
  <2>. TAKE q \in below
  <2>1. MaxCall - q.idx \in S /\ MaxCall - q.idx \in Nat /\ x \in Nat
    BY <1>2 DEF S
  <2>2. ~(MaxCall - q.idx < x)
    BY <1>4, <1>5, <2>1
  <2>3. q.idx \in 1 .. MaxCall /\ r.idx \in 1 .. MaxCall /\ MaxCall \in Nat
    BY <1>1, <1>6
  <2>. QED
    BY <1>6, <2>2, <2>3
<1>8. r \in Fetched(rows, start)
  BY <1>6, <1>7 DEF Fetched
<1>. QED
  BY <1>8

LEMMA FetchedIs ==
  ASSUME NEW start, NEW r \in Fetched(rows, start)
  PROVE  /\ r \in rows /\ r.idx < start
         /\ \A q \in rows : q.idx < start => q.idx <= r.idx
BY DEF Fetched

\* The tail of a page sorted by time is the call whose ckey is its idx.
LEMMA OldestIsIdx ==
  ASSUME TypeOK, Pages, NEW r \in rows
  PROVE  Oldest(r.val) = r.idx /\ r.idx \in Call /\ r.idx # Null
<1>1. r.idx \in Call /\ r.val \subseteq Call
  BY DEF TypeOK, Row
<1>2. r.idx \in r.val /\ \A c \in r.val : r.idx <= c
  BY DEF Pages, Cut
<1>3. \A x \in r.val : (\A y \in r.val : x <= y) => x = r.idx
  BY <1>1, <1>2 DEF Call
<1>4. Oldest(r.val) = r.idx
  BY <1>2, <1>3 DEF Oldest, Min
<1>. QED
  BY <1>1, <1>4 DEF Call, Null

\* What a row holds of the calls filed so far: those between its idx and the
\* next one's.
LEMMA RowHolds ==
  ASSUME TypeOK, FiledIsKept, Pages, NEW r \in rows, NEW limit \in Int,
         NEW c \in filed, r.idx <= c, c < limit,
         \A q \in rows : q.idx < limit => q.idx <= r.idx
  PROVE  c \in r.val
<1>1. PICK q \in rows : c \in q.val
  BY DEF FiledIsKept
<1>2. c \in Call /\ q.idx \in Call /\ r.idx \in Call
  BY DEF TypeOK, Row
<1>3. q.idx <= c
  BY <1>1 DEF Pages, Cut
<1>4. q.idx <= r.idx
  BY <1>2, <1>3 DEF Call
<1>5. ~(q.idx < r.idx)
  BY <1>1, <1>2 DEF Pages, Cut, Call
<1>6. q.idx = r.idx
  BY <1>2, <1>4, <1>5 DEF Call
<1>. QED
  BY <1>1, <1>6 DEF Pages, Cut

(***************************************************************************)
(* A call is filed, or cut off while it is.                                *)
(***************************************************************************)
\* the row history_add inserts
NewPage(c) == [idx |-> AddTo(c)[2], val |-> AddTo(c)[1], young |-> TRUE]

\* A call that ends is newer than those before.
LEMMA EndsNewest ==
  ASSUME Orderly, IInv, NEW c \in Call, Ends(c)
  PROVE  c \notin Ended /\ \A d \in Ended : d < c
BY DEF Orderly, Ends, IInv, TypeOK, Prefix, Ended, Call

\* What the inserted row holds: the call, and what the rows of its idx hold of the
\* filed ones.
LEMMA NewPageIs ==
  ASSUME Orderly, IInv, NEW c \in Call, Ends(c)
  PROVE  /\ NewPage(c) \in Row(Call, SUBSET Call)
         /\ NewPage(c).idx = AddTo(c)[2] /\ NewPage(c).val = AddTo(c)[1]
         /\ NewPage(c).idx \in NewPage(c).val /\ c \in NewPage(c).val
         /\ NewPage(c).val \subseteq Ended \cup {c}
         /\ \A d \in NewPage(c).val : NewPage(c).idx <= d
         /\ \A q \in rows : q.idx <= NewPage(c).idx
         /\ \A q \in rows : q.idx < NewPage(c).idx => \A d \in q.val : d < NewPage(c).idx
         /\ \A q \in rows : q.idx = NewPage(c).idx =>
              /\ q.val \cap filed \subseteq NewPage(c).val
              /\ NewPage(c).val \cap filed \subseteq q.val
         /\ NewPage(c).idx = c \/ \E q \in rows : q.idx = NewPage(c).idx
<1>. DEFINE new == NewPage(c)
<1>1. c \notin Ended /\ \A d \in Ended : d < c
  BY EndsNewest
<1>2. new.idx = AddTo(c)[2] /\ new.val = AddTo(c)[1] /\ new.young = TRUE
  BY DEF NewPage
<1>3. \A q \in rows : q.idx \in Call /\ q.idx < c
  BY <1>1 DEF IInv, Pages, Cut, TypeOK, Row
<1>4. CASE topIdx = Null
  <2>1. new.idx = c /\ new.val = {c}
    BY <1>2, <1>4 DEF AddTo
  <2>2. new \in Row(Call, SUBSET Call)
    BY <2>1 DEF NewPage, Row
  <2>3. \A q \in rows : q.val \subseteq Ended /\ q.idx <= c /\ q.idx # c
    BY <1>3 DEF IInv, Pages, Cut, Call
  <2>. QED
    BY <1>1, <1>2, <2>1, <2>2, <2>3 DEF Call
<1>5. CASE topIdx # Null
  <2>1. PICK old \in rows : /\ old.idx = topIdx /\ old.val = top
                            /\ \A q \in rows : q.idx <= topIdx
    BY <1>5 DEF IInv, TopIsNewest
  <2>2. new.idx = old.idx /\ new.val = old.val \cup {c}
    BY <1>2, <1>5, <2>1 DEF AddTo
  <2>3. /\ old.idx \in Call /\ old.val \subseteq Call
        /\ old.idx \in old.val /\ old.val \subseteq Ended
        /\ \A d \in old.val : old.idx <= d
    BY DEF IInv, TypeOK, Row, Pages, Cut
  <2>4. new \in Row(Call, SUBSET Call)
    <3>1. AddTo(c)[2] \in Call /\ AddTo(c)[1] \in SUBSET Call
      BY <1>2, <2>2, <2>3
    <3>. QED
      BY <3>1 DEF NewPage, Row
  <2>5. \A d \in new.val : new.idx <= d
    BY <1>3, <2>2, <2>3 DEF Call
  <2>6. \A q \in rows : q.idx < new.idx => \A d \in q.val : d < new.idx
    BY <2>2 DEF IInv, Pages, Cut
  <2>7. \A q \in rows : q.idx = new.idx =>
          /\ q.val \cap filed \subseteq new.val
          /\ new.val \cap filed \subseteq q.val
    BY <1>1, <2>2 DEF IInv, Pages, Cut, Ended
  <2>. QED
    BY <1>2, <2>1, <2>2, <2>3, <2>4, <2>5, <2>6, <2>7
<1>. QED
  BY <1>4, <1>5

\* The inserted row keeps the cut into intervals, beside the rows of its idx as well
\* as in their place.
LEMMA NewPageFits ==
  ASSUME Orderly, IInv, NEW c \in Call, Ends(c),
         NEW R \in SUBSET rows, NEW f \in SUBSET (filed \cup {c}),
         c \in f => \A r \in R : r.idx # NewPage(c).idx
  PROVE  Cut(R \cup {NewPage(c)}, Ended \cup {c}, f)
<1>. DEFINE new == NewPage(c)
<1>1. /\ new.idx \in new.val /\ new.val \subseteq Ended \cup {c}
      /\ \A d \in new.val : new.idx <= d
      /\ \A q \in rows : q.idx <= new.idx
      /\ \A q \in rows : q.idx < new.idx => \A d \in q.val : d < new.idx
      /\ \A q \in rows : q.idx = new.idx =>
              /\ q.val \cap filed \subseteq new.val
              /\ new.val \cap filed \subseteq q.val
      /\ new.idx \in Call /\ \A r \in rows : r.idx \in Call
  BY NewPageIs DEF IInv, TypeOK, Row
<1>. HIDE DEF new
<1>2. \A r \in R \cup {new} : /\ r.idx \in r.val
                              /\ r.val \subseteq Ended \cup {c}
                              /\ \A d \in r.val : r.idx <= d
  BY <1>1 DEF IInv, Pages, Cut
<1>3. \A r, q \in R \cup {new} : r.idx < q.idx => \A d \in r.val : d < q.idx
  <2>. TAKE r, q \in R \cup {new}
  <2>. HAVE r.idx < q.idx
  <2>1. CASE r \in rows /\ q \in rows
    BY <2>1 DEF IInv, Pages, Cut
  <2>2. CASE r \in rows /\ q = new
    BY <1>1, <2>2
  <2>3. CASE r = new
    BY <1>1, <2>3 DEF Call
  <2>. QED
    BY <2>1, <2>2, <2>3
<1>4. \A r, q \in R \cup {new} : r.idx = q.idx => r.val \cap f \subseteq q.val
  <2>. TAKE r, q \in R \cup {new}
  <2>. HAVE r.idx = q.idx
  <2>1. \A p \in rows : p.val \cap f \subseteq filed
    BY EndsNewest DEF IInv, Pages, Cut
  <2>2. CASE r \in R /\ q \in R
    BY <2>1, <2>2 DEF IInv, Pages, Cut
  <2>3. CASE r = new /\ q = new
    BY <2>3
  <2>4. CASE r \in R /\ q = new
    BY <1>1, <2>1, <2>4
  <2>5. CASE r = new /\ q \in R
    <3>1. c \notin f
      BY <2>5 DEF new
    <3>. QED
      BY <1>1, <2>5, <3>1
  <2>. QED
    BY <2>2, <2>3, <2>4, <2>5
<1>. QED
  BY <1>2, <1>3, <1>4 DEF Cut, new

\* the calls that ended stay a prefix
LEMMA EndedGrows ==
  ASSUME Orderly, IInv, NEW c \in Call, Ends(c), Ended' = Ended \cup {c},
         \/ filed' = filed \cup {c} /\ torn' = torn
         \/ torn' = torn \cup {c} /\ filed' = filed
  PROVE  Prefix'
<1>1. \A d \in Call : d < c => d \in Ended
  BY DEF Orderly, Ends, Ended
<1>2. c \notin filed /\ c \notin torn
  BY DEF Ends
<1>3. \A x \in Ended', d \in Call : d <= x => d \in Ended'
  BY <1>1 DEF IInv, Prefix, Call
<1>4. filed' \cap torn' = {}
  BY <1>2 DEF IInv, Prefix
<1>. QED
  BY <1>3, <1>4 DEF Prefix

LEMMA AddInv ==
  ASSUME Orderly, IInv, NEW c \in Call, Add(c)
  PROVE  IInv'
<1>. DEFINE new == NewPage(c)
            R == rows \ SameIdx(rows, new.idx)
<1>1. Ends(c)
  BY DEF Add
<1>2. /\ filed' = filed \cup {c} /\ torn' = torn /\ iter' = iter /\ view' = view
      /\ topIdx' = new.idx /\ top' = new.val
      /\ shown' = [shown EXCEPT ![c] = @ + 1]
  BY DEF Add, NewPage
<1>3. rows' = R \cup {new}
  <2>1. rows' \in Stored(rows, AddTo(c)[2], AddTo(c)[1])
    BY DEF Add
  <2>2. \A r \in rows : ~r.young
    BY <1>1 DEF Orderly, Ends
  <2>. QED
    BY <2>1, <2>2 DEF Stored, Inserted, SameIdx, NewPage
<1>4. /\ new \in Row(Call, SUBSET Call) /\ new.idx \in Call /\ new.val \subseteq Call
      /\ c \in new.val /\ \A q \in rows : q.idx <= new.idx
      /\ \A q \in rows : q.idx = new.idx => q.val \cap filed \subseteq new.val
      /\ new.idx = c \/ \E q \in rows : q.idx = new.idx
  BY <1>1, NewPageIs DEF Row
<1>5. c \notin Ended /\ \A d \in Ended : d < c
  BY <1>1, EndsNewest
<1>6. Ended' = Ended \cup {c}
  BY <1>2 DEF Ended
<1>7. R \in SUBSET rows /\ \A r \in R : r.idx # new.idx
  BY DEF SameIdx
<1>8. Cut(R \cup {new}, Ended \cup {c}, filed \cup {c})
  BY <1>1, <1>7, NewPageFits
<1>9. \A r \in rows : r \in R \/ r.idx = new.idx
  BY DEF SameIdx
<1>. HIDE DEF new, R
<1>10. Pages'
  BY <1>2, <1>3, <1>6, <1>8 DEF Pages
<1>11. Prefix'
  BY <1>1, <1>2, <1>6, EndedGrows
<1>12. FiledIsKept'
  <2>. SUFFICES ASSUME NEW d \in filed'
                PROVE  \E r \in rows' : d \in r.val
    BY DEF FiledIsKept
  <2>1. CASE d = c
    BY <1>3, <1>4, <2>1
  <2>2. CASE d \in filed
    <3>1. PICK r \in rows : d \in r.val
      BY <2>2 DEF IInv, FiledIsKept
    <3>2. CASE r \in R
      BY <1>3, <3>1, <3>2
    <3>3. CASE r.idx = new.idx
      BY <1>3, <1>4, <2>2, <3>1, <3>3
    <3>. QED
      BY <1>9, <3>2, <3>3
  <2>. QED
    BY <1>2, <2>1, <2>2
<1>13. TopIsNewest'
  <2>1. \A q \in rows' : q.idx <= new.idx
    BY <1>3, <1>4, <1>7 DEF Call
  <2>. QED
    BY <1>2, <1>3, <2>1 DEF TopIsNewest
<1>14. TypeOK'
  <2>1. rows' \subseteq Row(Call, SUBSET Call)
    BY <1>3, <1>4, <1>7 DEF IInv, TypeOK
  <2>2. shown' \in [Call -> Nat]
    BY <1>2 DEF IInv, TypeOK
  <2>. QED
    BY <1>2, <1>4, <2>1, <2>2 DEF IInv, TypeOK
<1>15. Screen'
  <2>. SUFFICES ASSUME view # "closed"
                PROVE  Screen'
    BY <1>2 DEF Screen
  <2>1. iter <= c
    <3>1. iter # Null => iter \in Ended
      BY DEF IInv, Screen, Pages, Cut
    <3>. QED
      BY <1>5, <3>1 DEF IInv, TypeOK, Call, Null
  <2>2. shown[c] = 0
    BY <1>5 DEF IInv, Screen
  <2>3. \A d \in Call : /\ shown'[d] \in {0, 1}
                        /\ shown'[d] = 1 => d \in Ended' /\ iter <= d
                        /\ d \in filed' /\ iter <= d => shown'[d] = 1
    <3>. TAKE d \in Call
    <3>1. CASE d = c
      <4>1. shown'[d] = 1
        BY <1>2, <2>2, <3>1 DEF IInv, TypeOK
      <4>. QED
        BY <1>6, <2>1, <3>1, <4>1
    <3>2. CASE d # c
      <4>1. shown'[d] = shown[d]
        BY <1>2, <3>2 DEF IInv, TypeOK
      <4>. QED
        BY <1>2, <1>6, <3>2, <4>1 DEF IInv, Screen
    <3>. QED
      BY <3>1, <3>2
  <2>4. iter # Null => \E r \in rows' : r.idx = iter
    BY <1>3, <1>9 DEF IInv, Screen
  <2>5. view = "done" => \A r \in rows' : iter <= r.idx
    BY <1>3, <1>4, <1>7, <2>1 DEF IInv, Screen
  <2>6. topIdx' # Null
    BY <1>2, <1>4 DEF Call, Null
  <2>. QED
    BY <1>2, <2>3, <2>4, <2>5, <2>6 DEF IInv, Screen
<1>. QED
  BY <1>10, <1>11, <1>12, <1>13, <1>14, <1>15 DEF IInv

LEMMA KilledInAddInv ==
  ASSUME Orderly, IInv, NEW c \in Call, KilledInAdd(c)
  PROVE  IInv'
<1>. DEFINE new == NewPage(c)
<1>1. Ends(c) /\ torn' = torn \cup {c} /\ filed' = filed /\ Fresh
  BY DEF KilledInAdd
<1>2. Ended' = Ended \cup {c}
  BY <1>1 DEF Ended
<1>3. rows' = rows \/ rows' = rows \cup {new}
  BY DEF KilledInAdd, Inserted, NewPage
<1>4. new \in Row(Call, SUBSET Call)
  BY <1>1, NewPageIs
<1>5. Cut(rows \cup {new}, Ended \cup {c}, filed)
  <2>1. c \notin filed
    BY <1>1 DEF Ends
  <2>. QED
    BY <1>1, <2>1, NewPageFits
<1>. HIDE DEF new
<1>6. Pages'
  <2>1. Cut(rows, Ended \cup {c}, filed)
    BY DEF IInv, Pages, Cut
  <2>. QED
    BY <1>1, <1>2, <1>3, <1>5, <2>1 DEF Pages
<1>7. Prefix'
  BY <1>1, <1>2, EndedGrows
<1>8. FiledIsKept'
  BY <1>1, <1>3 DEF IInv, FiledIsKept
<1>9. TypeOK'
  BY <1>1, <1>3, <1>4 DEF Fresh, IInv, TypeOK
<1>10. TopIsNewest' /\ Screen'
  BY <1>1 DEF Fresh, TopIsNewest, Screen
<1>. QED
  BY <1>6, <1>7, <1>8, <1>9, <1>10 DEF IInv

(***************************************************************************)
(* A page is fetched.                                                      *)
(***************************************************************************)
\* the parts of the invariant a fetch leaves alone
LEMMA RowsStay ==
  ASSUME IInv, UNCHANGED <<rows, filed, torn>>
  PROVE  FiledIsKept' /\ Prefix' /\ Pages'
BY DEF IInv, FiledIsKept, Ended, Prefix, Pages, Cut

LEMMA OpenInv ==
  ASSUME IInv, Open
  PROVE  IInv'
<1>. DEFINE none == [c \in Call |-> 0]
            newest == Fetched(rows, Before(Null))
<1>1. /\ Fetch(Null, Null, none) /\ rows' = rows /\ filed' = filed /\ torn' = torn
      /\ Ended' = Ended
  BY DEF Open, Ended
<1>2. \A r \in rows : r.idx \in Call /\ r.idx < Before(Null)
  BY HistoryAssumption DEF IInv, TypeOK, Row, Call, Before
<1>3. CASE newest = {}
  <2>1. rows = {}
    BY <1>2, <1>3, FetchedExists DEF IInv, TypeOK
  <2>2. filed = {}
    BY <2>1 DEF IInv, FiledIsKept
  <2>3. view' = "done" /\ iter' = Null /\ topIdx' = Null /\ top' = {} /\ shown' = none
    BY <1>1, <1>3 DEF Fetch
  <2>4. TypeOK'
    BY <1>1, <2>3 DEF IInv, TypeOK
  <2>5. TopIsNewest' /\ Screen'
    BY <1>1, <2>1, <2>2, <2>3 DEF TopIsNewest, Screen
  <2>. QED
    BY <1>1, <2>4, <2>5, RowsStay DEF IInv
<1>4. CASE newest # {}
  <2>. HIDE DEF none
  <2>1. PICK r \in newest :
          /\ view' = "paging"
          /\ iter' = Oldest(r.val)
          /\ topIdx' = Oldest(r.val)
          /\ top' = r.val
          /\ shown' = [c \in Call |-> none[c] + IF c \in r.val THEN 1 ELSE 0]
    BY <1>1, <1>4 DEF Fetch
  <2>2. r \in rows /\ \A q \in rows : q.idx <= r.idx
    BY <1>2, FetchedIs
  <2>3. iter' = r.idx /\ topIdx' = r.idx /\ r.idx \in Call /\ r.idx # Null
    BY <2>1, <2>2, OldestIsIdx DEF IInv
  <2>4. \A c \in Call : shown'[c] = IF c \in r.val THEN 1 ELSE 0
    BY <2>1 DEF none
  <2>5. /\ \A c \in r.val : c \in Ended /\ r.idx <= c
        /\ \A c \in filed : r.idx <= c => c \in r.val
    <3>1. ASSUME NEW c \in filed, r.idx <= c
          PROVE  c \in r.val
      <4>1. c + 1 \in Int /\ c < c + 1
        BY DEF IInv, TypeOK, Call
      <4>. QED
        BY <2>2, <3>1, <4>1, RowHolds DEF IInv
    <3>. QED
      BY <2>2, <3>1 DEF IInv, Pages, Cut
  <2>6. TypeOK'
    <3>1. shown' \in [Call -> Nat]
      BY <2>1 DEF none
    <3>. QED
      BY <1>1, <2>1, <2>2, <2>3, <3>1 DEF IInv, TypeOK, Row
  <2>7. TopIsNewest'
    BY <1>1, <2>1, <2>2, <2>3 DEF TopIsNewest
  <2>8. Screen'
    BY <1>1, <2>1, <2>2, <2>3, <2>4, <2>5 DEF Screen
  <2>. QED
    BY <1>1, <2>6, <2>7, <2>8, RowsStay DEF IInv
<1>. QED
  BY <1>3, <1>4

LEMMA MoreInv ==
  ASSUME IInv, More
  PROVE  IInv'
<1>1. /\ Fetch(iter, topIdx, shown) /\ rows' = rows /\ filed' = filed /\ torn' = torn
      /\ Ended' = Ended /\ view = "paging"
  BY DEF More, Ended
<1>2. iter # Null /\ iter \in Call /\ Before(iter) = iter
  BY <1>1 DEF IInv, Screen, TypeOK, Before
<1>3. PICK p \in rows : p.idx = iter
  BY <1>1, <1>2 DEF IInv, Screen
<1>4. topIdx # Null => topIdx' = topIdx /\ top' = top
  BY <1>1 DEF Fetch
<1>5. CASE Fetched(rows, iter) = {}
  <2>1. \A r \in rows : iter <= r.idx
    BY <1>2, <1>5, FetchedExists DEF IInv, TypeOK, Row, Call
  <2>2. /\ view' = "done" /\ iter' = iter /\ topIdx' = topIdx /\ shown' = shown
        /\ top' = IF topIdx = Null THEN {} ELSE top
    BY <1>1, <1>2, <1>5 DEF Fetch
  <2>3. TypeOK' /\ TopIsNewest'
    BY <1>1, <2>2 DEF IInv, TypeOK, TopIsNewest
  <2>4. Screen'
    BY <1>1, <1>2, <1>3, <2>1, <2>2 DEF IInv, Screen
  <2>. QED
    BY <1>1, <2>3, <2>4, RowsStay DEF IInv
<1>6. CASE Fetched(rows, iter) # {}
  <2>1. PICK r \in Fetched(rows, iter) :
          /\ view' = "paging"
          /\ iter' = Oldest(r.val)
          /\ topIdx' = IF topIdx = Null THEN Oldest(r.val) ELSE topIdx
          /\ top' = IF topIdx = Null THEN r.val ELSE top
          /\ shown' = [c \in Call |-> shown[c] + IF c \in r.val THEN 1 ELSE 0]
    BY <1>1, <1>2, <1>6 DEF Fetch
  <2>2. /\ r \in rows /\ r.idx < iter
        /\ \A q \in rows : q.idx < iter => q.idx <= r.idx
    BY FetchedIs
  <2>3. iter' = r.idx /\ r.idx \in Call /\ r.idx # Null /\ r.val \subseteq Call
    BY <2>1, <2>2, OldestIsIdx DEF IInv, TypeOK, Row
  <2>4. \A c \in r.val : c < iter /\ r.idx <= c /\ c \in Ended
    BY <1>3, <2>2 DEF IInv, Pages, Cut
  <2>5. \A c \in filed : r.idx <= c /\ c < iter => c \in r.val
    BY <1>2, <2>2, RowHolds DEF IInv, Call
  <2>6. \A c \in Call : /\ shown'[c] \in {0, 1}
                        /\ shown'[c] = 1 => c \in Ended' /\ iter' <= c
                        /\ c \in filed' /\ iter' <= c => shown'[c] = 1
    <3>. TAKE c \in Call
    <3>1. /\ shown[c] \in {0, 1}
          /\ shown[c] = 1 => c \in Ended /\ iter <= c
          /\ c \in filed /\ iter <= c => shown[c] = 1
      BY <1>1 DEF IInv, Screen
    <3>2. shown'[c] = shown[c] + IF c \in r.val THEN 1 ELSE 0
      BY <2>1
    <3>3. CASE c \in r.val
      <4>1. c < iter /\ r.idx <= c /\ c \in Ended
        BY <2>4, <3>3
      <4>2. shown[c] = 0
        BY <1>2, <3>1, <4>1 DEF Call
      <4>. QED
        BY <1>1, <2>3, <3>2, <3>3, <4>1, <4>2
    <3>4. CASE c \notin r.val
      <4>1. shown'[c] = shown[c]
        BY <3>1, <3>2, <3>4
      <4>2. iter <= c => r.idx <= c
        BY <1>2, <2>2, <2>3 DEF Call
      <4>3. c \in filed /\ r.idx <= c => iter <= c
        BY <1>2, <2>5, <3>4 DEF Call
      <4>. QED
        BY <1>1, <2>3, <3>1, <4>1, <4>2, <4>3
    <3>. QED
      BY <3>3, <3>4
  <2>7. TypeOK'
    <3>1. shown' \in [Call -> Nat]
      BY <2>1 DEF IInv, TypeOK
    <3>2. topIdx' \in Call \cup {Null} /\ top' \subseteq Call
      BY <2>1, <2>3 DEF IInv, TypeOK
    <3>. QED
      BY <1>1, <2>1, <2>3, <3>1, <3>2 DEF IInv, TypeOK
  <2>8. topIdx # Null
    \* a page was fetched before, so there is a top page
    BY <1>1 DEF IInv, Screen
  <2>9. TopIsNewest'
    BY <1>1, <1>4, <2>8 DEF IInv, TopIsNewest
  <2>10. Screen'
    BY <1>1, <2>1, <2>2, <2>3, <2>6 DEF Screen
  <2>. QED
    BY <1>1, <2>7, <2>9, <2>10, RowsStay DEF IInv
<1>. QED
  BY <1>5, <1>6

(***************************************************************************)
(* The clock and restarts.                                                 *)
(***************************************************************************)
LEMMA SecondInv ==
  ASSUME IInv, Second
  PROVE  IInv'
<1>1. rows' = Aged(rows)
  BY DEF Second
<1>2. \A r \in rows' : \E q \in rows : r = [q EXCEPT !.young = FALSE]
  BY <1>1 DEF Aged
<1>3. \A q \in rows : [q EXCEPT !.young = FALSE] \in rows'
  BY <1>1 DEF Aged
<1>4. \A q \in rows : LET a == [q EXCEPT !.young = FALSE] IN
        a.idx = q.idx /\ a.val = q.val /\ a \in Row(Call, SUBSET Call)
  BY DEF IInv, TypeOK, Row
<1>5. /\ \A r \in rows' : \E q \in rows : r.idx = q.idx /\ r.val = q.val
      /\ \A q \in rows : \E r \in rows' : r.idx = q.idx /\ r.val = q.val
  BY <1>2, <1>3, <1>4
<1>6. filed' = filed /\ torn' = torn /\ Ended' = Ended /\ top' = top /\ topIdx' = topIdx /\ iter' = iter
      /\ shown' = shown /\ view' = view
  BY DEF Second, Ended
<1>7. TypeOK'
  <2>1. rows' \subseteq Row(Call, SUBSET Call)
    BY <1>2, <1>4
  <2>. QED
    BY <1>6, <2>1 DEF IInv, TypeOK
<1>8. FiledIsKept' /\ Prefix'
  BY <1>5, <1>6 DEF IInv, FiledIsKept, Prefix
<1>9. Pages'
  <2>1. \A r \in rows' : /\ r.idx \in r.val
                         /\ r.val \subseteq Ended'
                         /\ \A c \in r.val : r.idx <= c
    BY <1>5, <1>6 DEF IInv, Pages, Cut
  <2>2. \A r, q \in rows' : r.idx < q.idx => \A c \in r.val : c < q.idx
    BY <1>5 DEF IInv, Pages, Cut
  <2>3. \A r, q \in rows' : r.idx = q.idx => r.val \cap filed' \subseteq q.val
    BY <1>5, <1>6 DEF IInv, Pages, Cut
  <2>. QED
    BY <2>1, <2>2, <2>3 DEF Pages, Cut
<1>10. TopIsNewest'
  BY <1>5, <1>6 DEF IInv, TopIsNewest
<1>11. Screen'
  BY <1>5, <1>6 DEF IInv, Screen
<1>. QED
  BY <1>7, <1>8, <1>9, <1>10, <1>11 DEF IInv

LEMMA RestartInv ==
  ASSUME IInv, Restart
  PROVE  IInv'
<1>1. TypeOK' /\ TopIsNewest' /\ Screen'
  BY DEF Restart, Fresh, IInv, TypeOK, TopIsNewest, Screen
<1>. QED
  BY <1>1, RowsStay DEF Restart, IInv

LEMMA InitInv ==
  ASSUME Init
  PROVE  IInv
BY DEF Init, IInv, TypeOK, FiledIsKept, Ended, Prefix, Pages, Cut, TopIsNewest, Screen

\* IInv holds in every reachable state of every orderly instance.
THEOREM Invariant ==
  ASSUME Orderly
  PROVE  Spec => []IInv
<1>1. Init => IInv
  BY InitInv
<1>2. IInv /\ [Next]_vars => IInv'
  <2>1. ASSUME IInv, UNCHANGED vars
        PROVE  IInv'
    BY <2>1 DEF vars, IInv, TypeOK, FiledIsKept, Ended, Prefix, Pages, Cut, TopIsNewest,
                Screen
  <2>2. ASSUME IInv, Next
        PROVE  IInv'
    BY <2>2, AddInv, KilledInAddInv, OpenInv, MoreInv, SecondInv, RestartInv DEF Next
  <2>. QED
    BY <2>1, <2>2
<1>. QED
  BY <1>1, <1>2, PTL DEF Spec

(***************************************************************************)
(* Types, in whatever order calls end and however many in one second.      *)
(***************************************************************************)
\* a page has a call
HasCall == \A r \in rows : r.val # {}

\* The tail of a page is one of its calls.
LEMMA OldestIn ==
  ASSUME NEW S \in SUBSET Call, S # {}
  PROVE  Oldest(S) \in S
<1>. DEFINE R == OpToRel(<, Nat)
<1>1. S \subseteq Nat
  BY DEF Call
<1>2. IsWellFoundedOn(R, Nat)
  BY NatLessThanWellFounded
<1>3. \A x, y \in Nat : <<y, x>> \in R <=> y < x
  BY DEF OpToRel
<1>. HIDE DEF R
<1>4. PICK x \in S : \A y \in S : ~(<<y, x>> \in R)
  BY <1>1, <1>2, WFMin
<1>5. \A y \in S : x <= y
  <2>. TAKE y \in S
  <2>1. x \in Nat /\ y \in Nat /\ ~(<<y, x>> \in R)
    BY <1>1, <1>4
  <2>2. ~(y < x)
    BY <1>3, <2>1
  <2>. QED
    BY <2>1, <2>2
<1>6. \A z \in S : (\A y \in S : z <= y) => z = x
  BY <1>1, <1>4, <1>5
<1>7. Oldest(S) = x
  BY <1>4, <1>5, <1>6 DEF Oldest, Min
<1>. QED
  BY <1>4, <1>7

\* A fetch keeps the types.
LEMMA FetchTypes ==
  ASSUME TypeOK, HasCall, NEW start \in Call \cup {Null}, NEW idx \in Call \cup {Null},
         NEW old \in [Call -> Nat], Fetch(start, idx, old), UNCHANGED <<rows, filed, torn>>
  PROVE  TypeOK' /\ HasCall'
<1>1. CASE Fetched(rows, Before(start)) = {}
  BY <1>1 DEF Fetch, TypeOK, HasCall
<1>2. CASE Fetched(rows, Before(start)) # {}
  <2>1. PICK r \in Fetched(rows, Before(start)) :
          /\ view' = "paging"
          /\ iter' = Oldest(r.val)
          /\ topIdx' = IF idx = Null THEN Oldest(r.val) ELSE idx
          /\ top' = IF idx = Null THEN r.val ELSE top
          /\ shown' = [c \in Call |-> old[c] + IF c \in r.val THEN 1 ELSE 0]
    BY <1>2 DEF Fetch
  <2>2. r \in rows /\ r.val \in SUBSET Call
    BY FetchedIs DEF TypeOK, Row
  <2>3. Oldest(r.val) \in Call
    BY <2>2, OldestIn DEF HasCall
  <2>4. shown' \in [Call -> Nat]
    BY <2>1
  <2>. QED
    BY <2>1, <2>2, <2>3, <2>4 DEF TypeOK, HasCall
<1>. QED
  BY <1>1, <1>2

\* The row that is inserted has a call, and the types of its fields.
LEMMA AddToTypes ==
  ASSUME TypeOK, NEW c \in Call
  PROVE  /\ NewPage(c) \in Row(Call, SUBSET Call) /\ NewPage(c).val # {}
         /\ AddTo(c)[1] \in SUBSET Call /\ AddTo(c)[2] \in Call
<1>1. AddTo(c)[1] \in SUBSET Call /\ AddTo(c)[2] \in Call /\ c \in AddTo(c)[1]
  BY DEF AddTo, TypeOK
<1>. QED
  BY <1>1 DEF NewPage, Row

LEMMA StepTypes ==
  ASSUME TypeOK, HasCall, [Next]_vars
  PROVE  TypeOK' /\ HasCall'
<1>1. ASSUME NEW c \in Call, Add(c)
      PROVE  TypeOK' /\ HasCall'
  <2>1. rows' \subseteq rows \cup {NewPage(c)}
    BY <1>1 DEF Add, Stored, Inserted, NewPage
  <2>2. shown' \in [Call -> Nat]
    BY <1>1 DEF Add, TypeOK
  <2>. QED
    BY <1>1, <2>1, <2>2, AddToTypes DEF Add, TypeOK, HasCall
<1>2. ASSUME NEW c \in Call, KilledInAdd(c)
      PROVE  TypeOK' /\ HasCall'
  <2>1. rows' \subseteq rows \cup {NewPage(c)}
    BY <1>2 DEF KilledInAdd, Inserted, NewPage
  <2>. QED
    BY <1>2, <2>1, AddToTypes DEF KilledInAdd, Fresh, TypeOK, HasCall
<1>3. CASE Open
  BY <1>3, FetchTypes DEF Open
<1>4. CASE More
  <2>1. iter \in Call \cup {Null} /\ topIdx \in Call \cup {Null} /\ shown \in [Call -> Nat]
    BY DEF TypeOK
  <2>. QED
    BY <1>4, <2>1, FetchTypes DEF More
<1>5. CASE Second
  BY <1>5 DEF Second, Aged, TypeOK, HasCall, Row
<1>6. CASE Restart
  BY <1>6 DEF Restart, Fresh, TypeOK, HasCall
<1>7. CASE UNCHANGED vars
  BY <1>7 DEF vars, TypeOK, HasCall
<1>. QED
  BY <1>1, <1>2, <1>3, <1>4, <1>5, <1>6, <1>7 DEF Next

\* Every variable keeps its type, in every instance: calls may end in any order and
\* several within a second.
THEOREM TypeCorrect == Spec => []TypeOK
<1>1. Init => TypeOK /\ HasCall
  BY DEF Init, TypeOK, HasCall
<1>2. TypeOK /\ HasCall /\ [Next]_vars => TypeOK' /\ HasCall'
  BY StepTypes
<1>. QED
  BY <1>1, <1>2, PTL DEF Spec

(***************************************************************************)
(* What a user of the list sees.                                           *)
(***************************************************************************)
\* No call whose history_add came to its end is ever out of the database, whatever
\* other call's a kill cuts off.
THEOREM Kept ==
  ASSUME Orderly
  PROVE  Spec => []FiledIsKept
<1>1. IInv => FiledIsKept
  BY DEF IInv
<1>. QED
  BY <1>1, Invariant, PTL

\* Who pages to the end has each filed call on the screen once, a torn one at most.
THEOREM ShownOnce ==
  ASSUME Orderly
  PROVE  Spec => []EachIsShownOnce
<1>1. IInv => EachIsShownOnce
  <2>. SUFFICES ASSUME IInv, view = "done"
                PROVE  /\ \A c \in filed : shown[c] = 1
                       /\ \A c \in torn : shown[c] <= 1
    BY DEF EachIsShownOnce
  <2>1. ASSUME NEW c \in filed
        PROVE  shown[c] = 1
    <3>1. PICK r \in rows : c \in r.val
      BY DEF IInv, FiledIsKept
    <3>2. iter <= r.idx /\ r.idx <= c
      BY <3>1 DEF IInv, Screen, Pages, Cut
    <3>3. c \in Call /\ r.idx \in Call /\ iter \in Call \cup {Null}
      BY DEF IInv, TypeOK, Row
    <3>4. iter <= c
      BY <3>2, <3>3 DEF Call, Null
    <3>. QED
      BY <3>3, <3>4 DEF IInv, Screen
  <2>2. ASSUME NEW c \in torn
        PROVE  shown[c] <= 1
    <3>1. c \in Call
      BY DEF IInv, TypeOK
    <3>2. shown[c] \in {0, 1}
      BY <3>1 DEF IInv, Screen
    <3>. QED
      BY <3>2
  <2>. QED
    BY <2>1, <2>2
<1>. QED
  BY <1>1, Invariant, PTL

\* Each further page is older than what is on the screen.
THEOREM Descending ==
  ASSUME Orderly
  PROVE  Spec => NewestFirst
<1>. DEFINE Older == More => \A c, d \in Call :
                       shown[c] > 0 /\ shown'[d] > shown[d] => d < c
<1>1. IInv /\ [Next]_vars => [Older]_vars
  <2>. SUFFICES ASSUME IInv, More, NEW c \in Call, NEW d \in Call,
                       shown[c] > 0, shown'[d] > shown[d]
                PROVE  d < c
    OBVIOUS
  <2>1. view = "paging" /\ iter # Null /\ iter \in Call /\ Before(iter) = iter
    BY DEF More, IInv, Screen, TypeOK, Before
  <2>2. iter <= c
    <3>1. shown[c] \in {0, 1}
      BY <2>1 DEF IInv, Screen
    <3>2. shown[c] = 1
      BY <3>1
    <3>. QED
      BY <2>1, <3>2 DEF IInv, Screen
  <2>3. PICK r \in Fetched(rows, iter) :
          shown' = [e \in Call |-> shown[e] + IF e \in r.val THEN 1 ELSE 0]
    <3>1. shown' # shown
      BY DEF IInv, TypeOK
    <3>. QED
      BY <2>1, <3>1 DEF More, Fetch
  <2>4. d \in r.val
    BY <2>3 DEF IInv, TypeOK
  <2>5. PICK p \in rows : p.idx = iter
    BY <2>1 DEF IInv, Screen
  <2>6. d < iter
    BY <2>4, <2>5, FetchedIs DEF IInv, Pages, Cut
  <2>. QED
    BY <2>1, <2>2, <2>6 DEF Call
<1>. QED
  BY <1>1, Invariant, PTL DEF Spec, NewestFirst

(***************************************************************************)
(* History implements CallLog.                                             *)
(***************************************************************************)
\* a call is not on the screen before it ends, not even with the list closed
Unseen == \A c \in Call : c \notin Ended => shown[c] = 0

\* the calls on the screen
Seen == {c \in Ended : shown[c] = 1}

\* of the calls e, the set t is on the screen s: none before n, and those of f from n on
CutAt(e, f, n, s, t) ==
  /\ e \in SUBSET Call /\ f \in SUBSET e /\ n \in Call \cup {Null}
  /\ s \in [Call -> Nat]
  /\ t \in SUBSET e /\ \A c \in e : c \in t <=> s[c] = 1
  /\ \A c \in Call : /\ s[c] \in {0, 1}
                     /\ s[c] = 1 => c \in e /\ n <= c
                     /\ c \in f /\ n <= c => s[c] = 1

\* Such a part lacks none of f that is newer than one it has.
LEMMA CutAtShows ==
  ASSUME NEW e, NEW f, NEW n, NEW s, NEW t, CutAt(e, f, n, s, t)
  PROVE  s = Log!Showing(t) /\ \A c \in t, d \in f : c <= d => d \in t
<1>1. \A c \in Call : s[c] = IF c \in t THEN 1 ELSE 0
  BY DEF CutAt
<1>2. s = Log!Showing(t)
  BY <1>1 DEF CutAt, Log!Showing
<1>3. \A c \in t, d \in f : c <= d => d \in t
  <2>. TAKE c \in t, d \in f
  <2>. HAVE c <= d
  <2>1. c \in Call /\ d \in Call /\ n <= c /\ n \in Call \cup {Null}
    BY DEF CutAt
  <2>2. n <= d
    BY <2>1 DEF Call, Null
  <2>. QED
    BY <2>1, <2>2 DEF CutAt
<1>. QED
  BY <1>2, <1>3

\* the screen is cut off at iter
LEMMA ScreenIs ==
  ASSUME IInv, view # "closed"
  PROVE  /\ shown = Log!Showing(Seen) /\ Seen \in Log!Newest
<1>1. /\ Ended \in SUBSET Call /\ filed \in SUBSET Ended
      /\ iter \in Call \cup {Null} /\ shown \in [Call -> Nat]
      /\ \A c \in Call : /\ shown[c] \in {0, 1}
                         /\ shown[c] = 1 => c \in Ended /\ iter <= c
                         /\ c \in filed /\ iter <= c => shown[c] = 1
  BY DEF IInv, TypeOK, Screen, Ended
<1>2. Seen \in SUBSET Ended /\ \A c \in Ended : c \in Seen <=> shown[c] = 1
  BY DEF Seen
<1>3. CutAt(Ended, filed, iter, shown, Seen)
  BY <1>1, <1>2 DEF CutAt
<1>4. /\ shown = Log!Showing(Seen)
      /\ \A c \in Seen, d \in filed : c <= d => d \in Seen
  BY <1>3, CutAtShows
<1>. QED
  BY <1>2, <1>4 DEF Log!Newest, Ended

LEMMA ScreenWillBe ==
  ASSUME IInv', view' # "closed"
  PROVE  /\ shown' = Log!Showing(Seen') /\ Seen' \in Log!Newest'
         /\ Unseen'
<1>1. /\ Ended' \in SUBSET Call /\ filed' \in SUBSET Ended'
      /\ iter' \in Call \cup {Null} /\ shown' \in [Call -> Nat]
      /\ \A c \in Call : /\ shown'[c] \in {0, 1}
                         /\ shown'[c] = 1 => c \in Ended' /\ iter' <= c
                         /\ c \in filed' /\ iter' <= c => shown'[c] = 1
  BY DEF IInv, TypeOK, Screen, Ended
<1>2. Seen' \in SUBSET Ended' /\ \A c \in Ended' : c \in Seen' <=> shown'[c] = 1
  BY DEF Seen
<1>3. CutAt(Ended', filed', iter', shown', Seen')
  BY <1>1, <1>2 DEF CutAt
<1>4. /\ shown' = Log!Showing(Seen')
      /\ \A c \in Seen', d \in filed' : c <= d => d \in Seen'
  BY <1>3, CutAtShows
<1>5. Unseen'
  BY <1>1 DEF Unseen
<1>. QED
  BY <1>2, <1>4, <1>5 DEF Log!Newest, Ended

LEMMA AddFiles ==
  ASSUME Orderly, IInv, Unseen, NEW c \in Call, Add(c)
  PROVE  Log!File(c) /\ Unseen'
<1>1. c \notin Ended /\ \A d \in Ended : d < c
  BY EndsNewest DEF Add
<1>2. /\ shown \in [Call -> Nat] /\ shown' = [shown EXCEPT ![c] = @ + 1]
      /\ filed' = filed \cup {c} /\ torn' = torn /\ view' = view
  BY DEF Add, IInv, TypeOK
<1>3. shown[c] = 0
  BY <1>1 DEF Unseen
<1>4. shown' = [shown EXCEPT ![c] = 1]
  BY <1>2, <1>3
<1>5. Unseen'
  BY <1>2, <1>4 DEF Unseen, Ended
<1>. QED
  BY <1>1, <1>2, <1>4, <1>5 DEF Log!File, Log!Newer, Ended

LEMMA KillCutsOff ==
  ASSUME Orderly, IInv, NEW c \in Call, KilledInAdd(c)
  PROVE  Log!CutOff(c) /\ Unseen'
<1>1. \A d \in Ended : d < c
  BY EndsNewest DEF KilledInAdd
<1>2. /\ torn' = torn \cup {c} /\ filed' = filed /\ view' = "closed"
      /\ shown' = [d \in Call |-> 0]
  BY DEF KilledInAdd, Fresh
<1>3. shown' = Log!Showing({}) /\ Unseen'
  BY <1>2 DEF Log!Showing, Unseen
<1>. QED
  BY <1>1, <1>2, <1>3 DEF Log!CutOff, Log!Newer, Ended

LEMMA OpenOpens ==
  ASSUME IInv, Open
  PROVE  Log!OpenLog
<1>. DEFINE none == [c \in Call |-> 0]
            newest == Fetched(rows, Before(Null))
<1>1. Fetch(Null, Null, none) /\ rows' = rows /\ filed' = filed /\ torn' = torn
  BY DEF Open
<1>2. IInv'
  BY OpenInv
<1>3. \A r \in rows : r.idx \in Call /\ r.idx < Before(Null)
  BY HistoryAssumption DEF IInv, TypeOK, Row, Call, Before
<1>4. CASE newest = {}
  <2>1. rows = {}
    BY <1>3, <1>4, FetchedExists DEF IInv, TypeOK
  <2>2. filed = {}
    BY <2>1 DEF IInv, FiledIsKept
  <2>3. view' = "done" /\ shown' = Log!Showing({})
    BY <1>1, <1>4 DEF Fetch, Log!Showing
  <2>4. {} \in Log!Newest
    BY DEF Log!Newest
  <2>. QED
    BY <1>1, <2>2, <2>3, <2>4 DEF Log!OpenLog
<1>5. CASE newest # {}
  <2>1. PICK r \in newest : /\ view' = "paging"
                            /\ shown' = [c \in Call |-> none[c] + IF c \in r.val THEN 1 ELSE 0]
    BY <1>1, <1>5 DEF Fetch
  <2>2. r \in rows /\ r.idx \in r.val /\ r.val \subseteq Ended /\ r.idx \in Call
    BY FetchedIs DEF IInv, TypeOK, Row, Pages, Cut
  <2>3. view' # "closed"
    BY <2>1
  <2>4. shown' = Log!Showing(Seen') /\ Seen' \in Log!Newest'
    BY <1>2, <2>3, ScreenWillBe
  <2>5. Log!Newest' = Log!Newest
    BY <1>1 DEF Log!Newest
  <2>6. r.idx \in Seen'
    <3>1. shown'[r.idx] = 1
      BY <2>1, <2>2
    <3>. QED
      BY <1>1, <2>2, <3>1 DEF Seen, Ended
  <2>. QED
    BY <1>1, <2>1, <2>4, <2>5, <2>6 DEF Log!OpenLog
<1>. QED
  BY <1>4, <1>5

LEMMA MorePages ==
  ASSUME IInv, More
  PROVE  Log!PageOn
<1>1. /\ Fetch(iter, topIdx, shown) /\ rows' = rows /\ filed' = filed /\ torn' = torn
      /\ Ended' = Ended /\ view = "paging"
  BY DEF More, Ended
<1>2. iter \in Call /\ Before(iter) = iter
  BY <1>1 DEF IInv, Screen, TypeOK, Before
<1>3. view # "closed"
  BY <1>1
<1>4. shown = Log!Showing(Seen) /\ Seen \in Log!Newest
  BY <1>3, ScreenIs
<1>5. filed \subseteq Call /\ Ended \subseteq Call /\ \A r \in rows : r.idx \in Call
  BY DEF IInv, TypeOK, Row, Ended
<1>6. CASE Fetched(rows, iter) = {}
  <2>1. \A r \in rows : ~(r.idx < iter)
    BY <1>6, FetchedExists DEF IInv, TypeOK
  <2>2. \A c \in filed : shown[c] = 1
    <3>. TAKE c \in filed
    <3>1. PICK r \in rows : c \in r.val
      BY DEF IInv, FiledIsKept
    <3>2. r.idx <= c /\ ~(r.idx < iter)
      BY <2>1, <3>1 DEF IInv, Pages, Cut
    <3>3. iter <= c
      BY <1>2, <1>5, <3>2 DEF Call
    <3>. QED
      BY <1>3, <1>5, <3>3 DEF IInv, Screen
  <2>3. view' = "done" /\ shown' = shown
    BY <1>1, <1>2, <1>6 DEF Fetch
  <2>. QED
    BY <1>1, <2>2, <2>3 DEF Log!PageOn
<1>7. CASE Fetched(rows, iter) # {}
  <2>1. PICK r \in Fetched(rows, iter) :
          /\ view' = "paging"
          /\ shown' = [c \in Call |-> shown[c] + IF c \in r.val THEN 1 ELSE 0]
    BY <1>1, <1>2, <1>7 DEF Fetch
  <2>2. /\ r \in rows /\ r.idx < iter /\ r.idx \in r.val /\ r.idx \in Call
        /\ r.val \subseteq Ended
    BY <1>5, FetchedIs DEF IInv, Pages, Cut
  <2>3. PICK p \in rows : p.idx = iter
    BY <1>1 DEF IInv, Screen
  <2>4. \A d \in r.val : d < iter
    BY <2>2, <2>3 DEF IInv, Pages, Cut
  <2>5. \A c \in Seen : c \in Call /\ shown[c] = 1 /\ iter <= c
    BY <1>3, <1>5 DEF Seen, IInv, Screen
  <2>6. IInv' /\ view' # "closed"
    BY <2>1, MoreInv
  <2>7. shown' = Log!Showing(Seen') /\ Seen' \in Log!Newest'
    BY <2>6, ScreenWillBe
  <2>8. Log!Newest' = Log!Newest
    BY <1>1 DEF Log!Newest
  <2>9. Seen \subseteq Seen'
    <3>. SUFFICES ASSUME NEW c \in Seen
                  PROVE  c \in Seen'
      OBVIOUS
    <3>1. c \notin r.val
      BY <1>2, <2>4, <2>5 DEF Call
    <3>2. shown'[c] = 1
      BY <2>1, <2>5, <3>1
    <3>. QED
      BY <1>1, <3>2 DEF Seen
  <2>10. \A d \in Seen' \ Seen : d \in Call /\ d \in r.val
    <3>. TAKE d \in Seen' \ Seen
    <3>1. d \in Ended /\ shown'[d] = 1 /\ shown[d] # 1 /\ d \in Call
      BY <1>1, <1>5 DEF Seen
    <3>. QED
      BY <2>1, <3>1 DEF IInv, TypeOK
  <2>11. \A c \in Seen, d \in Seen' \ Seen : d < c
    BY <1>2, <2>4, <2>5, <2>10 DEF Call
  <2>12. r.idx \in Seen' /\ r.idx \notin Seen
    <3>1. r.idx \notin Seen
      BY <1>2, <2>2, <2>5 DEF Call
    <3>2. shown[r.idx] = 0
      BY <1>4, <2>2, <3>1 DEF Log!Showing
    <3>3. shown'[r.idx] = 1
      BY <2>1, <2>2, <3>2
    <3>. QED
      BY <1>1, <2>2, <3>1, <3>3 DEF Seen
  <2>. QED
    BY <1>1, <1>4, <2>1, <2>7, <2>8, <2>9, <2>11, <2>12 DEF Log!PageOn
<1>. QED
  BY <1>6, <1>7

\* Every step of the pages is one of the list a client may rely on, or leaves it.
LEMMA StepLogs ==
  ASSUME Orderly, IInv, Unseen, [Next]_vars
  PROVE  [Log!LogNext]_(Log!lvars) /\ Unseen'
<1>1. ASSUME NEW c \in Call, Add(c)
      PROVE  Log!LogNext /\ Unseen'
  BY <1>1, AddFiles DEF Log!LogNext
<1>2. ASSUME NEW c \in Call, KilledInAdd(c)
      PROVE  Log!LogNext /\ Unseen'
  BY <1>2, KillCutsOff DEF Log!LogNext
<1>3. CASE Open
  <2>1. IInv' /\ view' # "closed"
    BY <1>3, OpenInv DEF Open, Fetch
  <2>2. Unseen'
    BY <2>1, ScreenWillBe
  <2>. QED
    BY <1>3, <2>2, OpenOpens DEF Log!LogNext
<1>4. CASE More
  <2>1. IInv' /\ view' # "closed"
    BY <1>4, MoreInv DEF More, Fetch
  <2>2. Unseen'
    BY <2>1, ScreenWillBe
  <2>. QED
    BY <1>4, <2>2, MorePages DEF Log!LogNext
<1>5. CASE Second
  BY <1>5 DEF Second, Unseen, Ended, Log!lvars
<1>6. CASE Restart
  <2>1. shown' = Log!Showing({}) /\ view' = "closed" /\ filed' = filed
       /\ torn' = torn
    BY <1>6 DEF Restart, Fresh, Log!Showing
  <2>2. Unseen'
    BY <1>6 DEF Restart, Fresh, Unseen
  <2>. QED
    BY <2>1, <2>2 DEF Log!LogNext, Log!CloseLog
<1>7. CASE UNCHANGED vars
  BY <1>7 DEF vars, Unseen, Ended, Log!lvars
<1>. QED
  BY <1>1, <1>2, <1>3, <1>4, <1>5, <1>6, <1>7 DEF Next

\* Where calls end in the order of their ckeys, no two in a second, the pages of
\* history.c show the list of CallLog: the newest calls without a gap, then older
\* ones, then the end, whatever is filed meanwhile, however often it is reset and
\* wherever the process is killed.
THEOREM Refinement ==
  ASSUME Orderly
  PROVE  Spec => ImplementsLog
<1>1. Init => Log!LogInit /\ Unseen
  BY DEF Init, Log!LogInit, Log!Showing, Unseen
<1>2. IInv /\ Unseen /\ [Next]_vars => [Log!LogNext]_(Log!lvars) /\ Unseen'
  BY StepLogs
<1>. QED
  BY <1>1, <1>2, Invariant, PTL DEF Spec, ImplementsLog, Log!LogSpec
=============================================================================
