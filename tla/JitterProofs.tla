---------------------------- MODULE JitterProofs ----------------------------
(***************************************************************************)
(* Proofs about Jitter, for any number of slots, length of a frame, size   *)
(* of a chunk, number of frames and order they come in, on both builds.    *)
(***************************************************************************)
EXTENDS Jitter, FiniteSetTheorems, WellFoundedInduction, SequenceTheorems, TLAPS

(***************************************************************************)
(* The inductive invariant.  Until the buffer overruns a slot is with the  *)
(* thread that puts, or held: in use, or in use again once that thread     *)
(* writes back the bits it read.  A held slot with units left waits.       *)
(***************************************************************************)
Putting == ppc \in {"decode", "decoding", "decoded", "bset", "store"}
Getting == cpc \in {"copy", "bdrop", "store"}

Held == IF ppc = "store" THEN pmask ELSE used
Waits(s) == s \in Held /\ left[s] > 0

Unit == (Frame \cup {Garbage}) \X (1 .. FrameLen)

Shape ==
  /\ sent \in Seq(Frame) /\ out \in Seq(Unit)
  /\ \A s \in Slot : left[s] + off[s] <= FrameLen
  /\ ppc # "idle" => frame \in Frame
  /\ ppc = "idle" => frame = Garbage \/ frame \in Arrived
  /\ ppc = "idle" /\ sent # <<>> => frame = sent[Len(sent)]

\* Whose the slots are.
Apart ==
  /\ ppc \notin {"full", "cleared"}
  /\ ppc = "store" => ~apple
  /\ used \subseteq Held
  /\ Putting => pslot \notin Held /\ frame \notin Arrived
  /\ Getting => cslot \in used
  /\ cpc \in {"bdrop", "store"} => left[cslot] = 0
  /\ cpc = "store" => cmask \subseteq used

\* What is in them, and that each unit is either played or waits.
Whole ==
  /\ ppc \in {"decoded", "bset", "store"} =>
       data[pslot] = frame /\ left[pslot] = FrameLen /\ off[pslot] = 0
  /\ \A s \in Slot : Waits(s) => data[s] \in Arrived
  /\ \A s, t \in Slot : Waits(s) /\ Waits(t) /\ s # t => data[s] # data[t]
  /\ \A i \in DOMAIN out : out[i][1] \in Arrived

PlayedBefore ==
  \A i \in DOMAIN out, s \in Slot :
    Waits(s) /\ out[i][1] = data[s] => out[i][2] <= off[s]

Once == \A i, j \in DOMAIN out : out[i] = out[j] => i = j

Owned == Apart /\ Whole /\ PlayedBefore /\ Once

\* The stamps of what waits, and that the bits a thread read hide no frame that
\* is older than one it will find.
Stamped ==
  /\ ppc \in {"bset", "store"} => stamp[pslot] = Stamp(frame) /\ last = Stamp(frame)
  /\ \A s \in Slot : Waits(s) => stamp[s] = Stamp(data[s])

NoneAfterLast == \A f \in Arrived : Stamp(f) <= last

HiddenIsNewer ==
  /\ ppc = "store" =>
       \A s, t \in Slot : Waits(s) /\ Waits(t) /\ s \notin used /\ t \in used => data[t] < data[s]
  /\ cpc = "store" =>
       \A s, t \in Slot : Waits(s) /\ Waits(t) /\ s \notin cmask /\ t \in cmask => data[t] < data[s]

CopiesOldest ==
  cpc = "copy" /\ left[cslot] > 0 =>
    \A t \in Slot : Waits(t) /\ t # cslot => data[cslot] < data[t]

WaitsAreNewer ==
  \A i \in DOMAIN out, s \in Slot :
    Waits(s) => out[i][1] < data[s] \/ (out[i][1] = data[s] /\ out[i][2] <= off[s])

OutInOrder == \A i, j \in DOMAIN out : i < j => Older(out[i], out[j])

Ordered == NoneAfterLast /\ HiddenIsNewer /\ CopiesOldest /\ WaitsAreNewer /\ OutInOrder

IInv ==
  /\ TypeOK
  /\ Shape
  /\ ~overrun => Owned /\ Stamped
  /\ ~overrun /\ InOrder => Ordered

(***************************************************************************)
(* The operators.                                                          *)
(***************************************************************************)
LEMMA ConstantsType ==
  /\ AJD \in Nat /\ AJD > 0 /\ FrameLen \in Nat /\ FrameLen > 0
  /\ MaxFrame \in Nat /\ Wrap \in Nat /\ Wrap > 0
  /\ Wants \subseteq Nat /\ 0 \in Slot
BY JitterAssumption DEF Slot

\* A stamp fits.
LEMMA StampType ==
  ASSUME NEW f \in Nat
  PROVE  Stamp(f) \in 0 .. Wrap - 1
BY ConstantsType DEF Stamp

\* A nonempty set of natural numbers has a least element.
LEMMA LeastNat ==
  ASSUME NEW S \in SUBSET Nat, S # {}
  PROVE  \E x \in S : \A y \in S : x <= y
<1>. DEFINE R == OpToRel(<, Nat)
<1>1. IsWellFoundedOn(R, S)
  BY NatLessThanWellFounded, IsWellFoundedOnSubset
<1>2. \A x, y \in Nat : y < x <=> <<y, x>> \in R
  BY DEF OpToRel
<1>. HIDE DEF R
<1>3. PICK x \in S : \A y \in S : ~(<<y, x>> \in R)
  BY <1>1, WFMin
<1>4. ASSUME NEW y \in S
      PROVE  x <= y
  <2>1. x \in Nat /\ y \in Nat
    OBVIOUS
  <2>2. ~(y < x)
    BY <1>2, <1>3, <2>1
  <2>. QED
    BY <2>1, <2>2
<1>. QED
  BY <1>4

LEMMA MinIsLeast ==
  ASSUME NEW S \in SUBSET Nat, S # {}
  PROVE  Min(S) \in S /\ \A y \in S : Min(S) <= y
<1>1. \E x \in S : \A y \in S : x <= y
  BY LeastNat
<1>. QED
  BY <1>1 DEF Min

\* ajitter_put_ptr finds a slot that is not used, unless all are.
LEMMA FreeSlotType ==
  ASSUME used \subseteq Slot
  PROVE  /\ FreeSlot.full \in BOOLEAN /\ FreeSlot.slot \in Slot
         /\ ~FreeSlot.full => FreeSlot.slot \notin used
<1>1. CASE used = Slot
  BY <1>1, ConstantsType DEF FreeSlot
<1>2. CASE used # Slot
  <2>1. Slot \ used # {}
    BY <1>2
  <2>2. Slot \ used \in SUBSET Nat
    BY ConstantsType DEF Slot
  <2>3. Min(Slot \ used) \in Slot \ used
    BY <2>1, <2>2, MinIsLeast
  <2>. QED
    BY <1>2, <2>3 DEF FreeSlot
<1>. QED
  BY <1>1, <1>2

\* What one turn of ajitter_copy_chunk copies fits, and is there.
LEMMA GetNowType ==
  ASSUME TypeOK
  PROVE  /\ GetNow \in Nat /\ GetNow <= want - outHave /\ GetNow <= left[cslot]
<1>1. want \in Nat /\ outHave \in 0 .. want /\ left[cslot] \in Nat
  BY ConstantsType DEF TypeOK
<1>2. {want - outHave, left[cslot]} \in SUBSET Nat /\ {want - outHave, left[cslot]} # {}
  BY <1>1
<1>. QED
  BY <1>2, MinIsLeast DEF GetNow

\* What ajitter_get_ptr returns is used, and no other slot in use that is ready has
\* a smaller stamp.
LEMMA OldestReadyType ==
  ASSUME NEW s \in OldestReady
  PROVE  s \in used /\ stamp[s] <= last
         /\ \A q \in used : stamp[q] <= last => stamp[s] < stamp[q] \/ stamp[s] = stamp[q]
BY DEF OldestReady

(***************************************************************************)
(* Types.                                                                  *)
(***************************************************************************)
LEMMA ShapeInit == Init => TypeOK /\ Shape
<1>. SUFFICES ASSUME Init
              PROVE  TypeOK /\ Shape
  OBVIOUS
<1>. USE ConstantsType
<1>1. 0 \in 0 .. FrameLen /\ 0 \in 0 .. Wrap - 1 /\ 0 \in Nat
  OBVIOUS
<1>2. /\ stamp \in [Slot -> 0 .. Wrap - 1] /\ last \in 0 .. Wrap - 1
      /\ left \in [Slot -> 0 .. FrameLen] /\ off \in [Slot -> 0 .. FrameLen]
      /\ data \in [Slot -> Frame \cup {Garbage}]
  BY <1>1 DEF Init
<1>3. want \in Wants /\ outHave \in 0 .. want
  BY DEF Init
<1>4. TypeOK
  BY <1>2, <1>3 DEF TypeOK, Init, Pcs
<1>5. Shape
  BY <1>2 DEF Init, Shape
<1>. QED
  BY <1>4, <1>5

\* What a frame that is put does to what has arrived.
LEMMA BsetArrived ==
  ASSUME Shape, Bset
  PROVE  /\ frame \in Frame /\ sent' = Append(sent, frame) /\ sent' \in Seq(Frame)
         /\ Arrived' = Arrived \cup {frame}
         /\ Len(sent') = Len(sent) + 1 /\ sent'[Len(sent')] = frame
         /\ \A i \in DOMAIN sent : i \in DOMAIN sent' /\ sent'[i] = sent[i]
<1>1. frame \in Frame /\ sent' = Append(sent, frame) /\ sent \in Seq(Frame)
  BY DEF Shape, Bset
<1>2. /\ sent' \in Seq(Frame)
      /\ Len(sent') = Len(sent) + 1 /\ sent'[Len(sent')] = frame
      /\ \A i \in DOMAIN sent : i \in DOMAIN sent' /\ sent'[i] = sent[i]
      /\ \A i \in DOMAIN sent' : i \in DOMAIN sent \/ i = Len(sent) + 1
      /\ Len(sent') \in DOMAIN sent'
  BY <1>1
<1>. QED
  BY <1>1, <1>2 DEF Arrived

\* out after a copy: the old units, then those of the slot after off.
LEMMA CopyOut ==
  ASSUME TypeOK, Shape, Copy
  PROVE  /\ \A i \in DOMAIN out : i \in DOMAIN out' /\ out'[i] = out[i]
         /\ Len(out) \in Nat /\ DOMAIN out = 1 .. Len(out)
         /\ DOMAIN out' = 1 .. Len(out) + GetNow
         /\ \A i \in DOMAIN out' : i \notin DOMAIN out =>
              /\ i - Len(out) \in 1 .. GetNow
              /\ out'[i][1] = data[cslot] /\ out'[i][2] = off[cslot] + (i - Len(out))
<1>. DEFINE now == GetNow
            new == [i \in 1 .. now |-> <<data[cslot], off[cslot] + i>>]
<1>1. now \in Nat /\ now <= left[cslot]
  BY GetNowType
<1>2. out' = out \o new /\ out \in Seq(Unit)
  BY DEF Copy, Shape
<1>3. Len(out) \in Nat /\ DOMAIN out = 1 .. Len(out)
  BY <1>2
<1>. HIDE DEF now
<1>4. new \in Seq(Unit)
  <2>1. /\ off[cslot] \in Nat /\ left[cslot] \in Nat
        /\ left[cslot] + off[cslot] <= FrameLen /\ data[cslot] \in Frame \cup {Garbage}
    BY ConstantsType DEF TypeOK, Shape
  <2>2. \A i \in 1 .. now : <<data[cslot], off[cslot] + i>> \in Unit
    BY <1>1, <2>1, ConstantsType DEF Unit
  <2>. QED
    BY <1>1, <2>2
<1>5. Len(new) = now /\ \A i \in 1 .. now : new[i] = <<data[cslot], off[cslot] + i>>
  BY <1>1
<1>. HIDE DEF new
<1>6. /\ out \o new \in Seq(Unit)
      /\ Len(out \o new) = Len(out) + now
      /\ \A i \in 1 .. Len(out) + now :
           (out \o new)[i] = IF i <= Len(out) THEN out[i] ELSE new[i - Len(out)]
  BY <1>2, <1>4, <1>5, ConcatProperties
<1>7. DOMAIN out' = 1 .. Len(out) + now
  BY <1>2, <1>6
<1>8. ASSUME NEW i \in 1 .. Len(out)
      PROVE  i \in 1 .. Len(out) + now /\ out'[i] = out[i]
  BY <1>1, <1>2, <1>3, <1>6
<1>9. ASSUME NEW i \in 1 .. Len(out) + now, i \notin 1 .. Len(out)
      PROVE  i - Len(out) \in 1 .. now /\ out'[i] = new[i - Len(out)]
  BY <1>1, <1>2, <1>3, <1>6, <1>9
<1>. QED
  BY <1>1, <1>3, <1>5, <1>7, <1>8, <1>9 DEF now

LEMMA ShapeNext == TypeOK /\ Shape /\ [Next]_vars => TypeOK' /\ Shape'
<1>. SUFFICES ASSUME TypeOK, Shape, [Next]_vars
              PROVE  TypeOK' /\ Shape'
  OBVIOUS
<1>. USE ConstantsType
<1>1. CASE UNCHANGED vars
  BY <1>1 DEF TypeOK, Shape, Arrived, vars, slots, producer, consumer, ghosts
<1>2. ASSUME NEW f \in Frame, PutPtr(f)
      PROVE  TypeOK' /\ Shape'
  <2>1. FreeSlot.full \in BOOLEAN /\ FreeSlot.slot \in Slot
    BY FreeSlotType DEF TypeOK
  <2>2. TypeOK'
    BY <1>2, <2>1 DEF PutPtr, TypeOK, Pcs, slots, consumer
  <2>3. Shape'
    BY <1>2, <2>1 DEF PutPtr, Shape, slots, consumer
  <2>. QED
    BY <2>2, <2>3
<1>3. CASE ClearUsed
  BY <1>3 DEF ClearUsed, TypeOK, Shape, Pcs, consumer, ghosts, Arrived
<1>4. CASE ClearLast
  <2>1. 0 \in 0 .. Wrap - 1
    OBVIOUS
  <2>. QED
    BY <1>4, <2>1 DEF ClearLast, TypeOK, Shape, Pcs, consumer, ghosts, Arrived
<1>5. CASE Decode
  <2>1. TypeOK'
    BY <1>5 DEF Decode, TypeOK, Pcs, consumer, ghosts
  <2>2. Shape'
    BY <1>5 DEF Decode, Shape, consumer, ghosts, Arrived
  <2>. QED
    BY <2>1, <2>2
<1>6. CASE Decoded
  <2>1. FrameLen \in 0 .. FrameLen /\ 0 \in 0 .. FrameLen /\ frame \in Frame
    BY <1>6 DEF Decoded, Shape
  <2>2. /\ data' \in [Slot -> Frame \cup {Garbage}]
        /\ left' \in [Slot -> 0 .. FrameLen] /\ off' \in [Slot -> 0 .. FrameLen]
    BY <1>6, <2>1 DEF Decoded, TypeOK
  <2>3. TypeOK'
    BY <1>6, <2>2 DEF Decoded, TypeOK, Pcs, consumer, ghosts
  <2>4. \A s \in Slot : left'[s] + off'[s] <= FrameLen
    BY <1>6 DEF Decoded, TypeOK, Shape
  <2>5. Shape'
    BY <1>6, <2>4 DEF Decoded, Shape, consumer, ghosts, Arrived
  <2>. QED
    BY <2>3, <2>5
<1>7. CASE PutDone
  <2>1. frame \in Frame /\ Stamp(frame) \in 0 .. Wrap - 1
    BY <1>7, StampType DEF PutDone, Shape, Frame
  <2>2. TypeOK'
    BY <1>7, <2>1 DEF PutDone, TypeOK, Pcs, consumer, ghosts
  <2>3. Shape'
    BY <1>7 DEF PutDone, Shape, consumer, ghosts, Arrived
  <2>. QED
    BY <2>2, <2>3
<1>8. CASE LoadPut
  <2>1. TypeOK'
    BY <1>8 DEF LoadPut, TypeOK, Pcs, slots, consumer, ghosts
  <2>2. Shape'
    BY <1>8 DEF LoadPut, Shape, slots, consumer, ghosts, Arrived
  <2>. QED
    BY <2>1, <2>2
<1>9. CASE Bset
  <2>1. used' \subseteq Slot
    BY <1>9 DEF Bset, Xor, TypeOK
  <2>2. TypeOK'
    BY <1>9, <2>1 DEF Bset, TypeOK, Pcs, consumer
  <2>3. Shape'
    BY <1>9, BsetArrived DEF Bset, Shape, consumer
  <2>. QED
    BY <2>2, <2>3
<1>10. CASE Callback
  <2>1. want' \in Wants /\ outHave' \in 0 .. want'
    <3>1. CASE apple
      <4>1. outHave' = 0 /\ want' \in Wants
        BY <1>10, <3>1 DEF Callback
      <4>. QED
        BY <4>1
    <3>2. CASE ~apple
      <4>1. outHave' = outHave /\ want' = want
        BY <1>10, <3>2 DEF Callback
      <4>. QED
        BY <4>1 DEF TypeOK
    <3>. QED
      BY <3>1, <3>2
  <2>2. TypeOK'
    BY <1>10, <2>1 DEF Callback, TypeOK, Pcs, slots, producer, ghosts
  <2>3. Shape'
    BY <1>10 DEF Callback, Shape, slots, producer, ghosts, Arrived
  <2>. QED
    BY <2>2, <2>3
<1>11. CASE GetPtr
  <2>1. cpc' \in Pcs /\ cslot' \in Slot
    BY <1>11, OldestReadyType DEF GetPtr, TypeOK, Pcs
  <2>2. TypeOK'
    BY <1>11, <2>1 DEF GetPtr, Unfilled, TypeOK, slots, producer
  <2>3. Shape'
    BY <1>11 DEF GetPtr, Shape, slots, producer, Arrived
  <2>. QED
    BY <2>2, <2>3
<1>12. CASE Copy
  <2>. DEFINE now == GetNow
              new == [i \in 1 .. now |-> <<data[cslot], off[cslot] + i>>]
  <2>1. now \in Nat /\ now <= want - outHave /\ now <= left[cslot]
    BY GetNowType
  <2>2. /\ out' = out \o new
        /\ left' = [left EXCEPT ![cslot] = @ - now]
        /\ off' = [off EXCEPT ![cslot] = @ + now]
        /\ outHave' = outHave + now
    BY <1>12 DEF Copy
  <2>. HIDE DEF now
  <2>3. /\ cslot \in Slot /\ left[cslot] \in 0 .. FrameLen /\ off[cslot] \in 0 .. FrameLen
        /\ left[cslot] + off[cslot] <= FrameLen /\ data[cslot] \in Frame \cup {Garbage}
    BY DEF TypeOK, Shape
  <2>4. left[cslot] - now \in 0 .. FrameLen /\ off[cslot] + now \in 0 .. FrameLen
    BY <2>1, <2>3
  <2>5. left' \in [Slot -> 0 .. FrameLen] /\ off' \in [Slot -> 0 .. FrameLen]
    BY <2>2, <2>4 DEF TypeOK
  <2>6. want \in Nat /\ outHave + now \in 0 .. want
    BY <2>1 DEF TypeOK
  <2>7. TypeOK'
    <3>1. silent' \subseteq DOMAIN out'
      BY <1>12, CopyOut DEF Copy, TypeOK
    <3>. QED
      BY <1>12, <2>2, <2>5, <2>6, <3>1 DEF Copy, TypeOK, Pcs, producer
  <2>8. \A s \in Slot : left'[s] + off'[s] <= FrameLen
    BY <2>1, <2>2, <2>3 DEF TypeOK, Shape
  <2>9. out' \in Seq(Unit)
    <3>1. \A i \in 1 .. now : <<data[cslot], off[cslot] + i>> \in Unit
      BY <2>1, <2>3 DEF Unit
    <3>2. new \in Seq(Unit)
      BY <2>1, <3>1
    <3>. QED
      BY <2>2, <3>2 DEF Shape
  <2>10. Shape'
    BY <1>12, <2>8, <2>9 DEF Copy, Shape, producer, Arrived
  <2>. QED
    BY <2>7, <2>10
<1>13. CASE LoadGet
  <2>1. TypeOK'
    BY <1>13 DEF LoadGet, TypeOK, Pcs, slots, producer, ghosts
  <2>2. Shape'
    BY <1>13 DEF LoadGet, Shape, slots, producer, ghosts, Arrived
  <2>. QED
    BY <2>1, <2>2
<1>14. CASE GetDone
  <2>1. used' \subseteq Slot
    BY <1>14 DEF GetDone, Xor, DropSlot, TypeOK
  <2>2. TypeOK'
    BY <1>14, <2>1 DEF GetDone, TypeOK, Pcs, producer, ghosts
  <2>3. Shape'
    BY <1>14 DEF GetDone, Shape, producer, ghosts, Arrived
  <2>. QED
    BY <2>2, <2>3
<1>15. CASE Retry
  <2>1. outHave' \in 0 .. want
    BY <1>15 DEF Retry, TypeOK
  <2>2. TypeOK'
    BY <1>15, <2>1 DEF Retry, TypeOK, Pcs, slots, producer, ghosts
  <2>3. Shape'
    BY <1>15 DEF Retry, Shape, slots, producer, ghosts, Arrived
  <2>. QED
    BY <2>2, <2>3
<1>. QED
  BY <1>1, <1>2, <1>3, <1>4, <1>5, <1>6, <1>7, <1>8, <1>9, <1>10, <1>11, <1>12, <1>13,
     <1>14, <1>15 DEF Next, Put, Get

(***************************************************************************)
(* Whose the slots are.                                                    *)
(***************************************************************************)
\* bset makes the slot held, with atomic bits or without; the thread that gets
\* loses none.
LEMMA BsetHeld ==
  ASSUME TypeOK, Apart, Bset
  PROVE  /\ Held' = Held \cup {pslot} /\ used' = Held' /\ used \subseteq used'
         /\ pslot \notin Held /\ frame \notin Arrived
<1>1. pslot \notin Held /\ used \subseteq Held /\ frame \notin Arrived
  BY DEF Apart, Bset, Putting
<1>2. ppc' # "store"
  BY DEF Bset
<1>3. Held' = used'
  BY <1>2 DEF Held
<1>4. used' = Held \cup {pslot}
  BY <1>1 DEF Bset, Held, Xor
<1>. QED
  BY <1>1, <1>3, <1>4

\* A slot that has run out is dropped by the thread that plays, and only it.
LEMMA GetDoneHeld ==
  ASSUME TypeOK, Apart, GetDone
  PROVE  used' \subseteq used /\ Held' \subseteq Held
<1>1. cslot \in used /\ (cpc = "store" => cmask \subseteq used)
  BY DEF Apart, GetDone, Getting
<1>2. used' \subseteq used
  BY <1>1 DEF GetDone, Xor, DropSlot
<1>. QED
  BY <1>2 DEF Held, GetDone, producer

LEMMA ApartNext == TypeOK /\ Shape /\ Apart /\ ~overrun' /\ [Next]_vars => Apart'
<1>. SUFFICES ASSUME TypeOK, Shape, Apart, ~overrun', [Next]_vars
              PROVE  Apart'
  OBVIOUS
<1>1. CASE UNCHANGED vars
  BY <1>1 DEF Apart, Putting, Getting, Held, Arrived, vars, slots, producer, consumer, ghosts
<1>2. ASSUME NEW f \in Frame, PutPtr(f)
      PROVE  Apart'
  <2>1. ~FreeSlot.full /\ FreeSlot.slot \notin used
    BY <1>2, FreeSlotType DEF PutPtr, TypeOK
  <2>2. f \notin Arrived
    BY <1>2 DEF PutPtr, MayArrive
  <2>3. Held = used /\ Held' = used
    BY <1>2, <2>1 DEF PutPtr, Held, slots
  <2>. QED
    BY <1>2, <2>1, <2>2, <2>3 DEF PutPtr, Apart, Putting, Getting, Arrived, slots, consumer
<1>3. CASE ClearUsed
  BY <1>3 DEF ClearUsed, Apart
<1>4. CASE ClearLast
  BY <1>4 DEF ClearLast, Apart
<1>5. CASE Decode
  BY <1>5 DEF Decode, Apart, Putting, Getting, Held, Arrived, consumer, ghosts
<1>6. CASE Decoded
  <2>1. ~Getting \/ cslot # pslot
    BY <1>6 DEF Decoded, Apart, Putting, Held
  <2>2. cpc \in {"bdrop", "store"} => left'[cslot] = 0
    BY <1>6, <2>1 DEF Decoded, Apart, TypeOK, Getting
  <2>3. cpc' = cpc /\ cslot' = cslot
    BY <1>6 DEF Decoded, consumer
  <2>. QED
    BY <1>6, <2>2, <2>3 DEF Decoded, Apart, Putting, Getting, Held, Arrived, consumer, ghosts
<1>7. CASE PutDone
  BY <1>7 DEF PutDone, Apart, Putting, Getting, Held, Arrived, consumer, ghosts
<1>8. CASE LoadPut
  BY <1>8 DEF LoadPut, Apart, Putting, Getting, Held, Arrived, slots, consumer, ghosts
<1>9. CASE Bset
  BY <1>9, BsetHeld DEF Bset, Apart, Putting, Getting, consumer
<1>10. CASE Callback
  BY <1>10 DEF Callback, Apart, Putting, Getting, Held, Arrived, slots, producer, ghosts
<1>11. CASE GetPtr
  <2>1. Getting' => cslot' \in used /\ cpc' = "copy"
    BY <1>11, OldestReadyType DEF GetPtr, Getting
  <2>2. cpc' \notin {"bdrop", "store"}
    BY <1>11 DEF GetPtr
  <2>. QED
    BY <1>11, <2>1, <2>2 DEF GetPtr, Apart, Putting, Held, Arrived, slots, producer, ghosts
<1>12. CASE Copy
  <2>1. cslot \in used /\ cslot' = cslot /\ used' = used
    BY <1>12 DEF Copy, Apart, Getting
  <2>2. left'[cslot] \in Nat
    BY ShapeNext, ConstantsType DEF TypeOK
  <2>3. cpc' \in {"bdrop", "store"} => left'[cslot] = 0
    BY <1>12, <2>2 DEF Copy
  <2>4. cpc' # "store"
    BY <1>12 DEF Copy
  <2>. QED
    BY <1>12, <2>1, <2>3, <2>4 DEF Copy, Apart, Putting, Getting, Held, Arrived, producer
<1>13. CASE LoadGet
  BY <1>13 DEF LoadGet, Apart, Putting, Getting, Held, Arrived, slots, producer, ghosts
<1>14. CASE GetDone
  <2>1. cpc' = "next" /\ used' \subseteq used /\ Held' \subseteq Held
    BY <1>14, GetDoneHeld DEF GetDone
  <2>2. used' \subseteq Held'
    BY <1>14, <2>1 DEF GetDone, Held, producer, Apart
  <2>. QED
    BY <1>14, <2>1, <2>2 DEF GetDone, Apart, Putting, Getting, Arrived, producer, ghosts
<1>15. CASE Retry
  BY <1>15 DEF Retry, Apart, Putting, Getting, Held, Arrived, slots, producer, ghosts
<1>. QED
  BY <1>1, <1>2, <1>3, <1>4, <1>5, <1>6, <1>7, <1>8, <1>9, <1>10, <1>11, <1>12, <1>13,
     <1>14, <1>15 DEF Next, Put, Get

(***************************************************************************)
(* What is in the slots that are held, and what was played.                *)
(***************************************************************************)
\* No step but the end of a put and a copy adds to what is held, touches what is in
\* it, or plays.
Keeps ==
  /\ Held' \subseteq Held
  /\ \A s \in Held' : /\ left'[s] = left[s] /\ off'[s] = off[s]
                      /\ data'[s] = data[s] /\ stamp'[s] = stamp[s]
  /\ sent' = sent /\ out' = out

LEMMA BsetOrCopyOrKeeps ==
  ASSUME TypeOK, Apart, ~overrun', [Next]_vars
  PROVE  Bset \/ Copy \/ Keeps
<1>1. CASE UNCHANGED vars
  BY <1>1 DEF Keeps, Held, vars, slots, producer, ghosts
<1>2. ASSUME NEW f \in Frame, PutPtr(f)
      PROVE  Keeps
  BY <1>2 DEF PutPtr, Keeps, Held, slots
<1>3. CASE ClearUsed \/ ClearLast
  BY <1>3 DEF ClearUsed, ClearLast, Apart
<1>4. CASE Decode
  <2>1. pslot \notin Held
    BY <1>4 DEF Decode, Apart, Putting
  <2>. QED
    BY <1>4, <2>1 DEF Decode, Keeps, Held, TypeOK, ghosts
<1>5. CASE Decoded
  <2>1. pslot \notin Held /\ Held' = Held /\ Held \subseteq Slot
    BY <1>5 DEF Decoded, Apart, Putting, Held, TypeOK
  <2>2. \A s \in Held : left'[s] = left[s] /\ off'[s] = off[s] /\ data'[s] = data[s]
    BY <1>5, <2>1 DEF Decoded, TypeOK
  <2>. QED
    BY <1>5, <2>1, <2>2 DEF Decoded, Keeps, ghosts
<1>6. CASE PutDone
  <2>1. pslot \notin Held /\ Held' = Held /\ Held \subseteq Slot
    BY <1>6 DEF PutDone, Apart, Putting, Held, TypeOK
  <2>2. \A s \in Held : stamp'[s] = stamp[s]
    BY <1>6, <2>1 DEF PutDone, TypeOK
  <2>. QED
    BY <1>6, <2>1, <2>2 DEF PutDone, Keeps, ghosts
<1>7. CASE LoadPut
  BY <1>7 DEF LoadPut, Keeps, Held, slots, ghosts
<1>8. CASE Callback \/ GetPtr \/ LoadGet \/ Retry
  BY <1>8 DEF Callback, GetPtr, LoadGet, Retry, Keeps, Held, slots, producer, ghosts
<1>9. CASE GetDone
  BY <1>9, GetDoneHeld DEF GetDone, Keeps, ghosts
<1>. QED
  BY <1>1, <1>2, <1>3, <1>4, <1>5, <1>6, <1>7, <1>8, <1>9 DEF Next, Put, Get

LEMMA KeepsWaits ==
  ASSUME Keeps
  PROVE  \A s \in Slot : Waits(s)' =>
           /\ Waits(s) /\ left'[s] = left[s] /\ off'[s] = off[s]
           /\ data'[s] = data[s] /\ stamp'[s] = stamp[s]
BY DEF Keeps, Waits

\* What is put waits, whole.
LEMMA BsetWaits ==
  ASSUME TypeOK, Apart, Whole, Bset
  PROVE  /\ \A s \in Slot : Waits(s)' => Waits(s) \/ s = pslot
         /\ left' = left /\ off' = off /\ data' = data /\ stamp' = stamp /\ out' = out
         /\ pslot \in Slot /\ data[pslot] = frame /\ off[pslot] = 0
         /\ ~Waits(pslot)
<1>1. Held' = Held \cup {pslot} /\ pslot \notin Held
  BY BsetHeld
<1>2. left' = left /\ off' = off /\ data' = data /\ stamp' = stamp /\ out' = out
  BY DEF Bset
<1>3. data[pslot] = frame /\ off[pslot] = 0
  BY DEF Bset, Whole
<1>. QED
  BY <1>1, <1>2, <1>3 DEF Waits, TypeOK

\* What a copy plays is the next of a slot that waits, and the rest of it waits.
LEMMA CopyWaits ==
  ASSUME TypeOK, Shape, Apart, Copy
  PROVE  /\ \A s \in Slot : Waits(s)' => Waits(s)
         /\ \A s \in Slot : s # cslot => off'[s] = off[s] /\ left'[s] = left[s]
         /\ off'[cslot] = off[cslot] + GetNow /\ left'[cslot] = left[cslot] - GetNow
         /\ GetNow > 0 => Waits(cslot)
         /\ data' = data /\ stamp' = stamp /\ sent' = sent /\ Held' = Held
         /\ cslot \in Slot /\ off[cslot] \in Nat /\ GetNow \in Nat
<1>1. GetNow \in Nat /\ GetNow <= left[cslot]
  BY GetNowType
<1>2. /\ left' = [left EXCEPT ![cslot] = @ - GetNow]
      /\ off' = [off EXCEPT ![cslot] = @ + GetNow]
      /\ data' = data /\ stamp' = stamp /\ sent' = sent /\ Held' = Held
  BY DEF Copy, Held, producer
<1>3. /\ cslot \in used /\ used \subseteq Held /\ cslot \in Slot
      /\ left[cslot] \in Nat /\ off[cslot] \in Nat
  BY ConstantsType DEF Copy, Apart, Getting, TypeOK
<1>4. \A s \in Slot : s # cslot => off'[s] = off[s] /\ left'[s] = left[s]
  BY <1>2 DEF TypeOK
<1>5. off'[cslot] = off[cslot] + GetNow /\ left'[cslot] = left[cslot] - GetNow
  BY <1>2, <1>3 DEF TypeOK
<1>6. \A s \in Slot : Waits(s)' => Waits(s)
  BY <1>1, <1>2, <1>3, <1>4, <1>5 DEF Waits
<1>7. GetNow > 0 => Waits(cslot)
  BY <1>1, <1>3 DEF Waits
<1>. QED
  BY <1>1, <1>2, <1>3, <1>4, <1>5, <1>6, <1>7

LEMMA WholeNext ==
  TypeOK /\ Shape /\ Apart /\ Whole /\ ~overrun' /\ [Next]_vars => Whole'
<1>. SUFFICES ASSUME TypeOK, Shape, Apart, Whole, ~overrun', [Next]_vars
              PROVE  Whole'
  OBVIOUS
<1>1. ppc' \in {"decoded", "bset", "store"} =>
        data'[pslot'] = frame' /\ left'[pslot'] = FrameLen /\ off'[pslot'] = 0
  <2>1. CASE Decoded
    BY <2>1 DEF Decoded, TypeOK
  <2>2. CASE Copy
    <3>1. Putting => cslot # pslot
      BY <2>2 DEF Copy, Apart, Getting
    <3>. QED
      BY <2>2, <3>1, CopyWaits DEF Copy, Whole, Putting, TypeOK, producer
  <2>3. CASE PutDone \/ LoadPut \/ Bset
    BY <2>3 DEF PutDone, LoadPut, Bset, Whole, slots
  <2>4. CASE Callback \/ GetPtr \/ LoadGet \/ GetDone \/ Retry \/ UNCHANGED vars
    BY <2>4 DEF Callback, GetPtr, LoadGet, GetDone, Retry, vars, slots, producer, Whole
  <2>5. CASE (\E f \in Frame : PutPtr(f)) \/ ClearUsed \/ ClearLast \/ Decode
    BY <2>5 DEF PutPtr, ClearUsed, ClearLast, Decode
  <2>. QED
    BY <2>1, <2>2, <2>3, <2>4, <2>5 DEF Next, Put, Get
<1>2. /\ \A s \in Slot : Waits(s)' => data'[s] \in Arrived'
      /\ \A s, t \in Slot : Waits(s)' /\ Waits(t)' /\ s # t => data'[s] # data'[t]
      /\ \A i \in DOMAIN out' : out'[i][1] \in Arrived'
  <2>1. CASE Bset
    <3>1. Arrived' = Arrived \cup {frame} /\ frame \notin Arrived
      BY <2>1, BsetArrived, BsetHeld
    <3>. QED
      BY <2>1, <3>1, BsetWaits DEF Whole
  <2>2. CASE Copy
    <3>1. Arrived' = Arrived
      BY <2>2, CopyWaits DEF Arrived
    <3>2. \A i \in DOMAIN out' : out'[i][1] \in Arrived
      <4>1. GetNow > 0 => data[cslot] \in Arrived
        BY <2>2, CopyWaits DEF Whole
      <4>2. \A i \in DOMAIN out' : i \notin DOMAIN out => GetNow > 0 /\ out'[i][1] = data[cslot]
        BY <2>2, CopyOut, CopyWaits
      <4>3. \A i \in DOMAIN out : out'[i][1] = out[i][1]
        BY <2>2, CopyOut
      <4>. QED
        BY <4>1, <4>2, <4>3 DEF Whole
    <3>. QED
      BY <2>2, <3>1, <3>2, CopyWaits DEF Whole
  <2>3. CASE Keeps
    <3>1. Arrived' = Arrived /\ out' = out
      BY <2>3 DEF Keeps, Arrived
    <3>. QED
      BY <2>3, <3>1, KeepsWaits DEF Whole
  <2>. QED
    BY <2>1, <2>2, <2>3, BsetOrCopyOrKeeps
<1>. QED
  BY <1>1, <1>2 DEF Whole

LEMMA PlayedNext ==
  /\ TypeOK /\ Shape /\ Apart /\ Whole /\ PlayedBefore /\ Once
  /\ ~overrun' /\ [Next]_vars
  => PlayedBefore' /\ Once'
<1>. SUFFICES ASSUME TypeOK, Shape, Apart, Whole, PlayedBefore, Once, ~overrun', [Next]_vars
              PROVE  PlayedBefore' /\ Once'
  OBVIOUS
<1>1. CASE Bset
  <2>1. frame \notin Arrived
    BY <1>1, BsetHeld
  <2>2. ASSUME NEW i \in DOMAIN out, NEW s \in Slot, Waits(s)', out[i][1] = data[s]
        PROVE  out[i][2] <= off[s]
    BY <1>1, <2>1, <2>2, BsetWaits DEF PlayedBefore, Whole
  <2>3. PlayedBefore'
    BY <1>1, <2>2, BsetWaits DEF PlayedBefore
  <2>4. Once'
    BY <1>1, BsetWaits DEF Once
  <2>. QED
    BY <2>3, <2>4
<1>2. CASE Copy
  <2>. USE <1>2
  <2>1. ASSUME NEW i \in DOMAIN out', NEW s \in Slot, Waits(s)', out'[i][1] = data[s]
        PROVE  out'[i][2] <= off'[s]
    <3>1. Waits(s) /\ off[s] \in Nat
      BY <2>1, CopyWaits, ConstantsType DEF TypeOK
    <3>2. off'[s] \in Nat /\ off[s] <= off'[s]
      BY <3>1, CopyWaits
    <3>3. CASE i \in DOMAIN out
      <4>1. out'[i] = out[i] /\ out[i][2] \in Nat
        BY <3>3, CopyOut DEF Shape, Unit
      <4>2. out[i][2] <= off[s]
        BY <2>1, <3>1, <3>3, <4>1 DEF PlayedBefore
      <4>. QED
        BY <3>1, <3>2, <4>1, <4>2
    <3>4. CASE i \notin DOMAIN out
      <4>1. /\ i - Len(out) \in 1 .. GetNow /\ out'[i][1] = data[cslot]
            /\ out'[i][2] = off[cslot] + (i - Len(out))
        BY <3>4, CopyOut
      <4>2. GetNow \in Nat /\ off[cslot] \in Nat
        BY CopyWaits
      <4>3. Waits(cslot) /\ cslot \in Slot
        BY <4>1, <4>2, CopyWaits
      <4>4. s = cslot
        BY <2>1, <3>1, <4>1, <4>3 DEF Whole
      <4>5. off'[cslot] = off[cslot] + GetNow
        BY CopyWaits
      <4>. QED
        BY <4>1, <4>2, <4>4, <4>5
    <3>. QED
      BY <3>3, <3>4
  <2>2. PlayedBefore'
    BY <2>1, CopyWaits DEF PlayedBefore
  <2>3. ASSUME NEW i \in DOMAIN out', NEW j \in DOMAIN out', i \notin DOMAIN out, out'[i] = out'[j]
        PROVE  i = j
    <3>1. /\ i - Len(out) \in 1 .. GetNow /\ out'[i][1] = data[cslot]
          /\ out'[i][2] = off[cslot] + (i - Len(out))
      BY <2>3, CopyOut
    <3>2. GetNow \in Nat /\ off[cslot] \in Nat /\ Len(out) \in Nat
      BY CopyWaits, CopyOut
    <3>3. i \in Int /\ j \in Int
      BY <3>2, CopyOut
    <3>4. CASE j \in DOMAIN out
      <4>1. Waits(cslot) /\ cslot \in Slot
        BY <3>1, <3>2, CopyWaits
      <4>2. out[j][1] = data[cslot] /\ out[j][2] = out'[i][2]
        BY <2>3, <3>1, <3>4, CopyOut
      <4>3. out[j][2] <= off[cslot]
        BY <3>4, <4>1, <4>2 DEF PlayedBefore
      <4>. QED
        BY <3>1, <3>2, <4>2, <4>3
    <3>5. CASE j \notin DOMAIN out
      <4>1. out'[j][2] = off[cslot] + (j - Len(out))
        BY <3>5, CopyOut
      <4>. QED
        BY <2>3, <3>1, <3>2, <3>3, <4>1
    <3>. QED
      BY <3>4, <3>5
  <2>4. Once'
    BY <2>3, CopyOut DEF Once
  <2>. QED
    BY <2>2, <2>4
<1>3. CASE Keeps
  <2>1. out' = out
    BY <1>3 DEF Keeps
  <2>. QED
    BY <1>3, <2>1, KeepsWaits DEF PlayedBefore, Once
<1>. QED
  BY <1>1, <1>2, <1>3, BsetOrCopyOrKeeps

(***************************************************************************)
(* The stamps.                                                             *)
(***************************************************************************)
LEMMA StampedNext ==
  TypeOK /\ Shape /\ Apart /\ Whole /\ Stamped /\ ~overrun' /\ [Next]_vars => Stamped'
<1>. SUFFICES ASSUME TypeOK, Shape, Apart, Whole, Stamped, ~overrun', [Next]_vars
              PROVE  Stamped'
  OBVIOUS
<1>1. ppc' \in {"bset", "store"} => stamp'[pslot'] = Stamp(frame') /\ last' = Stamp(frame')
  <2>1. CASE PutDone
    BY <2>1 DEF PutDone, TypeOK
  <2>2. CASE LoadPut \/ Bset
    BY <2>2 DEF LoadPut, Bset, Stamped, slots
  <2>3. CASE Callback \/ GetPtr \/ Copy \/ LoadGet \/ GetDone \/ Retry \/ UNCHANGED vars
    BY <2>3 DEF Callback, GetPtr, Copy, LoadGet, GetDone, Retry, vars, slots, producer, Stamped
  <2>4. CASE (\E f \in Frame : PutPtr(f)) \/ ClearUsed \/ ClearLast \/ Decode \/ Decoded
    BY <2>4 DEF PutPtr, ClearUsed, ClearLast, Decode, Decoded
  <2>. QED
    BY <2>1, <2>2, <2>3, <2>4 DEF Next, Put, Get
<1>2. \A s \in Slot : Waits(s)' => stamp'[s] = Stamp(data'[s])
  <2>1. CASE Bset
    <3>1. stamp[pslot] = Stamp(frame)
      BY <2>1 DEF Bset, Stamped
    <3>. QED
      BY <2>1, <3>1, BsetWaits DEF Stamped
  <2>2. CASE Copy
    BY <2>2, CopyWaits DEF Stamped
  <2>3. CASE Keeps
    BY <2>3, KeepsWaits DEF Stamped
  <2>. QED
    BY <2>1, <2>2, <2>3, BsetOrCopyOrKeeps
<1>. QED
  BY <1>1, <1>2 DEF Stamped

\* The frames that came are in the order of their stamps.
LEMMA ArrivedInOrder ==
  ASSUME Shape, InOrder
  PROVE  /\ Arrived \subseteq Frame /\ Frame \subseteq Nat
         /\ \A f, g \in Arrived : f # g => Before(f, g) \/ Before(g, f)
         /\ frame \notin Arrived => \A f \in Arrived : Before(f, frame)
<1>1. sent \in Seq(Frame) /\ Frame \subseteq Nat
  BY ConstantsType DEF Shape, Frame
<1>2. DOMAIN sent \subseteq Nat /\ Arrived \subseteq Frame
  BY <1>1 DEF Arrived
<1>3. ASSUME NEW f \in Arrived, NEW g \in Arrived, f # g
      PROVE  Before(f, g) \/ Before(g, f)
  <2>1. PICK i \in DOMAIN sent, j \in DOMAIN sent : f = sent[i] /\ g = sent[j]
    BY DEF Arrived
  <2>2. i < j \/ j < i
    BY <1>2, <1>3, <2>1
  <2>. QED
    BY <2>1, <2>2 DEF InOrder
<1>4. ASSUME frame \notin Arrived, NEW f \in Arrived
      PROVE  Before(f, frame)
  BY <1>4 DEF Arrived, InOrder
<1>. QED
  BY <1>1, <1>2, <1>3, <1>4

\* A step does not put right an order that is wrong.
LEMMA InOrderBack ==
  ASSUME TypeOK, Shape, [Next]_vars, InOrder'
  PROVE  InOrder
<1>1. sent \in Seq(Frame) /\ Len(sent) \in Nat /\ DOMAIN sent = 1 .. Len(sent)
  BY DEF Shape
<1>2. CASE Bset
  <2>1. /\ Len(sent') = Len(sent) + 1 /\ sent'[Len(sent')] = frame
        /\ \A i \in DOMAIN sent : i \in DOMAIN sent' /\ sent'[i] = sent[i]
        /\ sent' \in Seq(Frame)
    BY <1>2, BsetArrived
  <2>2. \A i, j \in DOMAIN sent : i < j => Before(sent[i], sent[j])
    BY <2>1 DEF InOrder
  <2>3. ASSUME NEW i \in DOMAIN sent
        PROVE  Before(sent[i], frame)
    <3>1. i \in DOMAIN sent' /\ Len(sent') \in DOMAIN sent' /\ i < Len(sent')
      BY <1>1, <2>1
    <3>2. Before(sent'[i], sent'[Len(sent')])
      BY <3>1 DEF InOrder
    <3>. QED
      BY <2>1, <3>2
  <2>. QED
    BY <2>2, <2>3 DEF InOrder
<1>3. ASSUME NEW f \in Frame, PutPtr(f)
      PROVE  InOrder
  <2>1. sent' = sent /\ ppc = "idle"
    BY <1>3 DEF PutPtr
  <2>2. \A i, j \in DOMAIN sent : i < j => Before(sent[i], sent[j])
    BY <2>1 DEF InOrder
  <2>3. ASSUME NEW i \in DOMAIN sent, frame # sent[i]
        PROVE  Before(sent[i], frame)
    <3>1. frame = sent[Len(sent)] /\ Len(sent) \in DOMAIN sent
      BY <1>1, <2>1 DEF Shape
    <3>2. i < Len(sent)
      BY <1>1, <2>3, <3>1
    <3>. QED
      BY <2>2, <3>1, <3>2
  <2>. QED
    BY <2>2, <2>3 DEF InOrder
<1>4. CASE sent' = sent /\ frame' = frame
  BY <1>4 DEF InOrder
<1>5. CASE ClearUsed \/ ClearLast \/ Decode \/ Decoded \/ PutDone \/ LoadPut
  BY <1>4, <1>5 DEF ClearUsed, ClearLast, Decode, Decoded, PutDone, LoadPut, ghosts
<1>6. CASE Get \/ UNCHANGED vars
  BY <1>4, <1>6 DEF Get, Callback, GetPtr, Copy, LoadGet, GetDone, Retry, vars, producer, ghosts
<1>. QED
  BY <1>2, <1>3, <1>5, <1>6 DEF Next, Put

(***************************************************************************)
(* The order of what is played.                                            *)
(***************************************************************************)
LEMMA LastNext ==
  /\ TypeOK /\ Shape /\ Apart /\ Stamped /\ InOrder /\ NoneAfterLast
  /\ ~overrun' /\ [Next]_vars
  => NoneAfterLast'
<1>. SUFFICES ASSUME TypeOK, Shape, Apart, Stamped, InOrder, NoneAfterLast,
                     ~overrun', [Next]_vars
              PROVE  NoneAfterLast'
  OBVIOUS
<1>1. CASE Bset
  <2>1. Arrived' = Arrived \cup {frame} /\ last' = last /\ last = Stamp(frame)
    BY <1>1, BsetArrived DEF Bset, Stamped
  <2>2. last \in Nat
    BY DEF TypeOK
  <2>. QED
    BY <2>1, <2>2 DEF NoneAfterLast
<1>2. CASE PutDone
  <2>1. last' = Stamp(frame) /\ Arrived' = Arrived /\ frame \notin Arrived /\ frame \in Frame
    BY <1>2 DEF PutDone, Arrived, ghosts, Apart, Putting, Shape
  <2>2. ASSUME NEW f \in Arrived
        PROVE  Stamp(f) <= Stamp(frame)
    <3>1. f \in Nat /\ frame \in Nat /\ Stamp(f) < Stamp(frame)
      BY <2>1, ArrivedInOrder DEF Before
    <3>2. Stamp(f) \in Nat /\ Stamp(frame) \in Nat
      BY <3>1, StampType
    <3>. QED
      BY <3>1, <3>2
  <2>. QED
    BY <2>1, <2>2 DEF NoneAfterLast
<1>3. CASE last' = last /\ sent' = sent
  BY <1>3 DEF NoneAfterLast, Arrived
<1>4. CASE ClearUsed \/ ClearLast
  BY <1>4 DEF ClearUsed, ClearLast, Apart
<1>5. CASE (\E f \in Frame : PutPtr(f)) \/ Decode \/ Decoded \/ LoadPut
  BY <1>3, <1>5 DEF PutPtr, Decode, Decoded, LoadPut, slots, ghosts
<1>6. CASE Get \/ UNCHANGED vars
  BY <1>3, <1>6 DEF Get, Callback, GetPtr, Copy, LoadGet, GetDone, Retry, vars, slots, ghosts
<1>. QED
  BY <1>1, <1>2, <1>4, <1>5, <1>6 DEF Next, Put

LEMMA HiddenNext ==
  /\ TypeOK /\ Shape /\ Owned /\ Stamped /\ InOrder /\ HiddenIsNewer
  /\ ~overrun' /\ [Next]_vars
  => HiddenIsNewer'
<1>. SUFFICES ASSUME TypeOK, Shape, Apart, Whole, InOrder, HiddenIsNewer, ~overrun', [Next]_vars
              PROVE  HiddenIsNewer'
  BY DEF Owned
<1>1. ASSUME ppc' = "store", NEW s \in Slot, NEW t \in Slot,
             Waits(s)', Waits(t)', s \notin used', t \in used'
      PROVE  data'[t] < data'[s]
  <2>1. CASE LoadPut
    BY <1>1, <2>1 DEF LoadPut, slots, Waits, Held
  <2>2. CASE GetDone
    <3>1. ppc = "store" /\ cpc = "store" /\ used' = cmask \ {cslot}
      BY <1>1, <2>2 DEF GetDone, producer, Apart, DropSlot
    <3>2. left[cslot] = 0 /\ data' = data
      BY <2>2, <3>1 DEF Apart, GetDone
    <3>3. Waits(s) /\ Waits(t)
      BY <1>1, <2>2, <3>1 DEF GetDone, producer, Waits, Held
    <3>4. s \notin cmask /\ t \in cmask
      BY <1>1, <3>1, <3>2, <3>3 DEF Waits
    <3>. QED
      BY <3>1, <3>2, <3>3, <3>4 DEF HiddenIsNewer
  <2>3. CASE Copy
    <3>1. Waits(s) /\ Waits(t) /\ data' = data
      BY <1>1, <2>3, CopyWaits
    <3>. QED
      BY <1>1, <2>3, <3>1 DEF Copy, producer, HiddenIsNewer
  <2>4. CASE Callback \/ GetPtr \/ LoadGet \/ Retry \/ UNCHANGED vars
    BY <1>1, <2>4 DEF Callback, GetPtr, LoadGet, Retry, vars, slots, producer, HiddenIsNewer, Waits, Held
  <2>5. ~((\E f \in Frame : PutPtr(f)) \/ ClearUsed \/ ClearLast \/ Decode \/ Decoded
          \/ PutDone \/ Bset)
    BY <1>1 DEF PutPtr, ClearUsed, ClearLast, Decode, Decoded, PutDone, Bset
  <2>. QED
    BY <2>1, <2>2, <2>3, <2>4, <2>5 DEF Next, Put, Get
<1>2. ASSUME cpc' = "store", NEW s \in Slot, NEW t \in Slot,
             Waits(s)', Waits(t)', s \notin cmask', t \in cmask'
      PROVE  data'[t] < data'[s]
  <2>1. CASE LoadGet
    <3>1. Waits(s) /\ Waits(t) /\ s \notin used /\ t \in used /\ data' = data
      BY <1>2, <2>1 DEF LoadGet, slots, producer, Waits, Held
    <3>2. ppc = "store"
      BY <3>1 DEF Waits, Held
    <3>. QED
      BY <3>1, <3>2 DEF HiddenIsNewer
  <2>2. CASE Bset
    <3>1. cpc = "store" /\ cmask' = cmask
      BY <1>2, <2>2 DEF Bset, consumer
    <3>2. cmask \subseteq Held
      BY <3>1 DEF Apart
    <3>3. pslot \notin Held /\ frame \notin Arrived
      BY <2>2, BsetHeld
    <3>4. Waits(t) /\ data[t] \in Arrived
      BY <1>2, <2>2, <3>1, <3>2, <3>3, BsetWaits DEF Whole
    <3>5. CASE s = pslot
      BY <2>2, <3>3, <3>4, <3>5, BsetWaits, ArrivedInOrder DEF Before
    <3>6. CASE s # pslot
      BY <1>2, <2>2, <3>1, <3>4, <3>6, BsetWaits DEF HiddenIsNewer
    <3>. QED
      BY <3>5, <3>6
  <2>3. CASE ~LoadGet /\ ~Bset
    <3>1. cpc = "store" /\ cmask' = cmask
      BY <1>2, <2>3 DEF Next, Put, Get, PutPtr, ClearUsed, ClearLast, Decode, Decoded, PutDone,
                        LoadPut, Callback, GetPtr, Copy, GetDone, Retry, vars, consumer
    <3>2. Keeps
      BY <2>3, <3>1, BsetOrCopyOrKeeps DEF Copy
    <3>. QED
      BY <1>2, <3>1, <3>2, KeepsWaits DEF HiddenIsNewer
  <2>. QED
    BY <2>1, <2>2, <2>3
<1>. QED
  BY <1>1, <1>2 DEF HiddenIsNewer

\* ajitter_get_ptr finds the oldest of what waits.
LEMMA GetPtrOldest ==
  ASSUME TypeOK, Shape, Apart, Whole, Stamped, InOrder, NoneAfterLast, HiddenIsNewer,
         NEW s \in OldestReady, left[s] > 0,
         NEW t \in Slot, Waits(t), t # s
  PROVE  data[s] < data[t]
<1>1. /\ s \in used /\ s \in Slot /\ stamp[s] <= last
      /\ \A q \in used : stamp[q] <= last => stamp[s] < stamp[q] \/ stamp[s] = stamp[q]
  BY OldestReadyType DEF TypeOK
<1>2. Waits(s)
  BY <1>1 DEF Waits, Apart
<1>3. /\ data[s] \in Arrived /\ data[t] \in Arrived /\ data[s] # data[t]
      /\ stamp[s] = Stamp(data[s]) /\ stamp[t] = Stamp(data[t])
  BY <1>1, <1>2 DEF Whole, Stamped
<1>4. CASE t \in used
  <2>1. stamp[t] <= last
    BY <1>3 DEF NoneAfterLast
  <2>2. ~(Stamp(data[t]) < Stamp(data[s]))
    <3>1. stamp[s] \in Int /\ stamp[t] \in Int
      BY <1>1 DEF TypeOK
    <3>. QED
      BY <1>1, <1>3, <1>4, <2>1, <3>1
  <2>. QED
    BY <1>3, <2>2, ArrivedInOrder DEF Before
<1>5. CASE t \notin used
  <2>1. ppc = "store"
    BY <1>5 DEF Waits, Held
  <2>. QED
    BY <1>1, <1>2, <1>5, <2>1 DEF HiddenIsNewer
<1>. QED
  BY <1>4, <1>5

LEMMA CopiesNext ==
  /\ TypeOK /\ Shape /\ Owned /\ Stamped /\ InOrder
  /\ NoneAfterLast /\ HiddenIsNewer /\ CopiesOldest
  /\ ~overrun' /\ [Next]_vars
  => CopiesOldest'
<1>. SUFFICES ASSUME TypeOK, Shape, Apart, Whole, Stamped, InOrder,
                     NoneAfterLast, HiddenIsNewer, CopiesOldest, ~overrun', [Next]_vars,
                     cpc' = "copy", left'[cslot'] > 0,
                     NEW t \in Slot, Waits(t)', t # cslot'
              PROVE  data'[cslot'] < data'[t]
  BY DEF CopiesOldest, Owned
<1>1. CASE GetPtr
  <2>1. cslot' \in OldestReady /\ left' = left /\ data' = data /\ Waits(t)
    BY <1>1 DEF GetPtr, slots, producer, Waits, Held
  <2>. QED
    BY <2>1, GetPtrOldest
<1>2. CASE Bset
  <2>1. cpc = "copy" /\ cslot' = cslot /\ data' = data /\ left' = left
    BY <1>2 DEF Bset, consumer
  <2>2. cslot \in Slot /\ Waits(cslot)
    BY <2>1 DEF Apart, Getting, Waits, TypeOK
  <2>3. CASE t = pslot
    <3>1. data[cslot] \in Arrived /\ data[t] = frame /\ frame \notin Arrived
      BY <1>2, <2>2, <2>3, BsetWaits, BsetHeld DEF Whole
    <3>. QED
      BY <2>1, <3>1, ArrivedInOrder DEF Before
  <2>4. CASE t # pslot
    BY <1>2, <2>1, <2>4, BsetWaits DEF CopiesOldest
  <2>. QED
    BY <2>3, <2>4
<1>3. CASE ~GetPtr /\ ~Bset
  <2>1. cpc = "copy" /\ cslot' = cslot
    BY <1>3 DEF Next, Put, Get, PutPtr, ClearUsed, ClearLast, Decode, Decoded, PutDone,
                LoadPut, Callback, LoadGet, Copy, GetDone, Retry, vars, consumer
  <2>2. Keeps
    BY <1>3, <2>1, BsetOrCopyOrKeeps DEF Copy
  <2>3. cslot \in Held'
    BY <2>1, ApartNext DEF Apart, Getting
  <2>4. left'[cslot] = left[cslot] /\ data'[cslot] = data[cslot]
    BY <2>2, <2>3 DEF Keeps
  <2>. QED
    BY <2>1, <2>2, <2>4, KeepsWaits DEF CopiesOldest
<1>. QED
  BY <1>1, <1>2, <1>3

LEMMA OutNext ==
  /\ TypeOK /\ Shape /\ Owned /\ InOrder /\ CopiesOldest /\ WaitsAreNewer /\ OutInOrder
  /\ ~overrun' /\ [Next]_vars
  => WaitsAreNewer' /\ OutInOrder'
<1>. SUFFICES ASSUME TypeOK, Shape, Apart, Whole, InOrder, CopiesOldest, WaitsAreNewer,
                     OutInOrder, ~overrun', [Next]_vars
              PROVE  WaitsAreNewer' /\ OutInOrder'
  BY DEF Owned
<1>1. CASE Bset
  <2>1. frame \notin Arrived
    BY <1>1, BsetHeld
  <2>2. \A i \in DOMAIN out : out[i][1] < frame
    BY <2>1, ArrivedInOrder DEF Whole, Before
  <2>3. WaitsAreNewer'
    BY <1>1, <2>2, BsetWaits DEF WaitsAreNewer
  <2>4. OutInOrder'
    BY <1>1, BsetWaits DEF OutInOrder, Older
  <2>. QED
    BY <2>3, <2>4
<1>2. CASE Copy
  <2>. USE <1>2
  <2>1. GetNow \in Nat /\ off[cslot] \in Nat /\ Len(out) \in Nat /\ cslot \in Slot
    BY CopyWaits, CopyOut
  <2>2. ASSUME NEW i \in DOMAIN out', NEW s \in Slot, Waits(s)'
        PROVE  out'[i][1] < data'[s] \/ (out'[i][1] = data'[s] /\ out'[i][2] <= off'[s])
    <3>1. Waits(s) /\ off[s] \in Nat /\ data' = data
      BY <2>2, CopyWaits, ConstantsType DEF TypeOK
    <3>2. off'[s] \in Nat /\ off[s] <= off'[s]
      BY <3>1, CopyWaits
    <3>3. CASE i \in DOMAIN out
      <4>1. out'[i] = out[i] /\ out[i][2] \in Nat
        BY <3>3, CopyOut DEF Shape, Unit
      <4>2. out[i][1] < data[s] \/ (out[i][1] = data[s] /\ out[i][2] <= off[s])
        BY <3>1, <3>3 DEF WaitsAreNewer
      <4>. QED
        BY <3>1, <3>2, <4>1, <4>2
    <3>4. CASE i \notin DOMAIN out
      <4>1. /\ i - Len(out) \in 1 .. GetNow /\ out'[i][1] = data[cslot]
            /\ out'[i][2] = off[cslot] + (i - Len(out))
        BY <3>4, CopyOut
      <4>2. CASE s = cslot
        <5>1. off'[cslot] = off[cslot] + GetNow
          BY CopyWaits
        <5>. QED
          BY <2>1, <3>1, <4>1, <4>2, <5>1
      <4>3. CASE s # cslot
        <5>1. GetNow > 0 /\ cpc = "copy"
          BY <2>1, <4>1 DEF Copy
        <5>2. left[cslot] > 0
          BY <5>1, CopyWaits DEF Waits
        <5>3. data[cslot] < data[s]
          BY <3>1, <4>3, <5>1, <5>2 DEF CopiesOldest
        <5>. QED
          BY <3>1, <4>1, <5>3
      <4>. QED
        BY <4>2, <4>3
    <3>. QED
      BY <3>3, <3>4
  <2>3. ASSUME NEW i \in DOMAIN out', NEW j \in DOMAIN out', i < j
        PROVE  Older(out'[i], out'[j])
    <3>1. i \in Int /\ j \in Int
      BY <2>1, CopyOut
    <3>2. CASE j \in DOMAIN out
      <4>1. i \in DOMAIN out
        BY <2>1, <2>3, <3>1, <3>2, CopyOut
      <4>. QED
        BY <2>3, <3>2, <4>1, CopyOut DEF OutInOrder
    <3>3. CASE j \notin DOMAIN out
      <4>1. /\ j - Len(out) \in 1 .. GetNow /\ out'[j][1] = data[cslot]
            /\ out'[j][2] = off[cslot] + (j - Len(out))
        BY <3>3, CopyOut
      <4>2. CASE i \in DOMAIN out
        <5>1. Waits(cslot)
          BY <2>1, <4>1, CopyWaits
        <5>2. out[i][1] < data[cslot] \/ (out[i][1] = data[cslot] /\ out[i][2] <= off[cslot])
          BY <2>1, <4>2, <5>1 DEF WaitsAreNewer
        <5>3. out'[i] = out[i] /\ out[i][2] \in Nat
          BY <4>2, CopyOut DEF Shape, Unit
        <5>4. j - Len(out) > 0 /\ j - Len(out) \in Int
          BY <2>1, <3>1, <4>1
        <5>. QED
          BY <2>1, <4>1, <5>2, <5>3, <5>4 DEF Older
      <4>3. CASE i \notin DOMAIN out
        <5>1. /\ i - Len(out) \in 1 .. GetNow /\ out'[i][1] = data[cslot]
              /\ out'[i][2] = off[cslot] + (i - Len(out))
          BY <4>3, CopyOut
        <5>. QED
          BY <2>1, <2>3, <3>1, <4>1, <5>1 DEF Older
      <4>. QED
        BY <4>2, <4>3
    <3>. QED
      BY <3>2, <3>3
  <2>4. WaitsAreNewer'
    BY <2>2 DEF WaitsAreNewer
  <2>5. OutInOrder'
    BY <2>3 DEF OutInOrder, Older
  <2>. QED
    BY <2>4, <2>5
<1>3. CASE Keeps
  <2>1. out' = out
    BY <1>3 DEF Keeps
  <2>. QED
    BY <1>3, <2>1, KeepsWaits DEF WaitsAreNewer, OutInOrder, Older
<1>. QED
  BY <1>1, <1>2, <1>3, BsetOrCopyOrKeeps

(***************************************************************************)
(* The theorems.                                                           *)
(***************************************************************************)
LEMMA InvInit == Init => IInv
<1>. SUFFICES ASSUME Init
              PROVE  IInv
  OBVIOUS
<1>1. /\ TypeOK /\ Shape /\ sent = <<>> /\ out = <<>> /\ used = {}
      /\ ppc = "idle" /\ cpc = "idle"
  BY ShapeInit DEF Init
<1>2. DOMAIN out = {} /\ Arrived = {}
  BY <1>1 DEF Arrived
<1>3. \A s \in Slot : ~Waits(s)
  BY <1>1 DEF Waits, Held
<1>4. Owned
  BY <1>1, <1>2, <1>3 DEF Owned, Apart, Putting, Getting, Held, Whole, PlayedBefore, Once
<1>5. Stamped /\ Ordered
  BY <1>1, <1>2, <1>3 DEF Stamped, Ordered, NoneAfterLast, HiddenIsNewer, CopiesOldest,
                          WaitsAreNewer, OutInOrder
<1>. QED
  BY <1>1, <1>4, <1>5 DEF IInv

LEMMA InvNext == IInv /\ [Next]_vars => IInv'
<1>. SUFFICES ASSUME IInv, [Next]_vars
              PROVE  IInv'
  OBVIOUS
<1>1. TypeOK /\ Shape /\ TypeOK' /\ Shape'
  BY ShapeNext DEF IInv
<1>2. ~overrun' => ~overrun
  BY DEF Next, Put, Get, PutPtr, ClearUsed, ClearLast, Decode, Decoded, PutDone, LoadPut, Bset,
         Callback, GetPtr, Copy, LoadGet, GetDone, Retry, vars, ghosts
<1>3. ASSUME ~overrun'
      PROVE  Owned' /\ Stamped'
  <2>1. Owned /\ Stamped
    BY <1>2, <1>3 DEF IInv
  <2>2. Apart' /\ Whole' /\ Stamped'
    BY <1>1, <1>3, <2>1, ApartNext, WholeNext, StampedNext DEF Owned
  <2>3. PlayedBefore' /\ Once'
    BY <1>1, <1>3, <2>1, PlayedNext DEF Owned
  <2>. QED
    BY <2>2, <2>3 DEF Owned
<1>4. ASSUME ~overrun', InOrder'
      PROVE  Ordered'
  <2>1. InOrder
    BY <1>1, <1>4, InOrderBack
  <2>2. Owned /\ Stamped /\ Ordered
    BY <1>2, <1>4, <2>1 DEF IInv
  <2>3. NoneAfterLast'
    BY <1>1, <1>4, <2>1, <2>2, LastNext DEF Owned, Ordered
  <2>4. HiddenIsNewer'
    BY <1>1, <1>4, <2>1, <2>2, HiddenNext DEF Ordered
  <2>5. CopiesOldest'
    BY <1>1, <1>4, <2>1, <2>2, CopiesNext DEF Ordered
  <2>6. WaitsAreNewer' /\ OutInOrder'
    BY <1>1, <1>4, <2>1, <2>2, OutNext DEF Ordered
  <2>. QED
    BY <2>3, <2>4, <2>5, <2>6 DEF Ordered
<1>. QED
  BY <1>1, <1>3, <1>4 DEF IInv

\* The invariant holds in every state.
THEOREM Invariance == Spec => []IInv
<1>. QED
  BY InvInit, InvNext, PTL DEF Spec

\* The fields of the buffer and of its threads stay in their ranges, an overrun or
\* an update that undoes another included: no copy leaves its chunk or its slot.
THEOREM TypeCorrect == Spec => []TypeOK
<1>1. IInv => TypeOK
  BY DEF IInv
<1>. QED
  BY <1>1, Invariance, PTL

\* Until the buffer overruns no unit is played twice or read while it is written.
THEOREM PlayedOnce == Spec => []NoneTwiceNoneTorn
<1>1. ASSUME IInv
      PROVE  NoneTwiceNoneTorn
  <2>1. ASSUME ~overrun, NEW i \in DOMAIN out
        PROVE  out[i][1] # Garbage
    <3>1. out[i][1] \in Arrived /\ Arrived \subseteq Frame
      BY <1>1, <2>1 DEF IInv, Owned, Whole, Shape, Arrived
    <3>. QED
      BY <3>1, ConstantsType DEF Frame, Garbage
  <2>2. ~overrun => Once
    BY <1>1 DEF IInv, Owned
  <2>. QED
    BY <2>1, <2>2 DEF NoneTwiceNoneTorn, Once
<1>. QED
  BY <1>1, Invariance, PTL

\* Until it overruns, frames that arrive in order are played in order.
THEOREM OrderKept == Spec => []PlayedInOrder
<1>1. IInv => PlayedInOrder
  BY DEF IInv, Ordered, OutInOrder, PlayedInOrder
<1>. QED
  BY <1>1, Invariance, PTL

(***************************************************************************)
(* With atomic bits nothing is lost.  A slot in use has the units of its   *)
(* frame that were not played, so it is empty when it is dropped.          *)
(***************************************************************************)
Full == \A s \in used : left[s] + off[s] = FrameLen

Kept ==
  \A f \in Arrived, n \in 1 .. FrameLen :
    Copied(f, n) \/ \E s \in used : data[s] = f /\ off[s] < n

AllKept ==
  /\ apple => cpc # "store"
  /\ apple /\ ~overrun => Full /\ Kept

LEMMA BuildStays ==
  ASSUME [Next]_vars
  PROVE  apple' = apple /\ (~overrun' => ~overrun)
<1>. USE DEF Next, Put, Get, PutPtr, ClearUsed, ClearLast, Decode, Decoded, PutDone, LoadPut,
             Bset, Callback, GetPtr, Copy, LoadGet, GetDone, Retry, vars, ghosts
<1>1. apple' = apple
  OBVIOUS
<1>2. ~overrun' => ~overrun
  OBVIOUS
<1>. QED
  BY <1>1, <1>2

\* What a step does to the slots in use: a put adds its own, a drop takes the one of the
\* thread that plays, a copy moves units, and nothing else touches one.
LEMMA UsedSteps ==
  ASSUME TypeOK, Shape, Apart, apple, ~overrun', [Next]_vars
  PROVE  \/ Bset \/ Copy \/ GetDone
         \/ /\ used' = used /\ sent' = sent /\ out' = out
            /\ \A s \in used : left'[s] = left[s] /\ off'[s] = off[s] /\ data'[s] = data[s]
<1>1. Held = used
  BY DEF Apart, Held
<1>2. CASE Keeps
  <2>1. \A s \in used' :
          s \in used /\ left'[s] = left[s] /\ off'[s] = off[s] /\ data'[s] = data[s]
    BY <1>1, <1>2, ApartNext DEF Keeps, Apart
  <2>2. Bset \/ GetDone \/ used' = used
    BY DEF Next, Put, Get, PutPtr, ClearUsed, ClearLast, Decode, Decoded, PutDone, LoadPut, Bset,
           Callback, GetPtr, Copy, LoadGet, Retry, vars, slots, Apart
  <2>. QED
    BY <1>2, <2>1, <2>2 DEF Keeps
<1>. QED
  BY <1>2, BsetOrCopyOrKeeps

LEMMA AllKeptNext ==
  /\ TypeOK /\ Shape /\ Apart /\ Whole /\ Full /\ Kept
  /\ apple /\ cpc # "store" /\ ~overrun' /\ [Next]_vars
  => Full' /\ Kept'
<1>. SUFFICES ASSUME TypeOK, Shape, Apart, Whole, Full, Kept,
                     apple, cpc # "store", ~overrun', [Next]_vars
              PROVE  Full' /\ Kept'
  OBVIOUS
<1>0. Held = used /\ used \subseteq Slot
  BY DEF Apart, Held, TypeOK
<1>1. CASE Bset
  <2>1. used' = used \cup {pslot} /\ Arrived' = Arrived \cup {frame}
    BY <1>0, <1>1, BsetHeld, BsetArrived
  <2>2. /\ left' = left /\ off' = off /\ data' = data /\ out' = out
        /\ data[pslot] = frame /\ off[pslot] = 0 /\ left[pslot] = FrameLen
    BY <1>1, BsetWaits DEF Bset, Whole
  <2>3. Full'
    BY <2>1, <2>2, ConstantsType DEF Full
  <2>4. ASSUME NEW f \in Arrived', NEW n \in 1 .. FrameLen
        PROVE  Copied(f, n)' \/ \E s \in used' : data'[s] = f /\ off'[s] < n
    BY <2>1, <2>2, ConstantsType DEF Kept, Copied
  <2>. QED
    BY <2>3, <2>4 DEF Kept
<1>2. CASE Copy
  <2>1. /\ data' = data /\ sent' = sent /\ used' = used
        /\ \A s \in Slot : s # cslot => off'[s] = off[s] /\ left'[s] = left[s]
        /\ off'[cslot] = off[cslot] + GetNow /\ left'[cslot] = left[cslot] - GetNow
        /\ cslot \in Slot /\ off[cslot] \in Nat /\ left[cslot] \in Nat /\ GetNow \in Nat
    BY <1>2, CopyWaits, ConstantsType DEF Copy, TypeOK
  <2>2. Full'
    <3>1. ASSUME NEW s \in used
          PROVE  left'[s] + off'[s] = FrameLen
      BY <1>0, <2>1 DEF Full
    <3>. QED
      BY <2>1, <3>1 DEF Full
  <2>3. ASSUME NEW f \in Arrived, NEW n \in 1 .. FrameLen
        PROVE  Copied(f, n)' \/ \E s \in used' : data'[s] = f /\ off'[s] < n
    <3>1. CASE Copied(f, n)
      BY <1>2, <3>1, CopyOut DEF Copied
    <3>2. CASE \E s \in used : s # cslot /\ data[s] = f /\ off[s] < n
      BY <1>0, <2>1, <3>2
    <3>3. CASE cslot \in used /\ data[cslot] = f /\ off[cslot] < n /\ off[cslot] + GetNow < n
      BY <2>1, <3>3
    <3>4. CASE data[cslot] = f /\ off[cslot] < n /\ n <= off[cslot] + GetNow
      <4>. DEFINE i == Len(out) + (n - off[cslot])
      <4>1. n - off[cslot] \in 1 .. GetNow /\ Len(out) \in Nat
        BY <1>2, <2>1, <3>4, CopyOut
      <4>2. i \in DOMAIN out' /\ i \notin DOMAIN out /\ i - Len(out) = n - off[cslot]
        BY <1>2, <2>1, <4>1, CopyOut
      <4>3. out'[i][1] = data[cslot] /\ out'[i][2] = off[cslot] + (i - Len(out))
        BY <1>2, <4>2, CopyOut
      <4>4. out'[i] \in Unit
        BY <4>2, ShapeNext DEF Shape
      <4>5. out'[i] = <<f, n>>
        BY <2>1, <3>4, <4>2, <4>3, <4>4 DEF Unit
      <4>. QED
        BY <4>2, <4>5 DEF Copied
    <3>. QED
      BY <2>1, <3>1, <3>2, <3>3, <3>4 DEF Kept
  <2>4. Arrived' = Arrived
    BY <2>1 DEF Arrived
  <2>. QED
    BY <2>2, <2>3, <2>4 DEF Kept
<1>3. CASE GetDone
  <2>1. /\ used' = used \ {cslot} /\ left[cslot] = 0 /\ cslot \in used
        /\ left' = left /\ off' = off /\ data' = data /\ out' = out /\ Arrived' = Arrived
    BY <1>3 DEF GetDone, Xor, Apart, Getting, ghosts, Arrived
  <2>2. off[cslot] = FrameLen
    BY <1>0, <2>1, ConstantsType DEF Full, TypeOK
  <2>3. \A n \in 1 .. FrameLen : ~(off[cslot] < n)
    BY <2>2, ConstantsType
  <2>. QED
    BY <2>1, <2>3 DEF Full, Kept, Copied
<1>4. CASE /\ used' = used /\ sent' = sent /\ out' = out
           /\ \A s \in used : left'[s] = left[s] /\ off'[s] = off[s] /\ data'[s] = data[s]
  BY <1>4 DEF Full, Kept, Arrived, Copied
<1>. QED
  BY <1>1, <1>2, <1>3, <1>4, UsedSteps

\* AllKept is inductive together with IInv.
LEMMA AllKeptAlways == Spec => []AllKept
<1>1. Init => AllKept
  BY DEF Init, AllKept, Full, Kept, Arrived
<1>2. IInv /\ AllKept /\ [Next]_vars => AllKept'
  <2>. SUFFICES ASSUME IInv, AllKept, [Next]_vars, apple'
                PROVE  cpc' # "store" /\ (~overrun' => Full' /\ Kept')
    BY DEF AllKept
  <2>1. apple /\ (~overrun' => ~overrun)
    BY BuildStays
  <2>2. cpc # "store"
    BY <2>1 DEF AllKept
  <2>3. cpc' # "store"
    BY <2>1, <2>2 DEF Next, Put, Get, PutPtr, ClearUsed, ClearLast, Decode, Decoded, PutDone,
                     LoadPut, Bset, Callback, GetPtr, Copy, LoadGet, GetDone, Retry, vars, consumer
  <2>4. ~overrun' => Full' /\ Kept'
    BY <2>1, <2>2, AllKeptNext DEF IInv, Owned, AllKept
  <2>. QED
    BY <2>3, <2>4
<1>. QED
  BY <1>1, <1>2, Invariance, PTL DEF Spec

\* The safety half of EachIsPlayed: on Apple each unit of a frame that arrived was heard, was
\* in a chunk that the callback silenced, or is in a slot in use, until the buffer overruns.
THEOREM NoUnitLost == Spec => []NoneLost
<1>1. IInv /\ AllKept => NoneLost
  <2>. SUFFICES ASSUME IInv, AllKept, apple, ~overrun, NEW f \in Arrived, NEW n \in 1 .. FrameLen
                PROVE  \/ Copied(f, n)
                       \/ \E s \in used : data[s] = f /\ off[s] < n /\ n <= off[s] + left[s]
    BY DEF NoneLost, Copied, Heard, Silenced
  <2>1. \A s \in used : left[s] \in Nat /\ off[s] \in Nat /\ n <= off[s] + left[s]
    BY ConstantsType DEF AllKept, Full, IInv, TypeOK
  <2>. QED
    BY <2>1 DEF AllKept, Kept
<1>. QED
  BY <1>1, AllKeptAlways, Invariance, PTL

\* ajitter_get_ptr finds a slot if one in use is ready.
LEMMA ReadyIsFound ==
  ASSUME TypeOK, NEW s \in used, stamp[s] <= last
  PROVE  OldestReady # {}
<1>. DEFINE ready == {q \in used : stamp[q] <= last}
            stamps == {stamp[q] : q \in ready}
<1>1. used \subseteq Slot /\ \A q \in Slot : stamp[q] \in Nat
  BY ConstantsType DEF TypeOK
<1>2. stamps \in SUBSET Nat /\ stamps # {}
  BY <1>1
<1>3. PICK m \in stamps : \A y \in stamps : m <= y
  BY <1>2, LeastNat
<1>. DEFINE below == {AJD - q : q \in {p \in ready : stamp[p] = m}}
<1>4. below \in SUBSET Nat /\ below # {}
  BY <1>1, ConstantsType DEF Slot
<1>5. PICK k \in below : \A y \in below : k <= y
  BY <1>4, LeastNat
<1>6. PICK q \in ready : stamp[q] = m /\ k = AJD - q
  OBVIOUS
<1>7. ASSUME NEW p \in ready
      PROVE  stamp[q] < stamp[p] \/ (stamp[q] = stamp[p] /\ p <= q)
  <2>1. m <= stamp[p] /\ m \in Nat /\ stamp[p] \in Nat
    BY <1>1, <1>2, <1>3
  <2>2. CASE stamp[p] = m
    <3>1. AJD - p \in below
      BY <2>2
    <3>2. AJD - q <= AJD - p /\ p \in Nat /\ q \in Nat
      BY <1>1, <1>5, <1>6, <3>1 DEF Slot
    <3>. QED
      BY <1>6, <2>2, <3>2, ConstantsType
  <2>. QED
    BY <1>6, <2>1, <2>2
<1>. QED
  BY <1>6, <1>7 DEF OldestReady

\* Silence is played over units of frames only when all that arrived has been copied out,
\* while frames come in order and the buffer has not overrun.
THEOREM SilenceIsDry == Spec => SilencedWhenDry
<1>1. ASSUME IInv, AllKept, [Next]_vars, silent' # silent, ~overrun, InOrder,
             NEW f \in Arrived, NEW n \in 1 .. FrameLen
      PROVE  Copied(f, n)
  <2>1. OldestReady = {} /\ apple
    BY <1>1 DEF Next, Put, Get, PutPtr, ClearUsed, ClearLast, Decode, Decoded, PutDone,
                LoadPut, Bset, Callback, GetPtr, Unfilled, Copy, LoadGet, GetDone, Retry,
                vars, ghosts
  <2>2. TypeOK /\ Apart /\ Stamped /\ NoneAfterLast /\ Whole /\ Full /\ Kept
    BY <1>1, <2>1 DEF IInv, Owned, Ordered, AllKept
  <2>. SUFFICES ASSUME NEW s \in used, data[s] = f, off[s] < n
                PROVE  FALSE
    BY <2>2 DEF Kept
  <2>3. s \in Slot /\ s \in Held /\ left[s] > 0
    BY <2>1, <2>2, ConstantsType DEF TypeOK, Apart, Held, Full
  <2>4. stamp[s] <= last
    BY <2>2, <2>3 DEF Stamped, Waits, NoneAfterLast
  <2>. QED
    BY <2>1, <2>2, <2>4, ReadyIsFound
<1>2. IInv /\ AllKept /\ [Next]_vars
        => [silent' # silent /\ ~overrun /\ InOrder =>
              \A f \in Arrived, n \in 1 .. FrameLen : Copied(f, n)]_vars
  BY <1>1
<1>. QED
  BY <1>2, AllKeptAlways, Invariance, PTL DEF Spec, SilencedWhenDry
=============================================================================
