------------------------------- MODULE Jitter -------------------------------
(***************************************************************************)
(* The jitter buffer, ajitter.c, between the thread that puts the frames   *)
(* of RTP packets (rtp_recv_*, in the event loop) and the sound thread     *)
(* that plays them (MyOutputBusRenderCallack on Apple, sles_write on       *)
(* Android).  There is no lock: the bits of `used' say whose a slot is.    *)
(*                                                                         *)
(* A frame is FrameLen units long; its stamp is the 16 bit sequence number *)
(* of its packet.  A scan of the slots is one step: the other thread,      *)
(* which moves a bit once in a frame, is taken not to move two within it.  *)
(***************************************************************************)
EXTENDS Integers, FiniteSets, FiniteSetsExt, Sequences

CONSTANTS
  AJD,        \* slots
  FrameLen,   \* units of a frame
  Wants,      \* units a callback may ask for
  MaxFrame,   \* bound: frames that are sent
  Late,       \* bound: places a frame may arrive too early
  Wrap        \* sequence numbers are below this; 2^16 in RTP

ASSUME JitterAssumption ==
  /\ {AJD, FrameLen, MaxFrame, Wrap} \subseteq Nat \ {0}
  /\ Late \in Nat
  /\ Wants \subseteq Nat \ {0}

Slot == 0 .. AJD - 1
Frame == 1 .. MaxFrame
Garbage == 0        \* the data of a slot that is being written
Stamp(f) == f % Wrap

VARIABLES
  apple,            \* the build: atomic XOR, or |= and &=; never changes
  used, stamp, last, left, off, data, outHave,  \* struct ajitter and slots
  ppc, pslot, pmask, frame,     \* the thread that puts
  cpc, cslot, cmask, want,      \* the thread that gets
  sent,             \* ghost: the frames put, in order of arrival
  out,              \* ghost: the units copied out, <<frame, unit>>
  silent,           \* ghost: the places of out that silence was written over
  overrun           \* ghost: ajitter_put_ptr has found the buffer full

slots == <<used, stamp, last, left, off, data>>
producer == <<ppc, pslot, pmask, frame>>
consumer == <<cpc, cslot, cmask, want, outHave>>
ghosts == <<sent, out, silent, overrun>>
vars == <<apple, slots, producer, consumer, ghosts>>

\* ajitter_init
Init ==
  /\ apple \in BOOLEAN
  /\ used = {} /\ last = 0
  /\ stamp = [s \in Slot |-> 0]
  /\ left = [s \in Slot |-> 0] /\ off = [s \in Slot |-> 0]
  /\ data = [s \in Slot |-> Garbage]
  /\ outHave = 0
  /\ ppc = "idle" /\ pslot = 0 /\ pmask = {} /\ frame = Garbage
  /\ cpc = "idle" /\ cslot = 0 /\ cmask = {} /\ want \in Wants
  /\ sent = <<>> /\ out = <<>> /\ silent = {} /\ overrun = FALSE

(***************************************************************************)
(* The thread that puts.                                                   *)
(***************************************************************************)
Arrived == {sent[i] : i \in DOMAIN sent}

\* frames arrive once each, at most Late places before an older one
MayArrive(f) == f \notin Arrived /\ \A g \in Frame : g + Late < f => g \in Arrived

\* mutant: the first slot, used or not
AnySlot == [full |-> FALSE, slot |-> 0]

\* ajitter_put_ptr, the search
FreeSlot ==
  IF used = Slot THEN [full |-> TRUE, slot |-> 0]
                 ELSE [full |-> FALSE, slot |-> Min(Slot \ used)]

\* ajitter_put_ptr for a packet
PutPtr(f) ==
  /\ ppc = "idle" /\ MayArrive(f)
  /\ frame' = f
  /\ pslot' = FreeSlot.slot
  /\ ppc' = IF FreeSlot.full THEN "full" ELSE "decode"
  /\ overrun' = (overrun \/ FreeSlot.full)
  /\ UNCHANGED <<apple, slots, pmask, consumer, sent, out, silent>>

\* no slot is free: used = 1, then last = 0
ClearUsed ==
  /\ ppc = "full" /\ ppc' = "cleared"
  /\ used' = {0}
  /\ UNCHANGED <<apple, stamp, last, left, off, data, pslot, pmask, frame, consumer, ghosts>>

ClearLast ==
  /\ ppc = "cleared" /\ ppc' = "decode"
  /\ last' = 0
  /\ UNCHANGED <<apple, used, stamp, left, off, data, pslot, pmask, frame, consumer, ghosts>>

\* the codec begins to write the slot, and is done
Decode ==
  /\ ppc = "decode" /\ ppc' = "decoding"
  /\ data' = [data EXCEPT ![pslot] = Garbage]
  /\ UNCHANGED <<apple, used, stamp, last, left, off, pslot, pmask, frame, consumer, ghosts>>

Decoded ==
  /\ ppc = "decoding" /\ ppc' = "decoded"
  /\ data' = [data EXCEPT ![pslot] = frame]
  /\ left' = [left EXCEPT ![pslot] = FrameLen]
  /\ off' = [off EXCEPT ![pslot] = 0]
  /\ UNCHANGED <<apple, used, stamp, last, pslot, pmask, frame, consumer, ghosts>>

\* ajitter_put_done up to bset, and the read of |=
PutDone ==
  /\ ppc = "decoded" /\ ppc' = "bset"
  /\ stamp' = [stamp EXCEPT ![pslot] = Stamp(frame)]
  /\ last' = Stamp(frame)
  /\ UNCHANGED <<apple, used, left, off, data, pslot, pmask, frame, consumer, ghosts>>

LoadPut ==
  /\ ppc = "bset" /\ ~apple /\ ppc' = "store"
  /\ pmask' = used
  /\ UNCHANGED <<apple, slots, pslot, frame, consumer, ghosts>>

Xor(set, s) == IF s \in set THEN set \ {s} ELSE set \cup {s}

\* bset: the atomic XOR, or the write of |=
Bset ==
  /\ \/ ppc = "bset" /\ apple /\ used' = Xor(used, pslot)
     \/ ppc = "store" /\ used' = pmask \cup {pslot}
  /\ ppc' = "idle"
  /\ sent' = Append(sent, frame)
  /\ UNCHANGED <<apple, stamp, last, left, off, data, pslot, pmask, frame, consumer, out, silent, overrun>>

(***************************************************************************)
(* The thread that gets: ajitter_copy_chunk.                               *)
(***************************************************************************)
\* a callback; on Apple it asks for any number of units and starts a chunk anew, elsewhere
\* it goes on with the one that the last callback could not fill
Callback ==
  /\ cpc = "idle" /\ cpc' = "get"
  /\ IF apple THEN outHave' = 0 /\ want' \in Wants
              ELSE UNCHANGED <<outHave, want>>
  /\ UNCHANGED <<apple, slots, producer, cslot, cmask, ghosts>>

\* mutant: the newest first
NewestReady == {s \in used : stamp[s] <= last /\ \A q \in used : stamp[q] <= stamp[s]}

\* mutant: < for <=, so that the frame put last is never ready
ReadyBeforeLast ==
  LET ready == {s \in used : stamp[s] < last} IN
  {s \in ready : \A q \in ready : stamp[s] <= stamp[q]}

\* what ajitter_get_ptr may return: of equal stamps it takes the last slot
OldestReady ==
  LET ready == {s \in used : stamp[s] <= last} IN
  {s \in ready : \A q \in ready : \/ stamp[s] < stamp[q]
                                  \/ stamp[s] = stamp[q] /\ q <= s}

\* the units copied to a chunk that is not full; on Apple the callback then writes
\* silence over all of it
Unfilled == IF apple THEN {i \in DOMAIN out : i > Len(out) - outHave} ELSE {}

\* ajitter_get_ptr; without a slot the callback plays silence
GetPtr ==
  /\ cpc = "get"
  /\ IF OldestReady = {}
     THEN cpc' = "idle" /\ silent' = silent \cup Unfilled /\ UNCHANGED cslot
     ELSE cpc' = "copy" /\ cslot' \in OldestReady /\ UNCHANGED silent
  /\ UNCHANGED <<apple, slots, producer, cmask, want, outHave, sent, out, overrun>>

\* mutant: the whole packet, whatever the chunk has room for
GetAll == left[cslot]

\* get_now
GetNow == Min({want - outHave, left[cslot]})

\* memcpy and the counters of the packet
Copy ==
  LET now == GetNow IN
  /\ cpc = "copy"
  /\ out' = out \o [i \in 1 .. now |-> <<data[cslot], off[cslot] + i>>]
  /\ left' = [left EXCEPT ![cslot] = @ - now]
  /\ off' = [off EXCEPT ![cslot] = @ + now]
  /\ outHave' = outHave + now
  /\ cpc' = IF left'[cslot] < 1 THEN "bdrop" ELSE "next"
  /\ UNCHANGED <<apple, used, stamp, last, data, producer, cslot, cmask, want, sent, silent, overrun>>

LoadGet ==
  /\ cpc = "bdrop" /\ ~apple /\ cpc' = "store"
  /\ cmask' = used
  /\ UNCHANGED <<apple, slots, producer, cslot, want, outHave, ghosts>>

\* mutant: a finished slot stays used
KeepSlot(mask) == mask

\* what &= leaves of the bits it read
DropSlot(mask) == mask \ {cslot}

\* ajitter_get_done: the atomic XOR, or the write of &=
GetDone ==
  /\ \/ cpc = "bdrop" /\ apple /\ used' = Xor(used, cslot)
     \/ cpc = "store" /\ used' = DropSlot(cmask)
  /\ cpc' = "next"
  /\ UNCHANGED <<apple, stamp, last, left, off, data, producer, cslot, cmask, want, outHave, ghosts>>

\* goto retry until the chunk is full
Retry ==
  /\ cpc = "next"
  /\ IF outHave < want THEN cpc' = "get" /\ UNCHANGED outHave
                       ELSE cpc' = "idle" /\ outHave' = 0
  /\ UNCHANGED <<apple, slots, producer, cslot, cmask, want, ghosts>>

Put == ClearUsed \/ ClearLast \/ Decode \/ Decoded \/ PutDone \/ LoadPut \/ Bset
Get == Callback \/ GetPtr \/ Copy \/ LoadGet \/ GetDone \/ Retry

Next ==
  \/ \E f \in Frame : PutPtr(f)
  \/ Put
  \/ Get

\* A packet is handled to its end, and the sound device keeps calling.
Spec == Init /\ [][Next]_vars /\ WF_vars(Put) /\ WF_vars(Get)

(***************************************************************************)
(* Properties.                                                             *)
(***************************************************************************)
Pcs == {"idle", "full", "cleared", "decode", "decoding", "decoded", "bset", "store",
        "get", "copy", "bdrop", "next"}

TypeOK ==
  /\ apple \in BOOLEAN /\ overrun \in BOOLEAN
  /\ {used, pmask, cmask} \subseteq SUBSET Slot
  /\ {pslot, cslot} \subseteq Slot
  /\ stamp \in [Slot -> 0 .. Wrap - 1] /\ last \in 0 .. Wrap - 1
  /\ left \in [Slot -> 0 .. FrameLen] /\ off \in [Slot -> 0 .. FrameLen]
  /\ data \in [Slot -> Frame \cup {Garbage}]
  /\ frame \in Frame \cup {Garbage}
  /\ {ppc, cpc} \subseteq Pcs
  /\ want \in Wants /\ outHave \in 0 .. want
  /\ silent \subseteq DOMAIN out

Before(f, g) == f < g /\ Stamp(f) < Stamp(g)

\* The frames came in order so far, and so does the one being put.
InOrder ==
  /\ \A i, j \in DOMAIN sent : i < j => Before(sent[i], sent[j])
  /\ \A i \in DOMAIN sent : frame # sent[i] => Before(sent[i], frame)

\* Until the buffer overruns no unit is copied out twice and none is read while it
\* is written: although neither thread locks, and |= and &= may undo what the
\* other thread did to another bit.
NoneTwiceNoneTorn ==
  ~overrun => /\ \A i, j \in DOMAIN out : out[i] = out[j] => i = j
              /\ \A i \in DOMAIN out : out[i][1] # Garbage

Older(u, v) == u[1] < v[1] \/ (u[1] = v[1] /\ u[2] < v[2])

\* Frames that arrive in order are copied out in order, until the buffer overruns or
\* the sequence numbers wrap: the slots are filled and freed in any order.
PlayedInOrder ==
  ~overrun /\ InOrder => \A i, j \in DOMAIN out : i < j => Older(out[i], out[j])

Copied(f, n) == \E i \in DOMAIN out : out[i] = <<f, n>>
Heard(f, n) == \E i \in DOMAIN out \ silent : out[i] = <<f, n>>
Silenced(f, n) == \E i \in silent : out[i] = <<f, n>>

\* no frame that came later has a smaller stamp
NotPassed(f) == \E i \in DOMAIN sent :
  sent[i] = f /\ \A j \in DOMAIN sent : j > i => Stamp(f) <= Stamp(sent[j])

\* With atomic bits each unit of a frame is heard in the end, or was in a chunk that its
\* callback could not fill and played as silence, unless a frame with a smaller
\* number comes after it or the buffer overruns.
EachIsPlayed ==
  \A f \in Frame :
    (apple /\ f \in Arrived) ~> \/ \A n \in 1 .. FrameLen : Heard(f, n) \/ Silenced(f, n)
                               \/ ~NotPassed(f) \/ overrun

\* With atomic bits no unit is lost but to silence: until the buffer overruns each unit of
\* a frame that arrived was heard, was silenced with the chunk it was in, or is in a
\* slot in use that holds the frame, still to be copied.
NoneLost ==
  apple /\ ~overrun =>
    \A f \in Arrived, n \in 1 .. FrameLen :
      \/ Heard(f, n) \/ Silenced(f, n)
      \/ \E s \in used : data[s] = f /\ off[s] < n /\ n <= off[s] + left[s]

\* Units are silenced only when the buffer has run dry: while frames come in order and it
\* has not overrun, all that arrived was copied out by then.
SilencedWhenDry ==
  [][silent' # silent /\ ~overrun /\ InOrder =>
       \A f \in Arrived, n \in 1 .. FrameLen : Copied(f, n)]_vars

\* No slot is lost to both threads for good, whatever an overrun or an update of
\* the bits that undoes another leaves behind: each comes free while frames
\* arrive in order.
SlotsComeFree ==
  \A s \in Slot : s \in used ~> (s \notin used \/ ~InOrder)
=============================================================================
