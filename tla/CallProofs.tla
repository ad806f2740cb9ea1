----------------------------- MODULE CallProofs -----------------------------
(***************************************************************************)
(* Proofs about Call for any number of calls, any assignment of ckeys and  *)
(* any set of failures.                                                    *)
(***************************************************************************)
EXTENDS Call, SequenceTheorems, TLAPS

(***************************************************************************)
(* The inductive invariant, one call at a time.                            *)
(***************************************************************************)
LiveInv(k) ==
  /\ k.cdir \in {"IN", "OUT"}
  /\ k.reason = "NONE"
  /\ k.filed = <<>>
  /\ k.told # <<>>
  /\ \A i \in DOMAIN k.told : k.told[i].msg = IF i = 1 THEN "add" ELSE "est"
  /\ Len(k.told) > 1 => "EST" \in k.cstate
  /\ "ICE" \in k.cstate => k.media \in {"ready", "started"}
  /\ "EST" \in k.cstate => "ICE" \in k.cstate /\ k.cstate \cap RING = {}
  /\ k.sess \in {"inviting", "answered", "up"} => "ICE" \in k.cstate
  /\ k.sess \in {"answered", "up"} => "EST" \in k.cstate
  /\ k.sess = "inviting" => k.cdir = "OUT"
  /\ (k.cdir = "IN" /\ "IN_RING" \notin k.cstate) => k.asked
  /\ k.media = "started" => /\ {"EST", "FLOW", "MEDIA"} \subseteq k.cstate
                            /\ k.sess \in {"inviting", "up"}
  /\ "FLOW" \in k.cstate => k.media = "started"

FreedInv(k) ==
  /\ k.sess = "null"
  /\ k.media = "null"
  /\ k.cstate \cap ALIVE = {}
  /\ Len(k.filed) = 1
  /\ Len(k.told) > 1
  /\ \A i \in DOMAIN k.told :
       k.told[i].msg = IF i = 1 THEN "add" ELSE IF i = Len(k.told) THEN "del" ELSE "est"

CallInv(k) ==
  /\ k.mem = "unused" => k = NoCall
  /\ k.mem = "alloc"  => LiveInv(k)
  /\ k.mem = "freed"  => FreedInv(k)

IInv ==
  /\ TypeOK
  /\ \A c \in Call : CallInv(call[c])
  /\ ListIsLive

(***************************************************************************)
(* What each handler does to a call.                                       *)
(***************************************************************************)
EndReason(k) ==
  IF k.reason # "NONE" THEN k.reason ELSE IF "EST" \in k.cstate THEN "OK" ELSE "HANG"

\* what tcsipcall_hangup may be called on: a live call, or one CALL_BYE has
\* just taken the EST bit from and given a reason
Endable(k) ==
  /\ k \in Struct
  /\ k.mem = "alloc"
  /\ k.filed = <<>>
  /\ k.told # <<>>
  /\ \A i \in DOMAIN k.told : k.told[i].msg = IF i = 1 THEN "add" ELSE "est"

LEMMA NoCallType == NoCall \in Struct
<1>. 0 \in 0 .. MaxEarly
  BY CallAssumption
<1>. <<>> \in Seq(Report) /\ <<>> \in Seq({"OK", "HANG"})
  OBVIOUS
<1>. QED
  BY DEF NoCall, Struct, Flags, Dirs, Reasons, Sess, Media

\* the fields a report leaves alone
SameBut(h, k) ==
  /\ h.mem = k.mem       /\ h.cdir = k.cdir   /\ h.cstate = k.cstate
  /\ h.reason = k.reason /\ h.sess = k.sess   /\ h.media = k.media
  /\ h.tmr = k.tmr       /\ h.early = k.early /\ h.asked = k.asked

LEMMA ChangedWhenOver ==
  ASSUME NEW k \in Struct, ~IsAlive(k)
  PROVE  /\ Changed(k) \in Struct
         /\ SameBut(Changed(k), k)
         /\ Changed(k).told = Append(k.told, [msg |-> "del", reason |-> k.reason])
         /\ Changed(k).filed = Append(k.filed, IF k.reason = "OK" THEN "OK" ELSE "HANG")
<1>. DEFINE d == [msg |-> "del", reason |-> k.reason]
            v == IF k.reason = "OK" THEN "OK" ELSE "HANG"
            t == Append(k.told, d)
            f == Append(k.filed, v)
            r == [k EXCEPT !.told = t]
<1>1. d \in Report /\ v \in {"OK", "HANG"}
  BY DEF Struct, Report
<1>2. k.told \in Seq(Report) /\ k.filed \in Seq({"OK", "HANG"})
  BY DEF Struct
<1>3. t \in Seq(Report) /\ f \in Seq({"OK", "HANG"})
  BY <1>1, <1>2
<1>. HIDE DEF t, f
<1>4. r \in Struct /\ SameBut(r, k) /\ r.told = t /\ r.filed = k.filed
  BY <1>3 DEF Struct, SameBut
<1>5. ReportChange(k) = r
  BY DEF ReportChange, t
<1>6. ~IsAlive(r)
  BY <1>4 DEF IsAlive, SameBut
<1>. DEFINE h == [r EXCEPT !.filed = f]
<1>7. Changed(k) = h
  BY <1>4, <1>5, <1>6 DEF Changed, CallHistory, SameBut, f
<1>. HIDE DEF r
<1>8. h \in Struct /\ SameBut(h, r) /\ h.told = r.told /\ h.filed = f
  BY <1>3, <1>4 DEF Struct, SameBut
<1>. QED
  BY <1>4, <1>7, <1>8 DEF SameBut, t, f

LEMMA ChangedWhenEst ==
  ASSUME NEW k \in Struct, "EST" \in k.cstate
  PROVE  /\ Changed(k) \in Struct
         /\ SameBut(Changed(k), k)
         /\ Changed(k).told = Append(k.told, [msg |-> "est", reason |-> "NONE"])
         /\ Changed(k).filed = k.filed
<1>. DEFINE t == Append(k.told, [msg |-> "est", reason |-> "NONE"])
            r == [k EXCEPT !.told = t]
<1>1. [msg |-> "est", reason |-> "NONE"] \in Report /\ k.told \in Seq(Report)
  BY DEF Struct, Report, Reasons
<1>2. t \in Seq(Report)
  BY <1>1
<1>3. IsAlive(k)
  BY DEF IsAlive, ALIVE
<1>4. ReportChange(k) = r
  BY <1>3 DEF ReportChange
<1>. HIDE DEF t
<1>5. r \in Struct /\ SameBut(r, k) /\ r.told = t /\ r.filed = k.filed
  BY <1>2 DEF Struct, SameBut
<1>6. IsAlive(r)
  BY <1>3, <1>5 DEF IsAlive, SameBut
<1>. QED
  BY <1>4, <1>5, <1>6 DEF Changed, CallHistory, t

LEMMA HangupFields ==
  ASSUME NEW k \in Struct
  PROVE  LET h == Hangup(k) IN
         /\ h \in Struct
         /\ h.mem = "freed" /\ h.cdir = k.cdir /\ h.cstate = k.cstate \ ALIVE
         /\ h.reason = EndReason(k) /\ h.sess = "null" /\ h.media = "null"
         /\ h.tmr = k.tmr /\ h.early = k.early /\ h.asked = k.asked
         /\ h.told = Append(k.told, [msg |-> "del", reason |-> EndReason(k)])
         /\ h.filed = Append(k.filed, IF EndReason(k) = "OK" THEN "OK" ELSE "HANG")
<1>. DEFINE e == [k EXCEPT !.sess = "null", !.reason = EndReason(k),
                           !.cstate = @ \ ALIVE, !.media = "null"]
<1>1. EndReason(k) \in Reasons
  BY DEF Struct, EndReason, Reasons
<1>2. e \in Struct
  BY <1>1 DEF Struct, Sess, Media
<1>3. /\ e.mem = k.mem /\ e.cdir = k.cdir /\ e.cstate = k.cstate \ ALIVE
      /\ e.reason = EndReason(k) /\ e.sess = "null" /\ e.media = "null"
      /\ e.tmr = k.tmr /\ e.early = k.early /\ e.asked = k.asked
      /\ e.told = k.told /\ e.filed = k.filed
  BY DEF Struct
<1>4. ~IsAlive(e)
  BY <1>3 DEF IsAlive
<1>5. Hangup(k) = [Changed(e) EXCEPT !.mem = "freed"]
  BY DEF Hangup, EndReason
<1>. HIDE DEF e
<1>. DEFINE x == Changed(e)
<1>6. /\ x \in Struct /\ SameBut(x, e)
      /\ x.told = Append(k.told, [msg |-> "del", reason |-> EndReason(k)])
      /\ x.filed = Append(k.filed, IF EndReason(k) = "OK" THEN "OK" ELSE "HANG")
  BY <1>2, <1>3, <1>4, ChangedWhenOver
<1>. HIDE DEF x
<1>. DEFINE h == [x EXCEPT !.mem = "freed"]
<1>7. h \in Struct /\ h.mem = "freed"
  BY <1>6 DEF Struct
<1>8. /\ h.cdir = x.cdir /\ h.cstate = x.cstate /\ h.reason = x.reason
      /\ h.sess = x.sess /\ h.media = x.media /\ h.tmr = x.tmr /\ h.early = x.early
      /\ h.asked = x.asked /\ h.told = x.told /\ h.filed = x.filed
  BY <1>6 DEF Struct
<1>9. Hangup(k) = h
  BY <1>5 DEF x
<1>. HIDE DEF h
<1>. QED
  BY <1>3, <1>6, <1>7, <1>8, <1>9 DEF SameBut

LEMMA HangupInv ==
  ASSUME NEW k, Endable(k)
  PROVE  Hangup(k) \in Struct /\ Hangup(k).mem = "freed" /\ FreedInv(Hangup(k))
<1>. k \in Struct /\ k.told \in Seq(Report) /\ k.filed \in Seq({"OK", "HANG"})
  BY DEF Endable, Struct
<1>. DEFINE h == Hangup(k)
            d == [msg |-> "del", reason |-> EndReason(k)]
<1>1. h \in Struct /\ h.mem = "freed" /\ h.sess = "null" /\ h.media = "null"
      /\ h.cstate = k.cstate \ ALIVE
  BY HangupFields
<1>2. h.told = Append(k.told, d)
      /\ h.filed = Append(k.filed, IF EndReason(k) = "OK" THEN "OK" ELSE "HANG")
  BY HangupFields
<1>. HIDE DEF h
<1>3. Len(h.filed) = 1
  BY <1>2 DEF Endable
<1>4. Len(k.told) \in Nat /\ Len(k.told) > 0
  BY DEF Endable
<1>5. /\ Len(h.told) = Len(k.told) + 1
      /\ DOMAIN h.told = 1 .. Len(k.told) + 1
      /\ \A i \in DOMAIN h.told : h.told[i] = IF i = Len(k.told) + 1 THEN d ELSE k.told[i]
  BY <1>2
<1>6. \A i \in DOMAIN h.told : h.told[i].msg =
         IF i = 1 THEN "add" ELSE IF i = Len(h.told) THEN "del" ELSE "est"
  <2>. TAKE i \in DOMAIN h.told
  <2>1. CASE i = Len(k.told) + 1
    BY <2>1, <1>4, <1>5
  <2>2. CASE i # Len(k.told) + 1
    <3>1. i \in DOMAIN k.told
      BY <2>2, <1>4, <1>5
    <3>. QED
      BY <2>2, <3>1, <1>5 DEF Endable
  <2>. QED
    BY <2>1, <2>2
<1>. QED
  BY <1>1, <1>3, <1>4, <1>5, <1>6 DEF FreedInv, h

(***************************************************************************)
(* Every handler keeps the invariant of its call.                          *)
(***************************************************************************)

\* how a call may end: with a verdict that is OK if it was marked EST
EndsWith(k, h) ==
  /\ h \in Struct /\ h.mem = "freed" /\ FreedInv(h)
  /\ \E r \in Reasons \ {"NONE"} :
       /\ h.told = Append(k.told, [msg |-> "del", reason |-> r])
       /\ h.filed = Append(k.filed, IF r = "OK" THEN "OK" ELSE "HANG")
       /\ "EST" \in k.cstate => r = "OK"

\* how a call may live on: unreported, or reported established
LivesOn(k, h) ==
  /\ h \in Struct /\ h.mem = "alloc" /\ LiveInv(h)
  /\ h.filed = k.filed
  /\ "EST" \in k.cstate => "EST" \in h.cstate
  /\ h.told \in {k.told, Append(k.told, [msg |-> "est", reason |-> "NONE"])}

LEMMA HangupEnds ==
  ASSUME NEW k \in Struct, k.mem = "alloc", LiveInv(k)
  PROVE  EndsWith(k, Hangup(k))
<1>1. Endable(k)
  BY DEF Endable, LiveInv
<1>2. EndReason(k) \in Reasons \ {"NONE"} /\ ("EST" \in k.cstate => EndReason(k) = "OK")
  BY DEF EndReason, LiveInv, Reasons
<1>. QED
  BY <1>1, <1>2, HangupInv, HangupFields DEF EndsWith

LEMMA ByeEnds ==
  ASSUME NEW k \in Struct, k.mem = "alloc", LiveInv(k)
  PROVE  EndsWith(k, Bye(k))
<1>. DEFINE r == IF "OUT_RING" \in k.cstate THEN "CANCEL"
                 ELSE IF "EST" \in k.cstate THEN "OK"
                 ELSE IF "IN_RING" \in k.cstate THEN "HANG" ELSE "NONE"
<1>1. PICK b \in Struct :
        /\ Bye(k) = Hangup(b)
        /\ b.mem = k.mem /\ b.told = k.told /\ b.filed = k.filed
        /\ b.reason = r
        /\ r = "NONE" => "EST" \notin b.cstate
  <2>. DEFINE x == IF "IN_RING" \in k.cstate
                   THEN [k EXCEPT !.cstate = @ \ {"IN_RING"}, !.reason = "HANG"] ELSE k
              y == IF "EST" \in x.cstate
                   THEN [x EXCEPT !.cstate = @ \ {"EST"}, !.reason = "OK"] ELSE x
              z == IF "OUT_RING" \in y.cstate
                   THEN [y EXCEPT !.cstate = @ \ {"EST"}, !.reason = "CANCEL"] ELSE y
  <2>1. Bye(k) = Hangup(z)
    BY DEF Bye
  <2>2. /\ x \in Struct /\ x.mem = k.mem /\ x.told = k.told /\ x.filed = k.filed
        /\ x.cstate = k.cstate \ {"IN_RING"}
        /\ x.reason = IF "IN_RING" \in k.cstate THEN "HANG" ELSE "NONE"
    BY DEF Struct, Reasons, LiveInv
  <2>. HIDE DEF x
  <2>3. /\ y \in Struct /\ y.mem = x.mem /\ y.told = x.told /\ y.filed = x.filed
        /\ y.cstate = x.cstate \ {"EST"}
        /\ y.reason = IF "EST" \in x.cstate THEN "OK" ELSE x.reason
    BY <2>2 DEF Struct, Reasons
  <2>. HIDE DEF y
  <2>4. /\ z \in Struct /\ z.mem = y.mem /\ z.told = y.told /\ z.filed = y.filed
        /\ z.cstate = y.cstate \/ z.cstate = y.cstate \ {"EST"}
        /\ z.reason = IF "OUT_RING" \in y.cstate THEN "CANCEL" ELSE y.reason
    BY <2>3 DEF Struct, Reasons
  <2>. HIDE DEF z
  <2>. QED
    BY <2>1, <2>2, <2>3, <2>4
<1>2. r \in Reasons /\ ("EST" \in k.cstate => r = "OK")
  BY DEF LiveInv, RING, Reasons
<1>. HIDE DEF r
<1>3. Endable(b)
  <2>1. /\ k.filed = <<>> /\ k.told # <<>>
        /\ \A i \in DOMAIN k.told : k.told[i].msg = IF i = 1 THEN "add" ELSE "est"
    BY DEF LiveInv
  <2>. QED
    BY <1>1, <2>1 DEF Endable
<1>4. EndReason(b) \in Reasons \ {"NONE"} /\ ("EST" \in k.cstate => EndReason(b) = "OK")
  BY <1>1, <1>2 DEF EndReason, Reasons
<1>5. /\ Hangup(b) \in Struct /\ Hangup(b).mem = "freed" /\ FreedInv(Hangup(b))
      /\ Hangup(b).told = Append(k.told, [msg |-> "del", reason |-> EndReason(b)])
      /\ Hangup(b).filed = Append(k.filed, IF EndReason(b) = "OK" THEN "OK" ELSE "HANG")
  BY <1>1, <1>3, HangupInv, HangupFields
<1>. QED
  BY <1>1, <1>4, <1>5 DEF EndsWith

LEMMA AcceptLives ==
  ASSUME NEW k \in Struct, k.mem = "alloc", LiveInv(k), k.asked,
         NEW o \in BOOLEAN, NEW a \in BOOLEAN
  PROVE  LivesOn(k, Accept(k, o, a)) /\ Accept(k, o, a).told = k.told
<1>. DEFINE h == Accept(k, o, a)
<1>1. CASE k.cstate \cap {"ERR", "EST"} # {} \/ k.cdir # "IN"
  BY <1>1 DEF Accept, LivesOn
<1>2. CASE /\ k.cstate \cap {"ERR", "EST"} = {} /\ k.cdir = "IN"
           /\ "ICE" \notin k.cstate \/ ~o
  <2>1. h = [k EXCEPT !.cstate = @ \ RING]
    BY <1>2 DEF Accept
  <2>2. /\ h \in Struct /\ h.mem = k.mem /\ h.cdir = k.cdir /\ h.cstate = k.cstate \ RING
        /\ h.reason = k.reason /\ h.sess = k.sess /\ h.media = k.media /\ h.asked = k.asked
        /\ h.told = k.told /\ h.filed = k.filed
    BY <2>1 DEF Struct
  <2>. QED
    BY <1>2, <2>2 DEF LivesOn, LiveInv, RING
<1>3. CASE /\ k.cstate \cap {"ERR", "EST"} = {} /\ k.cdir = "IN"
           /\ "ICE" \in k.cstate /\ o
  <2>. DEFINE s == IF a THEN "answered" ELSE k.sess
  <2>0. s \in Sess
    BY DEF Struct, Sess
  <2>1. h = [k EXCEPT !.cstate = (@ \ RING) \cup {"EST"}, !.sess = s]
    BY <1>3 DEF Accept, Struct
  <2>2. /\ h \in Struct /\ h.mem = k.mem /\ h.cdir = k.cdir
        /\ h.cstate = (k.cstate \ RING) \cup {"EST"}
        /\ h.reason = k.reason /\ h.sess = s /\ h.media = k.media /\ h.asked = k.asked
        /\ h.told = k.told /\ h.filed = k.filed
    BY <2>0, <2>1 DEF Struct, Flags
  <2>. HIDE DEF h
  <2>3. /\ "EST" \in h.cstate /\ "ICE" \in h.cstate /\ h.cstate \cap RING = {}
        /\ h.media \in {"ready", "started"} /\ h.media # "started" /\ h.sess # "inviting"
        /\ "FLOW" \notin h.cstate
    BY <1>3, <2>2 DEF LiveInv, RING
  <2>4. /\ h.cdir = "IN" /\ h.reason = "NONE" /\ h.asked
        /\ h.filed = <<>> /\ h.told # <<>>
        /\ \A i \in DOMAIN h.told : h.told[i].msg = IF i = 1 THEN "add" ELSE "est"
    BY <1>3, <2>2 DEF LiveInv
  <2>5. LiveInv(h)
    BY <2>3, <2>4 DEF LiveInv
  <2>. QED
    BY <2>2, <2>3, <2>5 DEF LivesOn, h
<1>. QED
  BY <1>1, <1>2, <1>3

LEMMA IceOkLives ==
  ASSUME NEW k \in Struct, k.mem = "alloc", LiveInv(k), k.media = "gathering",
         NEW n \in BOOLEAN, NEW o \in BOOLEAN, NEW a \in BOOLEAN
  PROVE  LivesOn(k, IceOk(k, n, o, a))
<1>. DEFINE y == [k EXCEPT !.media = "ready", !.cstate = @ \cup {"ICE"}]
<1>1. /\ y \in Struct /\ y.mem = k.mem /\ y.cdir = k.cdir
      /\ y.cstate = k.cstate \cup {"ICE"}
      /\ y.reason = k.reason /\ y.sess = k.sess /\ y.media = "ready" /\ y.asked = k.asked
      /\ y.told = k.told /\ y.filed = k.filed
  BY DEF Struct, Flags, Media
<1>2. /\ "ICE" \notin k.cstate /\ "EST" \notin k.cstate
      /\ k.sess \notin {"inviting", "answered", "up"}
  BY DEF LiveInv
<1>3. IceOk(k, n, o, a) =
        IF k.cdir = "OUT" THEN Send(y, n)
        ELSE IF "IN_RING" \notin k.cstate THEN Accept(y, o, a) ELSE y
  BY DEF IceOk
<1>. HIDE DEF y
<1>4. /\ y.filed = <<>> /\ y.told # <<>>
      /\ \A i \in DOMAIN y.told : y.told[i].msg = IF i = 1 THEN "add" ELSE "est"
  BY <1>1 DEF LiveInv
<1>5. LiveInv(y)
  BY <1>1, <1>2, <1>4 DEF LiveInv
<1>6. CASE k.cdir = "OUT"
  <2>. DEFINE cs == IF n THEN k.cstate \cup {"ICE", "OUT_RING"} ELSE k.cstate \cup {"ICE", "ERR"}
              ss == IF n THEN "inviting" ELSE k.sess
              h  == Send(y, n)
  <2>1. /\ h \in Struct /\ h.mem = y.mem /\ h.cdir = y.cdir
        /\ h.cstate = cs
        /\ h.reason = y.reason /\ h.sess = ss /\ h.media = y.media /\ h.asked = y.asked
        /\ h.told = y.told /\ h.filed = y.filed
    <3>1. CASE n
      BY <3>1, <1>1 DEF Send, Struct, Flags, Sess
    <3>2. CASE ~n
      BY <3>2, <1>1 DEF Send, Struct, Flags
    <3>. QED
      BY <3>1, <3>2
  <2>. HIDE DEF h
  <2>2. "EST" \notin h.cstate /\ "ICE" \in h.cstate /\ h.media = "ready"
        /\ "FLOW" \notin h.cstate
        /\ h.sess \notin {"answered", "up"} /\ h.cdir = "OUT" /\ h.reason = "NONE"
    BY <1>1, <1>2, <1>6, <2>1 DEF LiveInv
  <2>3. /\ h.filed = <<>> /\ h.told # <<>>
        /\ \A i \in DOMAIN h.told : h.told[i].msg = IF i = 1 THEN "add" ELSE "est"
    BY <1>4, <2>1
  <2>4. ~(Len(h.told) > 1)
    BY <1>1, <1>2, <2>1 DEF LiveInv
  <2>5. LiveInv(h)
    BY <2>2, <2>3, <2>4 DEF LiveInv
  <2>. QED
    BY <1>1, <1>2, <1>3, <1>6, <2>1, <2>5 DEF LivesOn, h
<1>7. CASE k.cdir # "OUT" /\ "IN_RING" \notin k.cstate
  <2>1. y.asked
    BY <1>1, <1>7 DEF LiveInv
  <2>2. LivesOn(y, Accept(y, o, a))
    BY <1>1, <1>5, <2>1, AcceptLives
  <2>. QED
    BY <1>1, <1>3, <1>7, <2>2 DEF LivesOn
<1>8. CASE k.cdir # "OUT" /\ "IN_RING" \in k.cstate
  BY <1>1, <1>3, <1>5, <1>8 DEF LivesOn
<1>. QED
  BY <1>6, <1>7, <1>8

LEMMA ActivateFields ==
  ASSUME NEW k \in Struct, NEW s \in BOOLEAN, ~({"FLOW", "MEDIA"} \subseteq k.cstate)
  PROVE  LET h == Activate(k, s) IN
         /\ h \in Struct
         /\ h.mem = k.mem /\ h.cdir = k.cdir
         /\ h.cstate = (k.cstate \ RING) \cup (IF s THEN {"EST", "FLOW", "MEDIA"}
                                               ELSE {"EST", "ERR"})
         /\ h.reason = k.reason /\ h.sess = k.sess
         /\ h.media = IF s THEN "started" ELSE k.media
         /\ h.tmr = k.tmr /\ h.early = k.early /\ h.asked = k.asked
         /\ h.told = Append(k.told, [msg |-> "est", reason |-> "NONE"])
         /\ h.filed = k.filed
<1>. DEFINE e == [k EXCEPT !.cstate = (@ \ RING) \cup {"EST"}]
            x == IF s THEN [e EXCEPT !.cstate = @ \cup {"FLOW", "MEDIA"}, !.media = "started"]
                 ELSE [e EXCEPT !.cstate = @ \cup {"ERR"}]
<1>1. /\ e \in Struct /\ e.mem = k.mem /\ e.cdir = k.cdir
      /\ e.cstate = (k.cstate \ RING) \cup {"EST"}
      /\ e.reason = k.reason /\ e.sess = k.sess /\ e.media = k.media
      /\ e.tmr = k.tmr /\ e.early = k.early /\ e.asked = k.asked
      /\ e.told = k.told /\ e.filed = k.filed
  BY DEF Struct, Flags
<1>2. Activate(k, s) = Changed(x)
  BY DEF Activate
<1>. HIDE DEF e
<1>3. /\ x \in Struct /\ x.mem = k.mem /\ x.cdir = k.cdir
      /\ x.cstate = (k.cstate \ RING) \cup (IF s THEN {"EST", "FLOW", "MEDIA"}
                                            ELSE {"EST", "ERR"})
      /\ x.reason = k.reason /\ x.sess = k.sess
      /\ x.media = IF s THEN "started" ELSE k.media
      /\ x.tmr = k.tmr /\ x.early = k.early /\ x.asked = k.asked
      /\ x.told = k.told /\ x.filed = k.filed
  <2>1. CASE s
    BY <2>1, <1>1 DEF Struct, Flags, Media
  <2>2. CASE ~s
    BY <2>2, <1>1 DEF Struct, Flags
  <2>. QED
    BY <2>1, <2>2
<1>. HIDE DEF x
<1>4. "EST" \in x.cstate
  BY <1>3
<1>. QED
  BY <1>2, <1>3, <1>4, ChangedWhenEst DEF SameBut

\* the reports of a live call stay in order when est is appended
LEMMA AppendEst ==
  ASSUME NEW t \in Seq(Report), t # <<>>,
         \A i \in DOMAIN t : t[i].msg = IF i = 1 THEN "add" ELSE "est"
  PROVE  LET u == Append(t, [msg |-> "est", reason |-> "NONE"]) IN
         /\ u # <<>>
         /\ \A i \in DOMAIN u : u[i].msg = IF i = 1 THEN "add" ELSE "est"
<1>. DEFINE d == [msg |-> "est", reason |-> "NONE"]
            u == Append(t, d)
<1>1. Len(t) \in Nat /\ Len(t) > 0 /\ DOMAIN t = 1 .. Len(t)
  OBVIOUS
<1>2. /\ Len(u) = Len(t) + 1 /\ DOMAIN u = 1 .. Len(t) + 1
      /\ \A i \in DOMAIN u : u[i] = IF i = Len(t) + 1 THEN d ELSE t[i]
  OBVIOUS
<1>3. \A i \in DOMAIN u : u[i].msg = IF i = 1 THEN "add" ELSE "est"
  BY <1>1, <1>2
<1>. QED
  BY <1>1, <1>2, <1>3

LEMMA ActivateLives ==
  ASSUME NEW k \in Struct, k.mem = "alloc", LiveInv(k), NEW s \in BOOLEAN,
         NEW h \in Struct, NEW a, a = Activate(k, s),
         h.mem = a.mem, h.cdir = a.cdir, h.cstate = a.cstate, h.reason = a.reason,
         h.media = a.media, h.asked = a.asked, h.told = a.told, h.filed = a.filed,
         \/ k.sess = "inviting" /\ h.sess = a.sess
         \/ k.sess \in {"inviting", "answered"} /\ h.sess = "up"
  PROVE  LivesOn(k, h)
<1>1. /\ "ICE" \in k.cstate /\ k.media \in {"ready", "started"}
      /\ k.cdir \in {"IN", "OUT"} /\ k.reason = "NONE" /\ k.filed = <<>>
      /\ k.cdir = "IN" => k.asked
      /\ k.media = "started" => {"EST", "FLOW", "MEDIA"} \subseteq k.cstate
  <2>1. k.sess = "inviting" => k.cdir = "OUT"
    BY DEF LiveInv
  <2>2. k.sess = "answered" => "IN_RING" \notin k.cstate
    BY DEF LiveInv, RING
  <2>. QED
    BY <2>1, <2>2 DEF LiveInv
<1>2. CASE ~({"FLOW", "MEDIA"} \subseteq k.cstate)
  <2>1. /\ h.mem = "alloc" /\ h.cdir = k.cdir /\ h.reason = "NONE" /\ h.asked = k.asked
        /\ h.filed = <<>>
        /\ h.cstate = (k.cstate \ RING) \cup (IF s THEN {"EST", "FLOW", "MEDIA"}
                                               ELSE {"EST", "ERR"})
        /\ h.media = IF s THEN "started" ELSE k.media
        /\ h.told = Append(k.told, [msg |-> "est", reason |-> "NONE"])
        /\ a.sess = k.sess
    BY <1>1, <1>2, ActivateFields
  <2>2. /\ "EST" \in h.cstate /\ "ICE" \in h.cstate /\ h.cstate \cap RING = {}
        /\ h.media \in {"ready", "started"}
        /\ h.media = "started" => {"EST", "FLOW", "MEDIA"} \subseteq h.cstate
        /\ "FLOW" \in h.cstate => h.media = "started"
    BY <1>1, <1>2, <2>1 DEF RING, LiveInv
  <2>3. h.told # <<>>
        /\ \A i \in DOMAIN h.told : h.told[i].msg = IF i = 1 THEN "add" ELSE "est"
    <3>1. k.told \in Seq(Report)
      BY DEF Struct
    <3>2. k.told # <<>>
          /\ \A i \in DOMAIN k.told : k.told[i].msg = IF i = 1 THEN "add" ELSE "est"
      BY DEF LiveInv
    <3>. QED
      BY <2>1, <3>1, <3>2, AppendEst
  <2>4. h.sess \in {"inviting", "up"} /\ (h.sess = "inviting" => h.cdir = "OUT")
    BY <2>1 DEF LiveInv
  <2>5. LiveInv(h)
    BY <1>1, <2>1, <2>2, <2>3, <2>4 DEF LiveInv
  <2>. QED
    BY <1>1, <2>1, <2>2, <2>5 DEF LivesOn
<1>3. CASE {"FLOW", "MEDIA"} \subseteq k.cstate /\ "EST" \in k.cstate
  <2>1. a = k
    BY <1>3 DEF Activate
  <2>2. LiveInv(h)
    BY <1>1, <1>3, <2>1 DEF LiveInv
  <2>. QED
    BY <1>3, <2>1, <2>2 DEF LivesOn
<1>4. {"FLOW", "MEDIA"} \subseteq k.cstate => "EST" \in k.cstate
  BY DEF LiveInv
<1>. QED
  BY <1>2, <1>3, <1>4

(***************************************************************************)
(* The list of calls.                                                      *)
(***************************************************************************)
Distinct(s) == \A i, j \in DOMAIN s : s[i] = s[j] => i = j

LEMMA AppendList ==
  ASSUME NEW s \in Seq(Call), Distinct(s), NEW c \in Call, \A i \in DOMAIN s : s[i] # c
  PROVE  LET u == Append(s, c) IN
         /\ u \in Seq(Call) /\ Distinct(u)
         /\ \A x \in Call : (\E i \in DOMAIN u : u[i] = x)
                              <=> (x = c \/ \E i \in DOMAIN s : s[i] = x)
<1>. DEFINE u == Append(s, c)
<1>1. /\ u \in Seq(Call) /\ Len(s) \in Nat /\ DOMAIN s = 1 .. Len(s)
      /\ DOMAIN u = 1 .. Len(s) + 1
      /\ \A i \in DOMAIN s : u[i] = s[i]
      /\ u[Len(s) + 1] = c
  OBVIOUS
<1>. HIDE DEF u
<1>2. Distinct(u)
  BY <1>1 DEF Distinct
<1>3. \A x \in Call : (\E i \in DOMAIN u : u[i] = x)
                        <=> (x = c \/ \E i \in DOMAIN s : s[i] = x)
  BY <1>1
<1>. QED
  BY <1>1, <1>2, <1>3 DEF u

LEMMA UnlinkList ==
  ASSUME NEW s \in Seq(Call), Distinct(s), NEW c \in Call
  PROVE  LET u == Unlink(s, c) IN
         /\ u \in Seq(Call) /\ Distinct(u)
         /\ \A x \in Call : (\E i \in DOMAIN u : u[i] = x)
                              <=> (x # c /\ \E i \in DOMAIN s : s[i] = x)
<1>1. CASE \E i \in DOMAIN s : s[i] = c
  <2>. DEFINE n == CHOOSE i \in DOMAIN s : s[i] = c
              u == RemoveAt(s, n)
  <2>1. n \in DOMAIN s /\ s[n] = c
    BY <1>1
  <2>2. Unlink(s, c) = u
    BY <1>1 DEF Unlink
  <2>. HIDE DEF n
  <2>3. Len(s) \in Nat /\ n \in Nat /\ 1 <= n /\ n <= Len(s) /\ DOMAIN s = 1 .. Len(s)
    BY <2>1
  <2>4. /\ u \in Seq(Call) /\ Len(u) = Len(s) - 1 /\ DOMAIN u = 1 .. Len(s) - 1
        /\ \A i \in 1 .. Len(s) - 1 : u[i] = IF i < n THEN s[i] ELSE s[i + 1]
    <3>. DEFINE a == SubSeq(s, 1, n - 1)
                b == SubSeq(s, n + 1, Len(s))
    <3>1. u = a \o b
      BY DEF RemoveAt
    <3>. HIDE DEF a, b
    <3>2. /\ a \in Seq(Call) /\ b \in Seq(Call) /\ Len(a) = n - 1 /\ Len(b) = Len(s) - n
          /\ \A i \in 1 .. n - 1 : a[i] = s[i]
          /\ \A i \in 1 .. Len(s) - n : b[i] = s[n + i]
      <4>1. \A i \in 1 .. n - 1 : s[i] \in Call
        BY <2>3
      <4>2. \A i \in n + 1 .. Len(s) : s[i] \in Call
        BY <2>3
      <4>3. /\ a \in Seq(Call) /\ Len(a) = IF 1 <= n - 1 THEN (n - 1) - 1 + 1 ELSE 0
            /\ \A i \in 1 .. (n - 1) - 1 + 1 : a[i] = s[1 + i - 1]
        BY <2>3, <4>1, SubSeqProperties DEF a
      <4>4. /\ b \in Seq(Call)
            /\ Len(b) = IF n + 1 <= Len(s) THEN Len(s) - (n + 1) + 1 ELSE 0
            /\ \A i \in 1 .. Len(s) - (n + 1) + 1 : b[i] = s[(n + 1) + i - 1]
        BY <2>3, <4>2, SubSeqProperties DEF b
      <4>5. Len(a) = n - 1 /\ Len(b) = Len(s) - n
        <5>1. Len(a) = IF 1 <= n - 1 THEN (n - 1) - 1 + 1 ELSE 0
          BY <4>3
        <5>2. Len(b) = IF n + 1 <= Len(s) THEN Len(s) - (n + 1) + 1 ELSE 0
          BY <4>4
        <5>3. Len(a) = n - 1
          BY <2>3, <5>1
        <5>4. \A l \in Nat : n <= l => (IF n + 1 <= l THEN l - (n + 1) + 1 ELSE 0) = l - n
          <6>1. n \in Nat
            BY <2>3
          <6>. QED
            BY <6>1
        <5>. QED
          BY <2>3, <5>2, <5>3, <5>4
      <4>6. \A i \in 1 .. n - 1 : a[i] = s[i]
        <5>. TAKE i \in 1 .. n - 1
        <5>1. i \in 1 .. (n - 1) - 1 + 1 /\ 1 + i - 1 = i
          BY <2>3
        <5>. QED
          BY <4>3, <5>1
      <4>7. \A i \in 1 .. Len(s) - n : b[i] = s[n + i]
        <5>. TAKE i \in 1 .. Len(s) - n
        <5>1. i \in 1 .. Len(s) - (n + 1) + 1 /\ (n + 1) + i - 1 = n + i
          BY <2>3
        <5>. QED
          BY <4>4, <5>1
      <4>. QED
        BY <4>3, <4>4, <4>5, <4>6, <4>7
    <3>3. u \in Seq(Call) /\ Len(u) = Len(s) - 1
      <4>1. u \in Seq(Call) /\ Len(u) = Len(a) + Len(b)
        BY <3>1, <3>2, ConcatProperties
      <4>. QED
        BY <2>3, <3>2, <4>1
    <3>4. \A i \in 1 .. Len(s) - 1 : u[i] = IF i < n THEN s[i] ELSE s[i + 1]
      <4>. TAKE i \in 1 .. Len(s) - 1
      <4>1. u[i] = IF i <= Len(a) THEN a[i] ELSE b[i - Len(a)]
        BY <2>3, <3>1, <3>2, ConcatProperties
      <4>2. CASE i < n
        BY <2>3, <3>2, <4>1, <4>2
      <4>3. CASE i >= n
        <5>1. i - Len(a) \in 1 .. Len(s) - n /\ n + (i - Len(a)) = i + 1 /\ ~(i <= Len(a))
          BY <2>3, <3>2, <4>3
        <5>2. b[i - Len(a)] = s[n + (i - Len(a))]
          BY <3>2, <5>1
        <5>. QED
          BY <2>3, <4>1, <4>3, <5>1, <5>2
      <4>. QED
        BY <2>3, <4>2, <4>3
    <3>. QED
      BY <2>3, <3>3, <3>4
  <2>. HIDE DEF u
  <2>. DEFINE at(i) == IF i < n THEN i ELSE i + 1
  <2>40. \A i \in DOMAIN u : at(i) \in DOMAIN s /\ at(i) # n /\ u[i] = s[at(i)]
    BY <2>3, <2>4
  <2>41. \A i, j \in DOMAIN u : at(i) = at(j) => i = j
    BY <2>3, <2>4
  <2>42. \A j \in DOMAIN s : j # n => \E i \in DOMAIN u : at(i) = j
    <3>. TAKE j \in DOMAIN s
    <3>. HAVE j # n
    <3>1. CASE j < n
      <4>1. j \in DOMAIN u /\ at(j) = j
        BY <2>3, <2>4, <3>1
      <4>. QED
        BY <4>1
    <3>2. CASE j > n
      <4>1. j - 1 \in DOMAIN u /\ at(j - 1) = j
        BY <2>3, <2>4, <3>2
      <4>. QED
        BY <4>1
    <3>. QED
      BY <2>3, <3>1, <3>2
  <2>. HIDE DEF at
  <2>5. Distinct(u)
    BY <2>40, <2>41 DEF Distinct
  <2>6. ASSUME NEW x \in Call, NEW i \in DOMAIN u, u[i] = x
        PROVE  x # c /\ \E j \in DOMAIN s : s[j] = x
    BY <2>1, <2>6, <2>40 DEF Distinct
  <2>7. ASSUME NEW x \in Call, x # c, NEW j \in DOMAIN s, s[j] = x
        PROVE  \E i \in DOMAIN u : u[i] = x
    BY <2>1, <2>7, <2>40, <2>42
  <2>. QED
    BY <2>2, <2>4, <2>5, <2>6, <2>7
<1>2. CASE ~\E i \in DOMAIN s : s[i] = c
  BY <1>2 DEF Unlink
<1>. QED
  BY <1>1, <1>2

(***************************************************************************)
(* Every step changes one call, in one of three ways, or none.             *)
(***************************************************************************)
Changes(c, k) == Put(c, k) /\ call[c].mem = "alloc"
                 /\ (LivesOn(call[c], k) \/ EndsWith(call[c], k))

Begins(c, k) ==
  /\ call[c] = NoCall
  /\ k \in Struct /\ k.mem = "alloc" /\ LiveInv(k)
  /\ k.told = <<[msg |-> "add", reason |-> "NONE"]>>
  /\ call' = [call EXCEPT ![c] = k]
  /\ calls' = Append(calls, c)

OneCallStep ==
  /\ online' \in BOOLEAN /\ crashed' \in BOOLEAN
  /\ \/ UNCHANGED <<call, calls>>
     \/ \E c \in Call, k \in Struct : Changes(c, k) \/ Begins(c, k)

LEMMA AllocatedBegins ==
  ASSUME NEW ok \in BOOLEAN, NEW dir \in {"IN", "OUT"}, NEW k \in Struct,
         LET a == Allocated(dir, ok) IN
         /\ k.mem = a.mem /\ k.cdir = a.cdir /\ k.reason = a.reason /\ k.media = a.media
         /\ a.cstate \subseteq k.cstate /\ k.cstate \subseteq a.cstate \cup {"ERR"}
         /\ k.told = a.told /\ k.filed = a.filed,
         k.sess \in {"null", "ringing"}
  PROVE  k.mem = "alloc" /\ LiveInv(k) /\ k.told = <<[msg |-> "add", reason |-> "NONE"]>>
<1>. DEFINE a == Allocated(dir, ok)
            cs == (IF dir = "IN" THEN {"IN_RING"} ELSE {}) \cup (IF ok THEN {} ELSE {"ERR"})
            t == <<[msg |-> "add", reason |-> "NONE"]>>
<1>1. /\ a.mem = "alloc" /\ a.cdir = dir /\ a.reason = "NONE"
      /\ a.media = (IF ok THEN "gathering" ELSE "null")
      /\ a.cstate = cs /\ a.told = t /\ a.filed = <<>>
  BY NoCallType DEF Allocated, NoCall
<1>. HIDE DEF a
<1>2. /\ k.mem = "alloc" /\ k.cdir = dir /\ k.reason = "NONE" /\ k.told = t /\ k.filed = <<>>
      /\ k.media = (IF ok THEN "gathering" ELSE "null")
      /\ cs \subseteq k.cstate /\ k.cstate \subseteq cs \cup {"ERR"}
  BY <1>1 DEF a
<1>3. /\ "EST" \notin k.cstate /\ "ICE" \notin k.cstate /\ "FLOW" \notin k.cstate
      /\ dir = "IN" => "IN_RING" \in k.cstate
      /\ k.media # "started" /\ k.sess \notin {"inviting", "answered", "up"}
  BY <1>2
<1>4. t # <<>> /\ Len(t) = 1 /\ \A i \in DOMAIN t : t[i].msg = IF i = 1 THEN "add" ELSE "est"
  OBVIOUS
<1>. HIDE DEF t, cs
<1>5. /\ k.told # <<>> /\ ~(Len(k.told) > 1)
      /\ \A i \in DOMAIN k.told : k.told[i].msg = IF i = 1 THEN "add" ELSE "est"
  BY <1>2, <1>4
<1>6. LiveInv(k)
  BY <1>2, <1>3, <1>5 DEF LiveInv
<1>. QED
  BY <1>2, <1>6 DEF t

LEMMA OnlyLiveHasCallbacks ==
  ASSUME IInv, NEW c \in Call,
         call[c].sess # "null" \/ call[c].media # "null"
  PROVE  call[c].mem = "alloc" /\ LiveInv(call[c]) /\ call[c] \in Struct
<1>1. call[c] \in Struct /\ CallInv(call[c])
  BY DEF IInv, TypeOK
<1>2. call[c].mem \in {"unused", "alloc", "freed"}
  BY <1>1 DEF Struct
<1>3. NoCall.sess = "null" /\ NoCall.media = "null"
  BY DEF NoCall
<1>. QED
  BY <1>1, <1>2, <1>3 DEF CallInv, FreedInv

LEMMA StartCallShape ==
  ASSUME IInv, NEW c \in Call, StartCall(c)
  PROVE  OneCallStep
<1>1. online' \in BOOLEAN /\ crashed' \in BOOLEAN
  BY DEF StartCall, IInv, TypeOK
<1>2. call[c] = NoCall
  BY DEF StartCall, IInv, CallInv
<1>3. PICK ok \in BOOLEAN : call' = [call EXCEPT ![c] = Allocated("OUT", ok)]
  BY DEF StartCall, Outcomes
<1>. DEFINE k == Allocated("OUT", ok)
            t == <<[msg |-> "add", reason |-> "NONE"]>>
<1>4. t \in Seq(Report)
  BY DEF Report, Reasons
<1>5. k \in Struct /\ k.sess = "null"
  BY <1>4, NoCallType DEF Allocated, NoCall, Struct, Flags, Dirs, Media, t
<1>6. k.mem = "alloc" /\ LiveInv(k) /\ k.told = t
  BY <1>5, AllocatedBegins
<1>7. Begins(c, k)
  BY <1>2, <1>3, <1>5, <1>6 DEF Begins, StartCall, t
<1>. QED
  BY <1>1, <1>5, <1>7 DEF OneCallStep

LEMMA IncomingShape ==
  ASSUME IInv, NEW c \in Call, Incoming(c)
  PROVE  OneCallStep
<1>1. online' \in BOOLEAN /\ crashed' \in BOOLEAN
  BY DEF Incoming, IInv, TypeOK
<1>2. call[c] = NoCall
  BY DEF Incoming, IInv, CallInv
<1>3. PICK ok \in BOOLEAN, acc \in BOOLEAN :
        call' = [call EXCEPT ![c] =
                  [Allocated("IN", ok) EXCEPT
                     !.sess = IF acc THEN "ringing" ELSE "null",
                     !.cstate = IF acc THEN @ ELSE @ \cup {"ERR"}]]
  BY DEF Incoming, Outcomes
<1>. DEFINE a == Allocated("IN", ok)
            ss == IF acc THEN "ringing" ELSE "null"
            cs == IF acc THEN a.cstate ELSE a.cstate \cup {"ERR"}
            k == [a EXCEPT !.sess = ss, !.cstate = cs]
            t == <<[msg |-> "add", reason |-> "NONE"]>>
<1>4. t \in Seq(Report)
  BY DEF Report, Reasons
<1>5. a \in Struct
  BY <1>4, NoCallType DEF Allocated, NoCall, Struct, Flags, Dirs, Media, t
<1>. HIDE DEF a
<1>6. /\ k \in Struct /\ k.sess \in {"null", "ringing"} /\ k.cstate = cs
      /\ k.mem = a.mem /\ k.cdir = a.cdir /\ k.reason = a.reason /\ k.media = a.media
      /\ k.told = a.told /\ k.filed = a.filed
  <2>1. cs \in SUBSET Flags /\ ss \in Sess /\ ss \in {"null", "ringing"}
    BY <1>5 DEF Struct, Flags, Sess
  <2>. HIDE DEF cs, ss
  <2>. QED
    BY <2>1, <1>5 DEF Struct
<1>7. call' = [call EXCEPT ![c] = k]
  BY <1>3 DEF a
<1>. HIDE DEF k
<1>8. k.mem = "alloc" /\ LiveInv(k) /\ k.told = t
  <2>1. a.cstate \subseteq k.cstate /\ k.cstate \subseteq a.cstate \cup {"ERR"}
    BY <1>6
  <2>. QED
    BY <1>6, <2>1, AllocatedBegins DEF a
<1>9. Begins(c, k)
  BY <1>2, <1>6, <1>7, <1>8 DEF Begins, Incoming, t
<1>. QED
  BY <1>1, <1>6, <1>9 DEF OneCallStep

LEMMA FoundIsLive ==
  ASSUME IInv, NEW c \in Call, NEW key, Found(key, c)
  PROVE  call[c].mem = "alloc" /\ LiveInv(call[c]) /\ call[c] \in Struct
<1>1. \E i \in DOMAIN calls : calls[i] = c
  BY DEF Found
<1>2. call[c].mem = "alloc"
  BY <1>1 DEF IInv, ListIsLive
<1>. QED
  BY <1>2 DEF IInv, CallInv, TypeOK

LEMMA PutShape ==
  ASSUME NEW c \in Call, NEW k, Put(c, k), call[c].mem = "alloc",
         LivesOn(call[c], k) \/ EndsWith(call[c], k),
         online' \in BOOLEAN, crashed' \in BOOLEAN
  PROVE  OneCallStep
BY DEF OneCallStep, Changes, LivesOn, EndsWith

\* a field no report or verdict depends on may change freely
Quiet(k, h) ==
  /\ h \in Struct
  /\ h.mem = k.mem       /\ h.cdir = k.cdir   /\ h.cstate = k.cstate
  /\ h.reason = k.reason /\ h.sess = k.sess   /\ h.told = k.told
  /\ h.filed = k.filed
  /\ h.media = k.media \/ (k.media = "gathering" /\ h.media = "stalled")
  /\ k.asked => h.asked

LEMMA QuietLives ==
  ASSUME NEW k \in Struct, k.mem = "alloc", LiveInv(k), NEW h, Quiet(k, h)
  PROVE  LivesOn(k, h)
<1>1. "ICE" \in k.cstate => h.media = k.media
  BY DEF Quiet, LiveInv
<1>2. k.media = "started" <=> h.media = "started"
  BY DEF Quiet
<1>. QED
  BY <1>1, <1>2 DEF Quiet, LiveInv, LivesOn

LEMMA ControlAcceptShape ==
  ASSUME IInv, NEW c \in Call, NEW key, ControlAccept(key, c)
  PROVE  OneCallStep
<1>1. online' \in BOOLEAN /\ crashed' \in BOOLEAN
  BY DEF ControlAccept, IInv, TypeOK
<1>2. call[c].mem = "alloc" /\ LiveInv(call[c]) /\ call[c] \in Struct
  BY FoundIsLive DEF ControlAccept
<1>. DEFINE k == [call[c] EXCEPT !.asked = TRUE]
<1>3. PICK o \in BOOLEAN, a \in BOOLEAN : Put(c, Accept(k, o, a))
  BY DEF ControlAccept, Outcomes
<1>4. Quiet(call[c], k) /\ k.asked
  BY <1>2 DEF Quiet, Struct
<1>. HIDE DEF k
<1>5. LivesOn(call[c], k)
  BY <1>2, <1>4, QuietLives
<1>6. LivesOn(k, Accept(k, o, a))
  BY <1>4, <1>5, AcceptLives DEF LivesOn
<1>7. LivesOn(call[c], Accept(k, o, a))
  BY <1>4, <1>6 DEF LivesOn, Quiet
<1>. QED
  BY <1>1, <1>2, <1>3, <1>7, PutShape

LEMMA ControlByeShape ==
  ASSUME IInv, NEW c \in Call, NEW key, ControlBye(key, c)
  PROVE  OneCallStep
<1>1. online' \in BOOLEAN /\ crashed' \in BOOLEAN
  BY DEF ControlBye, IInv, TypeOK
<1>2. call[c].mem = "alloc" /\ LiveInv(call[c]) /\ call[c] \in Struct
  BY FoundIsLive DEF ControlBye
<1>3. EndsWith(call[c], Bye(call[c]))
  BY <1>2, ByeEnds
<1>. QED
  BY <1>1, <1>2, <1>3, PutShape DEF ControlBye

LEMMA SetOnlineShape ==
  ASSUME IInv, NEW up \in BOOLEAN, SetOnline(up)
  PROVE  OneCallStep
BY DEF SetOnline, OneCallStep, Outcomes, IInv, TypeOK

LEMMA ProgressShape ==
  ASSUME IInv, NEW c \in Call, Progress(c)
  PROVE  OneCallStep
<1>1. online' \in BOOLEAN /\ crashed' \in BOOLEAN
  BY DEF Progress, IInv, TypeOK
<1>. DEFINE k == call[c]
<1>2. k.mem = "alloc" /\ LiveInv(k) /\ k \in Struct /\ k.sess = "inviting"
  BY OnlyLiveHasCallbacks DEF Progress
<1>3. PICK s \in BOOLEAN : Put(c, [Activate(k, s) EXCEPT !.early = @ + 1])
  BY DEF Progress, Outcomes
<1>4. k.early < MaxEarly /\ k.early \in 0 .. MaxEarly
  BY <1>2 DEF Progress, Struct
<1>. HIDE DEF k
<1>. DEFINE a == Activate(k, s)
            h == [a EXCEPT !.early = @ + 1]
<1>5. a \in Struct /\ a.early = k.early /\ a.sess = k.sess
  <2>1. CASE {"FLOW", "MEDIA"} \subseteq k.cstate
    BY <1>2, <2>1 DEF Activate
  <2>2. CASE ~({"FLOW", "MEDIA"} \subseteq k.cstate)
    BY <1>2, <2>2, ActivateFields
  <2>. QED
    BY <2>1, <2>2
<1>. HIDE DEF a
<1>6. /\ h \in Struct /\ h.sess = a.sess
      /\ h.mem = a.mem /\ h.cdir = a.cdir /\ h.cstate = a.cstate /\ h.reason = a.reason
      /\ h.media = a.media /\ h.asked = a.asked /\ h.told = a.told /\ h.filed = a.filed
  <2>1. a.early + 1 \in 0 .. MaxEarly
    BY <1>4, <1>5, CallAssumption
  <2>. QED
    BY <1>5, <2>1 DEF Struct
<1>. HIDE DEF h
<1>7. LivesOn(k, h)
  BY <1>2, <1>6, ActivateLives DEF a
<1>. QED
  BY <1>1, <1>2, <1>3, <1>7, PutShape DEF k, a, h

LEMMA EstablishedShape ==
  ASSUME IInv, NEW c \in Call, Established(c)
  PROVE  OneCallStep
<1>1. online' \in BOOLEAN /\ crashed' \in BOOLEAN
  BY DEF Established, IInv, TypeOK
<1>. DEFINE k == call[c]
<1>2. /\ k.mem = "alloc" /\ LiveInv(k) /\ k \in Struct
      /\ k.sess \in {"inviting", "answered"}
  BY OnlyLiveHasCallbacks DEF Established
<1>3. PICK s \in BOOLEAN : Put(c, [Activate(k, s) EXCEPT !.sess = "up"])
  BY DEF Established, Outcomes
<1>. HIDE DEF k
<1>. DEFINE a == Activate(k, s)
            h == [a EXCEPT !.sess = "up"]
<1>4. a \in Struct
  <2>1. CASE {"FLOW", "MEDIA"} \subseteq k.cstate
    BY <1>2, <2>1 DEF Activate
  <2>2. CASE ~({"FLOW", "MEDIA"} \subseteq k.cstate)
    BY <1>2, <2>2, ActivateFields
  <2>. QED
    BY <2>1, <2>2
<1>. HIDE DEF a
<1>5. /\ h \in Struct /\ h.sess = "up"
      /\ h.mem = a.mem /\ h.cdir = a.cdir /\ h.cstate = a.cstate /\ h.reason = a.reason
      /\ h.media = a.media /\ h.asked = a.asked /\ h.told = a.told /\ h.filed = a.filed
  BY <1>4 DEF Struct, Sess
<1>. HIDE DEF h
<1>6. LivesOn(k, h)
  BY <1>2, <1>5, ActivateLives DEF a
<1>. QED
  BY <1>1, <1>2, <1>3, <1>6, PutShape DEF k, a, h

LEMMA ClosedShape ==
  ASSUME IInv, NEW c \in Call, Closed(c)
  PROVE  OneCallStep
<1>1. online' \in BOOLEAN /\ crashed' \in BOOLEAN
  BY DEF Closed, IInv, TypeOK
<1>2. call[c].mem = "alloc" /\ LiveInv(call[c]) /\ call[c] \in Struct
  BY OnlyLiveHasCallbacks DEF Closed
<1>3. EndsWith(call[c], Hangup(call[c]))
  BY <1>2, HangupEnds
<1>. QED
  BY <1>1, <1>2, <1>3, PutShape DEF Closed

LEMMA GatherDoneShape ==
  ASSUME IInv, NEW c \in Call, GatherDone(c)
  PROVE  OneCallStep
<1>1. online' \in BOOLEAN /\ crashed' \in BOOLEAN /\ online \in BOOLEAN
  BY DEF GatherDone, IInv, TypeOK
<1>2. /\ call[c].mem = "alloc" /\ LiveInv(call[c]) /\ call[c] \in Struct
      /\ call[c].media = "gathering"
  BY OnlyLiveHasCallbacks DEF GatherDone
<1>3. PICK n \in BOOLEAN, o \in BOOLEAN, a \in BOOLEAN :
        Put(c, IceOk(call[c], n /\ online, o, a))
  BY DEF GatherDone, Outcomes
<1>4. (n /\ online) \in BOOLEAN
  OBVIOUS
<1>5. LivesOn(call[c], IceOk(call[c], n /\ online, o, a))
  BY <1>2, <1>4, IceOkLives
<1>. QED
  BY <1>1, <1>2, <1>3, <1>5, PutShape

LEMMA GatherStalledShape ==
  ASSUME IInv, NEW c \in Call, GatherStalled(c)
  PROVE  OneCallStep
<1>1. online' \in BOOLEAN /\ crashed' \in BOOLEAN
  BY DEF GatherStalled, IInv, TypeOK
<1>. DEFINE k == call[c]
            h == [k EXCEPT !.media = "stalled"]
<1>2. k.mem = "alloc" /\ LiveInv(k) /\ k \in Struct /\ k.media = "gathering"
  BY OnlyLiveHasCallbacks DEF GatherStalled
<1>3. Put(c, h)
  BY DEF GatherStalled
<1>. HIDE DEF k
<1>4. Quiet(k, h)
  BY <1>2 DEF Quiet, Struct, Media
<1>. QED
  BY <1>1, <1>2, <1>3, <1>4, QuietLives, PutShape DEF k

LEMMA KeepAliveFailShape ==
  ASSUME IInv, NEW c \in Call, KeepAliveFail(c)
  PROVE  OneCallStep
<1>1. online' \in BOOLEAN /\ crashed' \in BOOLEAN
  BY DEF KeepAliveFail, IInv, TypeOK
<1>. DEFINE k == call[c]
            h == [k EXCEPT !.tmr = TRUE]
<1>2. k.mem = "alloc" /\ LiveInv(k) /\ k \in Struct
  BY OnlyLiveHasCallbacks DEF KeepAliveFail
<1>3. Put(c, h)
  BY DEF KeepAliveFail
<1>. HIDE DEF k
<1>4. Quiet(k, h)
  BY <1>2 DEF Quiet, Struct
<1>. QED
  BY <1>1, <1>2, <1>3, <1>4, QuietLives, PutShape DEF k

LEMMA HangupTimerShape ==
  ASSUME IInv, NEW c \in Call, HangupTimer(c)
  PROVE  OneCallStep
<1>1. online' \in BOOLEAN /\ crashed' \in BOOLEAN
  BY DEF HangupTimer, IInv, TypeOK
<1>2. CASE call[c].mem = "alloc"
  <2>. DEFINE k == call[c]
              x == Hangup(k)
              h == [x EXCEPT !.tmr = FALSE]
  <2>1. k \in Struct /\ LiveInv(k) /\ k.mem = "alloc"
    BY <1>2 DEF IInv, TypeOK, CallInv
  <2>2. EndsWith(k, x)
    BY <2>1, HangupEnds
  <2>3. Put(c, h)
    BY <1>2 DEF HangupTimer
  <2>. HIDE DEF k, x
  <2>4. /\ h \in Struct /\ h.mem = x.mem /\ h.sess = x.sess /\ h.media = x.media
        /\ h.cstate = x.cstate /\ h.told = x.told /\ h.filed = x.filed
    BY <2>2 DEF EndsWith, Struct
  <2>. HIDE DEF h
  <2>5. FreedInv(h)
    BY <2>2, <2>4 DEF EndsWith, FreedInv
  <2>6. EndsWith(k, h)
    BY <2>2, <2>4, <2>5 DEF EndsWith
  <2>. QED
    BY <1>1, <1>2, <2>3, <2>6, PutShape DEF k
<1>3. CASE call[c].mem # "alloc"
  BY <1>1, <1>3 DEF HangupTimer, OneCallStep
<1>. QED
  BY <1>2, <1>3

LEMMA NextShape ==
  ASSUME IInv, Next
  PROVE  OneCallStep
<1>1. ASSUME NEW up \in BOOLEAN, SetOnline(up)
      PROVE  OneCallStep
  BY <1>1, SetOnlineShape
<1>2. ASSUME NEW key \in Key, NEW c \in Call, ControlAccept(key, c) \/ ControlBye(key, c)
      PROVE  OneCallStep
  BY <1>2, ControlAcceptShape, ControlByeShape
<1>3. ASSUME NEW c \in Call,
             \/ StartCall(c)   \/ Incoming(c)      \/ Progress(c)
             \/ Established(c) \/ Closed(c)        \/ GatherDone(c)
             \/ GatherStalled(c) \/ KeepAliveFail(c) \/ HangupTimer(c)
      PROVE  OneCallStep
  BY <1>3, StartCallShape, IncomingShape, ProgressShape, EstablishedShape, ClosedShape,
     GatherDoneShape, GatherStalledShape, KeepAliveFailShape, HangupTimerShape
<1>. QED
  BY <1>1, <1>2, <1>3 DEF Next

(***************************************************************************)
(* The invariant.                                                          *)
(***************************************************************************)
LEMMA InitInv ==
  ASSUME Init
  PROVE  IInv
<1>1. TypeOK
  <2>1. <<>> \in Seq(Call)
    OBVIOUS
  <2>. QED
    BY <2>1, NoCallType DEF Init, TypeOK
<1>2. NoCall.mem = "unused"
  BY DEF NoCall
<1>3. \A c \in Call : CallInv(call[c])
  BY <1>2 DEF Init, CallInv
<1>4. ListIsLive
  BY <1>2 DEF Init, ListIsLive
<1>. QED
  BY <1>1, <1>3, <1>4 DEF IInv

LEMMA StepInv ==
  ASSUME IInv, OneCallStep, setting' = setting
  PROVE  IInv'
<1>1. CASE UNCHANGED <<call, calls>>
  BY <1>1 DEF OneCallStep, IInv, TypeOK, ListIsLive
<1>2. ASSUME NEW c \in Call, NEW k \in Struct, Changes(c, k)
      PROVE  IInv'
  <2>1. /\ call' = [call EXCEPT ![c] = k] /\ call \in [Call -> Struct]
        /\ calls' = IF k.mem = "freed" THEN Unlink(calls, c) ELSE calls
        /\ calls \in Seq(Call) /\ Distinct(calls) /\ call[c].mem = "alloc"
    BY <1>2 DEF Changes, Put, IInv, TypeOK, ListIsLive, Distinct
  <2>2. call' \in [Call -> Struct] /\ call'[c] = k /\ \A x \in Call \ {c} : call'[x] = call[x]
    BY <2>1
  <2>3. CallInv(k) /\ k.mem \in {"alloc", "freed"}
    BY <1>2 DEF Changes, LivesOn, EndsWith, CallInv
  <2>4. \A x \in Call : CallInv(call'[x])
    BY <2>2, <2>3 DEF IInv
  <2>5. /\ calls' \in Seq(Call) /\ Distinct(calls')
        /\ \A x \in Call : (\E i \in DOMAIN calls' : calls'[i] = x)
                             <=> (\E i \in DOMAIN calls : calls[i] = x)
                                 /\ (x = c => k.mem # "freed")
    <3>1. CASE k.mem = "freed"
      <4>. DEFINE u == Unlink(calls, c)
      <4>1. /\ u \in Seq(Call) /\ Distinct(u)
            /\ \A x \in Call : (\E i \in DOMAIN u : u[i] = x)
                                 <=> (x # c /\ \E i \in DOMAIN calls : calls[i] = x)
        BY <2>1, UnlinkList
      <4>2. calls' = u
        BY <2>1, <3>1
      <4>. HIDE DEF u
      <4>. QED
        BY <3>1, <4>1, <4>2
    <3>2. CASE k.mem # "freed"
      BY <2>1, <3>2
    <3>. QED
      BY <3>1, <3>2
  <2>6. \A x \in Call : call'[x].mem = "alloc" <=> \E i \in DOMAIN calls' : calls'[i] = x
    <3>. TAKE x \in Call
    <3>1. call[x].mem = "alloc" <=> \E i \in DOMAIN calls : calls[i] = x
      BY DEF IInv, ListIsLive
    <3>2. CASE x = c
      BY <2>1, <2>2, <2>3, <2>5, <3>1, <3>2
    <3>3. CASE x # c
      BY <2>2, <2>5, <3>1, <3>3
    <3>. QED
      BY <3>2, <3>3
  <2>7. ListIsLive'
    BY <2>5, <2>6 DEF ListIsLive, Distinct
  <2>8. TypeOK'
    BY <2>2, <2>5 DEF IInv, TypeOK, OneCallStep
  <2>. QED
    BY <2>4, <2>7, <2>8 DEF IInv
<1>3. ASSUME NEW c \in Call, NEW k \in Struct, Begins(c, k)
      PROVE  IInv'
  <2>1. /\ call' = [call EXCEPT ![c] = k] /\ call \in [Call -> Struct]
        /\ calls' = Append(calls, c)
        /\ calls \in Seq(Call) /\ Distinct(calls) /\ call[c].mem # "alloc"
    BY <1>3 DEF Begins, IInv, TypeOK, ListIsLive, Distinct, NoCall
  <2>2. call' \in [Call -> Struct] /\ call'[c] = k /\ \A x \in Call \ {c} : call'[x] = call[x]
    BY <2>1
  <2>3. CallInv(k) /\ k.mem = "alloc"
    BY <1>3 DEF Begins, CallInv
  <2>4. \A x \in Call : CallInv(call'[x])
    BY <2>2, <2>3 DEF IInv
  <2>5. \A i \in DOMAIN calls : calls[i] # c
    BY <2>1 DEF IInv, ListIsLive
  <2>6. /\ calls' \in Seq(Call) /\ Distinct(calls')
        /\ \A x \in Call : (\E i \in DOMAIN calls' : calls'[i] = x)
                             <=> (x = c \/ \E i \in DOMAIN calls : calls[i] = x)
    BY <2>1, <2>5, AppendList
  <2>7. \A x \in Call : call'[x].mem = "alloc" <=> \E i \in DOMAIN calls' : calls'[i] = x
    <3>. TAKE x \in Call
    <3>1. call[x].mem = "alloc" <=> \E i \in DOMAIN calls : calls[i] = x
      BY DEF IInv, ListIsLive
    <3>2. CASE x = c
      BY <2>2, <2>3, <2>6, <3>2
    <3>3. CASE x # c
      BY <2>2, <2>6, <3>1, <3>3
    <3>. QED
      BY <3>2, <3>3
  <2>8. ListIsLive'
    BY <2>6, <2>7 DEF ListIsLive, Distinct
  <2>9. TypeOK'
    BY <2>2, <2>6 DEF IInv, TypeOK, OneCallStep
  <2>. QED
    BY <2>4, <2>8, <2>9 DEF IInv
<1>. QED
  BY <1>1, <1>2, <1>3 DEF OneCallStep

\* IInv holds in every reachable state of every instance.
THEOREM Invariant == Spec => []IInv
<1>1. Init => IInv
  BY InitInv
<1>2. IInv /\ [Next]_vars => IInv'
  <2>1. ASSUME IInv, UNCHANGED vars
        PROVE  IInv'
    BY <2>1 DEF vars, IInv, TypeOK, ListIsLive
  <2>2. ASSUME IInv, Next
        PROVE  IInv'
    BY <2>2, NextShape, StepInv DEF Next
  <2>. QED
    BY <2>1, <2>2
<1>. QED
  BY <1>1, <1>2, PTL DEF Spec

(***************************************************************************)
(* What the runs check on two calls, for any number of them.               *)
(***************************************************************************)

\* Every variable keeps its type, through each callback and command of Call.
THEOREM TypeCorrect == Spec => []TypeOK
<1>1. IInv => TypeOK
  BY DEF IInv
<1>. QED
  BY <1>1, Invariant, PTL

\* The list a ckey is looked up in (tcop_lookup over calls_c) holds exactly
\* the live calls, each once.
THEOREM ListExact == Spec => []ListIsLive
<1>1. IInv => ListIsLive
  BY DEF IInv
<1>. QED
  BY <1>1, Invariant, PTL

\* A call that tcsipcall_hangup freed has neither a session nor media left to
\* call back into it.
THEOREM NothingOutlives == Spec => []NothingOutlivesTheCall
<1>1. IInv => NothingOutlivesTheCall
  <2>. SUFFICES ASSUME IInv, NEW c \in Call, call[c].mem # "alloc"
                PROVE  call[c].sess = "null" /\ call[c].media = "null"
    BY DEF NothingOutlivesTheCall
  <2>. QED
    BY OnlyLiveHasCallbacks
<1>. QED
  BY <1>1, Invariant, PTL

\* No session starts before the ICE candidates of its media are gathered, so
\* the offer and answer handlers never use media that failed to allocate.
THEOREM MediaFirst == Spec => []MediaBeforeSession
<1>1. IInv => MediaBeforeSession
  <2>. SUFFICES ASSUME IInv, NEW c \in Call, call[c].sess \in {"inviting", "answered", "up"}
                PROVE  call[c].media \in {"ready", "started"}
    BY DEF MediaBeforeSession
  <2>1. LiveInv(call[c])
    BY OnlyLiveHasCallbacks
  <2>. QED
    BY <2>1 DEF LiveInv
<1>. QED
  BY <1>1, Invariant, PTL

\* tcmedia_start runs only for a call that is marked EST, no longer rings, and
\* whose session has the SDP of the peer.
THEOREM AudioInSession == Spec => []AudioOnlyInSession
<1>1. IInv => AudioOnlyInSession
  <2>. SUFFICES ASSUME IInv, NEW c \in Call, call[c].media = "started"
                PROVE  /\ {"EST", "FLOW", "MEDIA"} \subseteq call[c].cstate
                       /\ call[c].cstate \cap RING = {}
                       /\ call[c].sess \in {"inviting", "up"}
    BY DEF AudioOnlyInSession
  <2>1. LiveInv(call[c])
    BY OnlyLiveHasCallbacks
  <2>. QED
    BY <2>1 DEF LiveInv
<1>. QED
  BY <1>1, Invariant, PTL

\* media_event never answers an incoming call the user has not accepted.
THEOREM UserAnswers == Spec => []AnswerNeedsUser
<1>1. IInv => AnswerNeedsUser
  <2>. SUFFICES ASSUME IInv, NEW c \in Call, call[c].cdir = "IN",
                       call[c].sess \in {"answered", "up"} \/ "EST" \in call[c].cstate
                PROVE  call[c].asked
    BY DEF AnswerNeedsUser
  <2>1. call[c] \in Struct /\ CallInv(call[c])
    BY DEF IInv, TypeOK
  <2>2. call[c].mem \notin {"unused", "freed"}
    BY <2>1 DEF CallInv, NoCall, FreedInv, ALIVE
  <2>3. LiveInv(call[c])
    BY <2>1, <2>2 DEF CallInv, Struct
  <2>. QED
    BY <2>3 DEF LiveInv, RING
<1>. QED
  BY <1>1, Invariant, PTL

\* report_call_change sends add, then est, then one del; tcsip_call_history
\* files the call once, with that del.
THEOREM OrderedReports == Spec => []ReportsInOrder
<1>1. IInv => ReportsInOrder
  <2>. SUFFICES ASSUME IInv, NEW c \in Call
                PROVE  LET t == call[c].told IN
                       /\ t = <<>> <=> call[c].mem = "unused"
                       /\ \A i \in DOMAIN t : t[i].msg = "add" <=> i = 1
                       /\ \A i \in DOMAIN t :
                            t[i].msg = "del" <=> (i = Len(t) /\ call[c].mem = "freed")
                       /\ Len(call[c].filed) = IF call[c].mem = "freed" THEN 1 ELSE 0
    BY DEF ReportsInOrder
  <2>. DEFINE k == call[c]
  <2>1. k \in Struct /\ CallInv(k) /\ k.told \in Seq(Report)
    BY DEF IInv, TypeOK, Struct
  <2>. HIDE DEF k
  <2>2. k.mem \in {"unused", "alloc", "freed"}
    BY <2>1 DEF Struct
  <2>3. CASE k.mem = "unused"
    <3>1. k.told = <<>> /\ k.filed = <<>>
      BY <2>1, <2>3 DEF CallInv, NoCall
    <3>. QED
      BY <2>3, <3>1 DEF k
  <2>4. CASE k.mem = "alloc"
    <3>1. /\ k.told # <<>> /\ k.filed = <<>>
          /\ \A i \in DOMAIN k.told : k.told[i].msg = IF i = 1 THEN "add" ELSE "est"
      BY <2>1, <2>4 DEF CallInv, LiveInv
    <3>. QED
      BY <2>4, <3>1 DEF k
  <2>5. CASE k.mem = "freed"
    <3>1. /\ Len(k.told) > 1 /\ Len(k.filed) = 1
          /\ \A i \in DOMAIN k.told : k.told[i].msg =
               IF i = 1 THEN "add" ELSE IF i = Len(k.told) THEN "del" ELSE "est"
      BY <2>1, <2>5 DEF CallInv, FreedInv
    <3>2. k.told # <<>> /\ Len(k.told) \in Nat
      BY <2>1, <3>1
    <3>. QED
      BY <2>5, <3>1, <3>2 DEF k
  <2>. QED
    BY <2>2, <2>3, <2>4, <2>5 DEF k
<1>. QED
  BY <1>1, Invariant, PTL

\* Only the step that frees a call takes EST from it.
THEOREM EstKept == Spec => EstUntilFreed
<1>. DEFINE A == \A c \in Call : "EST" \in call[c].cstate
                   => "EST" \in call'[c].cstate \/ call'[c].mem = "freed"
<1>1. IInv /\ [Next]_vars => [A]_vars
  <2>. SUFFICES ASSUME IInv, Next, NEW c \in Call, "EST" \in call[c].cstate
                PROVE  "EST" \in call'[c].cstate \/ call'[c].mem = "freed"
    OBVIOUS
  <2>1. OneCallStep /\ call \in [Call -> Struct]
    BY NextShape DEF IInv, TypeOK
  <2>2. ASSUME NEW d \in Call, NEW k \in Struct, Changes(d, k)
        PROVE  "EST" \in call'[c].cstate \/ call'[c].mem = "freed"
    BY <2>1, <2>2 DEF Changes, Put, LivesOn, EndsWith
  <2>3. ASSUME NEW d \in Call, NEW k \in Struct, Begins(d, k)
        PROVE  "EST" \in call'[c].cstate \/ call'[c].mem = "freed"
    BY <2>1, <2>3 DEF Begins, NoCall
  <2>. QED
    BY <2>1, <2>2, <2>3 DEF OneCallStep
<1>. QED
  BY <1>1, Invariant, PTL DEF Spec, EstUntilFreed

(***************************************************************************)
(* Call implements CallService.                                            *)
(***************************************************************************)
LEMMA NoCallMaps ==
  Phase(NoCall) = "absent" /\ Why(NoCall) = "NONE" /\ Filed(NoCall) = "none"
BY DEF NoCall, Phase, Why, Filed

LEMMA LiveMaps ==
  ASSUME NEW k \in Struct, LiveInv(k)
  PROVE  /\ Phase(k) = IF Len(k.told) > 1 THEN "established" ELSE "announced"
         /\ Why(k) = "NONE" /\ Filed(k) = "none"
<1>1. k.told \in Seq(Report) /\ k.told # <<>> /\ k.filed = <<>>
  BY DEF Struct, LiveInv
<1>2. Len(k.told) \in Nat /\ Len(k.told) >= 1 /\ Len(k.told) \in DOMAIN k.told
  BY <1>1
<1>3. k.told[Len(k.told)].msg = IF Len(k.told) = 1 THEN "add" ELSE "est"
  BY <1>2 DEF LiveInv
<1>4. Phase(k) = IF Len(k.told) > 1 THEN "established" ELSE "announced"
  <2>1. CASE Len(k.told) = 1
    BY <1>1, <1>3, <2>1 DEF Phase
  <2>2. CASE Len(k.told) > 1
    <3>1. k.told[Len(k.told)].msg = "est"
      BY <1>2, <1>3, <2>2
    <3>. QED
      BY <1>1, <2>2, <3>1, Zenon DEF Phase
  <2>3. \A l \in Nat : l >= 1 => l = 1 \/ l > 1
    OBVIOUS
  <2>4. Len(k.told) = 1 \/ Len(k.told) > 1
    BY <1>2, <2>3
  <2>. QED
    BY <2>1, <2>2, <2>4
<1>. QED
  BY <1>1, <1>4 DEF Why, Filed

LEMMA EndMaps ==
  ASSUME NEW k \in Struct, LiveInv(k), NEW h, NEW r \in Reasons \ {"NONE"},
         h.told = Append(k.told, [msg |-> "del", reason |-> r]),
         h.filed = Append(k.filed, IF r = "OK" THEN "OK" ELSE "HANG")
  PROVE  /\ Phase(h) = "ended" /\ Why(h) = r
         /\ Filed(h) = IF r = "OK" THEN "OK" ELSE "HANG"
<1>. DEFINE d == [msg |-> "del", reason |-> r]
            v == IF r = "OK" THEN "OK" ELSE "HANG"
<1>1. k.told \in Seq(Report) /\ k.filed = <<>> /\ d \in Report
  BY DEF Struct, LiveInv, Report
<1>2. h.told # <<>> /\ h.told[Len(h.told)] = d
  BY <1>1
<1>3. h.filed # <<>> /\ h.filed[Len(h.filed)] = v
  BY <1>1
<1>4. Phase(h) = "ended"
  BY <1>2 DEF Phase
<1>. QED
  BY <1>2, <1>3, <1>4 DEF Why, Filed

LEMMA LiveStepMaps ==
  ASSUME NEW k \in Struct, LiveInv(k), NEW h, LivesOn(k, h)
  PROVE  /\ Why(h) = Why(k) /\ Filed(h) = Filed(k)
         /\ \/ Phase(h) = Phase(k)
            \/ Phase(k) = "announced" /\ Phase(h) = "established"
<1>1. h \in Struct /\ LiveInv(h)
  BY DEF LivesOn
<1>2. k.told \in Seq(Report) /\ k.told # <<>>
  BY DEF Struct, LiveInv
<1>3. Len(h.told) > 1 \/ h.told = k.told
  <2>1. CASE h.told = Append(k.told, [msg |-> "est", reason |-> "NONE"])
    <3>1. Len(h.told) = Len(k.told) + 1
      BY <1>2, <2>1
    <3>2. Len(k.told) \in Nat /\ Len(k.told) > 0
      BY <1>2
    <3>. QED
      BY <3>1, <3>2
  <2>. QED
    BY <2>1 DEF LivesOn
<1>. QED
  BY <1>1, <1>3, LiveMaps

LEMMA StepMaps ==
  ASSUME IInv, OneCallStep
  PROVE  [Service!ServiceNext]_(Service!svars)
<1>. DEFINE phase  == [c \in Call |-> Phase(call[c])]
            reason == [c \in Call |-> Why(call[c])]
            filed  == [c \in Call |-> Filed(call[c])]
<1>1. call \in [Call -> Struct]
  BY DEF IInv, TypeOK
<1>2. CASE UNCHANGED <<call, calls>>
  BY <1>2 DEF Service!svars
<1>3. ASSUME NEW c \in Call, NEW k \in Struct, Changes(c, k)
      PROVE  [Service!ServiceNext]_(Service!svars)
  <2>1. call' = [call EXCEPT ![c] = k] /\ LiveInv(call[c]) /\ call[c] \in Struct
    BY <1>1, <1>3 DEF Changes, Put, IInv, CallInv
  <2>2. /\ phase'  = [phase EXCEPT ![c] = Phase(k)]
        /\ reason' = [reason EXCEPT ![c] = Why(k)]
        /\ filed'  = [filed EXCEPT ![c] = Filed(k)]
    BY <1>1, <2>1
  <2>3. CASE LivesOn(call[c], k)
    <3>1. /\ Why(k) = reason[c] /\ Filed(k) = filed[c]
          /\ \/ Phase(k) = phase[c]
             \/ phase[c] = "announced" /\ Phase(k) = "established"
      BY <2>1, <2>3, LiveStepMaps
    <3>2. reason' = reason /\ filed' = filed
      BY <2>2, <3>1
    <3>3. CASE Phase(k) = phase[c]
      BY <2>2, <3>2, <3>3 DEF Service!svars
    <3>4. CASE phase[c] = "announced" /\ Phase(k) = "established"
      BY <2>2, <3>2, <3>4 DEF Service!ServiceNext, Service!Establish
    <3>. QED
      BY <3>1, <3>3, <3>4
  <2>4. CASE EndsWith(call[c], k)
    <3>1. PICK r \in Reasons \ {"NONE"} :
            /\ k.told = Append(call[c].told, [msg |-> "del", reason |-> r])
            /\ k.filed = Append(call[c].filed, IF r = "OK" THEN "OK" ELSE "HANG")
            /\ "EST" \in call[c].cstate => r = "OK"
      BY <2>4 DEF EndsWith
    <3>2. /\ Phase(k) = "ended" /\ Why(k) = r
          /\ Filed(k) = IF r = "OK" THEN "OK" ELSE "HANG"
      BY <2>1, <3>1, EndMaps
    <3>3. /\ phase[c] \in {"announced", "established"}
          /\ phase[c] = "established" => "EST" \in call[c].cstate
      BY <2>1, LiveMaps DEF LiveInv
    <3>4. Service!End(c, r)
      BY <2>2, <3>1, <3>2, <3>3 DEF Service!End, Service!Reasons, Reasons
    <3>. QED
      BY <3>4 DEF Service!ServiceNext, Service!Reasons, Reasons
  <2>. QED
    BY <1>3, <2>3, <2>4 DEF Changes
<1>4. ASSUME NEW c \in Call, NEW k \in Struct, Begins(c, k)
      PROVE  [Service!ServiceNext]_(Service!svars)
  <2>1. call' = [call EXCEPT ![c] = k] /\ call[c] = NoCall /\ LiveInv(k)
    BY <1>4 DEF Begins
  <2>10. ~(Len(k.told) > 1)
    BY <1>4 DEF Begins
  <2>2. /\ phase'  = [phase EXCEPT ![c] = Phase(k)]
        /\ reason' = [reason EXCEPT ![c] = Why(k)]
        /\ filed'  = [filed EXCEPT ![c] = Filed(k)]
    BY <1>1, <2>1
  <2>3. Phase(k) = "announced" /\ Why(k) = "NONE" /\ Filed(k) = "none"
    <3>1. LiveInv(k) => /\ Phase(k) = IF Len(k.told) > 1 THEN "established" ELSE "announced"
                        /\ Why(k) = "NONE" /\ Filed(k) = "none"
      BY LiveMaps
    <3>. QED
      BY <2>1, <2>10, <3>1
  <2>4. phase[c] = "absent" /\ reason[c] = "NONE" /\ filed[c] = "none"
    BY <2>1, NoCallMaps
  <2>5. reason' = reason /\ filed' = filed
    <3>1. \A x \in Call : call'[x] = IF x = c THEN k ELSE call[x]
      BY <1>1, <2>1
    <3>2. Why(k) = Why(call[c]) /\ Filed(k) = Filed(call[c])
      BY <2>1, <2>3, NoCallMaps
    <3>3. \A x \in Call : Why(call'[x]) = Why(call[x]) /\ Filed(call'[x]) = Filed(call[x])
      BY <3>1, <3>2
    <3>. QED
      BY <3>3
  <2>6. Service!Announce(c)
    BY <2>2, <2>3, <2>4, <2>5 DEF Service!Announce
  <2>. QED
    BY <2>6 DEF Service!ServiceNext
<1>. QED
  BY <1>2, <1>3, <1>4 DEF OneCallStep

\* What the user interface and the history are given, whatever the order of
\* callbacks, is a behaviour CallService allows.
THEOREM Refinement == Spec => ImplementsService
<1>1. Init => Service!ServiceInit
  BY NoCallMaps DEF Init, Service!ServiceInit
<1>2. IInv /\ [Next]_vars => [Service!ServiceNext]_(Service!svars)
  <2>1. ASSUME IInv, UNCHANGED vars
        PROVE  UNCHANGED Service!svars
    BY <2>1 DEF vars, Service!svars
  <2>2. ASSUME IInv, Next
        PROVE  [Service!ServiceNext]_(Service!svars)
    BY <2>2, NextShape, StepMaps
  <2>. QED
    BY <2>1, <2>2
<1>. QED
  BY <1>1, <1>2, Invariant, PTL DEF Spec, ImplementsService, Service!ServiceSpec

(***************************************************************************)
(* No live call is left with nothing to wait for.                          *)
(***************************************************************************)
Waits(k) ==
  /\ k.media = "stalled" => "dns" \in Faults
  /\ k.cstate \cap {"ICE", "ERR"} = {} => k.media \in {"gathering", "stalled"}
  /\ (k.cdir = "OUT" /\ k.sess = "null" /\ "ERR" \notin k.cstate)
       => k.media \in {"gathering", "stalled"}
  /\ (AllAreFlagged /\ k.cdir = "IN" /\ "EST" \in k.cstate) => k.sess \in {"answered", "up"}
  /\ (/\ AllAreFlagged /\ k.asked /\ k.cdir = "IN"
      /\ k.sess \notin {"answered", "up"} /\ "ERR" \notin k.cstate)
       => k.media = "gathering" /\ "IN_RING" \notin k.cstate

WaitInv == \A c \in Call : call[c].mem = "alloc" => Waits(call[c])

\* a step that leaves one call waiting, or frees it
LeavesWaiting == \E c \in Call, k \in Struct :
  call' = [call EXCEPT ![c] = k] /\ (k.mem = "alloc" => Waits(k))

LEMMA AcceptWaits ==
  ASSUME NEW k \in Struct, LiveInv(k), Waits(k), NEW j, j = [k EXCEPT !.asked = TRUE],
         NEW o \in Outcomes("offer"), NEW a \in Outcomes("answer")
  PROVE  Waits(Accept(j, o, a))
<1>. DEFINE h == Accept(j, o, a)
<1>1. /\ j \in Struct /\ j.cdir = k.cdir /\ j.cstate = k.cstate /\ j.sess = k.sess
      /\ j.media = k.media /\ j.asked
  BY DEF Struct
<1>2. AllAreFlagged => o /\ a
  BY DEF AllAreFlagged, Outcomes
<1>3. AllAreFlagged => k.media # "stalled"
  BY DEF AllAreFlagged, Waits
<1>4. CASE k.cstate \cap {"ERR", "EST"} # {} \/ k.cdir # "IN"
  <2>1. h = j
    BY <1>1, <1>4 DEF Accept
  <2>2. k.cdir = "IN" => "EST" \in k.cstate \/ "ERR" \in k.cstate
    BY <1>4
  <2>. QED
    BY <1>1, <2>1, <2>2 DEF Waits
<1>5. CASE /\ k.cstate \cap {"ERR", "EST"} = {} /\ k.cdir = "IN"
           /\ "ICE" \notin k.cstate \/ ~o
  <2>1. h = [j EXCEPT !.cstate = @ \ RING]
    BY <1>1, <1>5 DEF Accept
  <2>2. /\ h.cdir = "IN" /\ h.cstate = k.cstate \ RING /\ h.media = k.media
        /\ "EST" \notin h.cstate
    <3>. HIDE DEF h
    <3>1. h.cdir = j.cdir /\ h.cstate = j.cstate \ RING /\ h.media = j.media
      BY <1>1, <2>1 DEF Struct
    <3>2. "EST" \notin k.cstate
      BY <1>5
    <3>. QED
      BY <1>1, <1>5, <3>1, <3>2
  <2>3. h.cstate \cap {"ICE", "ERR"} = k.cstate \cap {"ICE", "ERR"}
        /\ "IN_RING" \notin h.cstate
    BY <2>2 DEF RING
  <2>4. AllAreFlagged => h.media = "gathering"
    <3>1. AllAreFlagged => k.cstate \cap {"ICE", "ERR"} = {}
      BY <1>2, <1>5
    <3>. QED
      BY <1>3, <2>2, <3>1 DEF Waits
  <2>. QED
    BY <2>2, <2>3, <2>4 DEF Waits
<1>6. CASE /\ k.cstate \cap {"ERR", "EST"} = {} /\ k.cdir = "IN"
           /\ "ICE" \in k.cstate /\ o
  <2>1. h = [j EXCEPT !.cstate = (@ \ RING) \cup {"EST"},
                      !.sess = IF a THEN "answered" ELSE @]
    BY <1>1, <1>6 DEF Accept
  <2>2. h.cdir = "IN" /\ h.cstate = (k.cstate \ RING) \cup {"EST"} /\ h.media = k.media
    <3>. HIDE DEF h
    <3>1. h.cdir = j.cdir /\ h.cstate = (j.cstate \ RING) \cup {"EST"} /\ h.media = j.media
      BY <1>1, <2>1 DEF Struct
    <3>. QED
      BY <1>1, <1>6, <3>1
  <2>3. "EST" \in h.cstate /\ "ICE" \in h.cstate
    BY <1>6, <2>2 DEF RING
  <2>4. AllAreFlagged => h.sess = "answered"
    <3>. HIDE DEF h
    <3>. QED
      BY <1>1, <1>2, <2>1 DEF Struct
  <2>. QED
    BY <2>2, <2>3, <2>4 DEF Waits
<1>. QED
  BY <1>4, <1>5, <1>6

LEMMA IceOkWaits ==
  ASSUME NEW k \in Struct, LiveInv(k), Waits(k), k.media = "gathering",
         NEW n \in BOOLEAN, NEW o \in Outcomes("offer"), NEW a \in Outcomes("answer")
  PROVE  Waits(IceOk(k, n, o, a))
<1>. DEFINE y == [k EXCEPT !.media = "ready", !.cstate = @ \cup {"ICE"}]
            h == IceOk(k, n, o, a)
<1>1. /\ y \in Struct /\ y.cdir = k.cdir /\ y.cstate = k.cstate \cup {"ICE"}
      /\ y.sess = k.sess /\ y.media = "ready" /\ y.asked = k.asked
  BY DEF Struct, Flags, Media
<1>2. h = IF k.cdir = "OUT" THEN Send(y, n)
          ELSE IF "IN_RING" \notin k.cstate THEN Accept(y, o, a) ELSE y
  BY DEF IceOk
<1>3. AllAreFlagged => o /\ a
  BY DEF AllAreFlagged, Outcomes
<1>4. k.cdir \in {"IN", "OUT"} /\ "EST" \notin k.cstate
  BY DEF LiveInv
<1>8. k.sess \notin {"answered", "up"}
  BY DEF LiveInv
<1>. HIDE DEF y, h
<1>5. CASE k.cdir = "OUT"
  <2>1. CASE n
    <3>1. h = [y EXCEPT !.cstate = @ \cup {"OUT_RING"}, !.sess = "inviting"]
      BY <1>2, <1>5, <2>1 DEF Send
    <3>2. h.cdir = "OUT" /\ h.sess = "inviting" /\ "ICE" \in h.cstate /\ h.media = "ready"
      BY <1>1, <1>5, <3>1 DEF Struct
    <3>. QED
      BY <3>2 DEF Waits, h
  <2>2. CASE ~n
    <3>1. h = [y EXCEPT !.cstate = @ \cup {"ERR"}]
      BY <1>2, <1>5, <2>2 DEF Send
    <3>2. h.cdir = "OUT" /\ "ERR" \in h.cstate /\ h.media = "ready"
      BY <1>1, <1>5, <3>1 DEF Struct
    <3>. QED
      BY <3>2 DEF Waits, h
  <2>. QED
    BY <2>1, <2>2
<1>6. CASE k.cdir = "IN" /\ "IN_RING" \in k.cstate
  <2>1. h = y
    BY <1>2, <1>6
  <2>2. (AllAreFlagged /\ k.asked) => "ERR" \in k.cstate
    BY <1>6, <1>8 DEF Waits
  <2>. QED
    BY <1>1, <1>4, <1>6, <2>1, <2>2 DEF Waits, h
<1>7. CASE k.cdir = "IN" /\ "IN_RING" \notin k.cstate
  <2>1. h = Accept(y, o, a)
    BY <1>2, <1>7
  <2>2. CASE "ERR" \in k.cstate
    <3>1. h = y
      BY <1>1, <2>1, <2>2 DEF Accept
    <3>. QED
      BY <1>1, <1>4, <1>7, <2>2, <3>1 DEF Waits, h
  <2>3. CASE "ERR" \notin k.cstate /\ ~o
    <3>1. h = [y EXCEPT !.cstate = @ \ RING]
      BY <1>1, <1>4, <1>7, <2>1, <2>3 DEF Accept
    <3>2. h.cdir = "IN" /\ "ICE" \in h.cstate /\ h.media = "ready" /\ "EST" \notin h.cstate
      BY <1>1, <1>4, <1>7, <3>1 DEF Struct, RING
    <3>. QED
      BY <1>3, <2>3, <3>2 DEF Waits, h
  <2>4. CASE "ERR" \notin k.cstate /\ o
    <3>1. h = [y EXCEPT !.cstate = (@ \ RING) \cup {"EST"},
                        !.sess = IF a THEN "answered" ELSE @]
      BY <1>1, <1>4, <1>7, <2>1, <2>4 DEF Accept
    <3>2. h.cdir = "IN" /\ "ICE" \in h.cstate /\ "EST" \in h.cstate /\ h.media = "ready"
      BY <1>1, <1>7, <3>1 DEF Struct, RING
    <3>3. AllAreFlagged => h.sess = "answered"
      BY <1>1, <1>3, <3>1 DEF Struct
    <3>. QED
      BY <3>2, <3>3 DEF Waits, h
  <2>. QED
    BY <2>2, <2>3, <2>4
<1>. QED
  BY <1>4, <1>5, <1>6, <1>7

\* a session event: whatever becomes of the audio, the call has a session and, if it
\* is incoming, its 200 is sent
LEMMA ActivateWaits ==
  ASSUME NEW k \in Struct, LiveInv(k), Waits(k), k.sess \in {"inviting", "answered"},
         NEW s \in BOOLEAN, NEW a, a = Activate(k, s),
         NEW h, h.cdir = a.cdir, h.cstate = a.cstate, h.media = a.media,
         h.sess = "up" \/ h.sess = k.sess
  PROVE  Waits(h)
<1>1. /\ "ICE" \in k.cstate /\ k.media \in {"ready", "started"}
      /\ {"FLOW", "MEDIA"} \subseteq k.cstate => "EST" \in k.cstate
  BY DEF LiveInv
<1>2. /\ "ICE" \in h.cstate /\ "EST" \in h.cstate /\ h.media \in {"ready", "started"}
  <2>1. CASE {"FLOW", "MEDIA"} \subseteq k.cstate
    BY <1>1, <2>1 DEF Activate
  <2>2. CASE ~({"FLOW", "MEDIA"} \subseteq k.cstate)
    BY <1>1, <2>2, ActivateFields DEF RING
  <2>. QED
    BY <2>1, <2>2
<1>3. h.cdir = k.cdir
  <2>1. CASE {"FLOW", "MEDIA"} \subseteq k.cstate
    BY <2>1 DEF Activate
  <2>2. CASE ~({"FLOW", "MEDIA"} \subseteq k.cstate)
    BY <2>2, ActivateFields
  <2>. QED
    BY <2>1, <2>2
<1>4. h.sess # "null" /\ (h.cdir = "IN" => h.sess \in {"answered", "up"})
  BY <1>3 DEF LiveInv
<1>. QED
  BY <1>2, <1>4 DEF Waits

LEMMA BornWaiting ==
  ASSUME NEW ok \in BOOLEAN, NEW dir \in {"IN", "OUT"}, NEW k,
         LET a == Allocated(dir, ok) IN
         /\ k.cdir = a.cdir /\ k.media = a.media /\ k.asked = a.asked
         /\ a.cstate \subseteq k.cstate /\ k.cstate \subseteq a.cstate \cup {"ERR"}
  PROVE  Waits(k)
<1>. DEFINE a == Allocated(dir, ok)
<1>1. /\ a.cdir = dir /\ a.asked = FALSE
      /\ a.media = (IF ok THEN "gathering" ELSE "null")
      /\ ~ok => "ERR" \in a.cstate
      /\ "EST" \notin a.cstate
  BY NoCallType DEF Allocated, NoCall
<1>. HIDE DEF a
<1>2. k.media = (IF ok THEN "gathering" ELSE "null") /\ ~k.asked
      /\ (~ok => "ERR" \in k.cstate) /\ "EST" \notin k.cstate
  BY <1>1 DEF a
<1>. QED
  BY <1>2 DEF Waits

LEMMA BeginWaits ==
  ASSUME IInv, NEW c \in Call, StartCall(c) \/ Incoming(c)
  PROVE  LeavesWaiting
<1>. DEFINE t == <<[msg |-> "add", reason |-> "NONE"]>>
<1>1. t \in Seq(Report)
  BY DEF Report, Reasons
<1>2. \A dir \in {"IN", "OUT"}, ok \in BOOLEAN : Allocated(dir, ok) \in Struct
  BY <1>1, NoCallType DEF Allocated, NoCall, Struct, Flags, Dirs, Media, t
<1>3. CASE StartCall(c)
  <2>1. PICK ok \in BOOLEAN : call' = [call EXCEPT ![c] = Allocated("OUT", ok)]
    BY <1>3 DEF StartCall, Outcomes
  <2>. DEFINE k == Allocated("OUT", ok)
  <2>2. k \in Struct
    BY <1>2
  <2>3. Waits(k)
    BY BornWaiting
  <2>. QED
    BY <2>1, <2>2, <2>3 DEF LeavesWaiting
<1>4. CASE Incoming(c)
  <2>1. PICK ok \in BOOLEAN, acc \in BOOLEAN :
          call' = [call EXCEPT ![c] =
                    [Allocated("IN", ok) EXCEPT
                       !.sess = IF acc THEN "ringing" ELSE "null",
                       !.cstate = IF acc THEN @ ELSE @ \cup {"ERR"}]]
    BY <1>4 DEF Incoming, Outcomes
  <2>. DEFINE a == Allocated("IN", ok)
              ss == IF acc THEN "ringing" ELSE "null"
              cs == IF acc THEN a.cstate ELSE a.cstate \cup {"ERR"}
              k == [a EXCEPT !.sess = ss, !.cstate = cs]
  <2>2. a \in Struct
    BY <1>2
  <2>3. call' = [call EXCEPT ![c] = k]
    BY <2>1
  <2>. HIDE DEF a
  <2>4. cs \in SUBSET Flags /\ ss \in Sess /\ a.cstate \subseteq cs
        /\ cs \subseteq a.cstate \cup {"ERR"}
    BY <2>2 DEF Struct, Flags, Sess
  <2>. HIDE DEF cs, ss
  <2>5. /\ k \in Struct /\ k.cdir = a.cdir /\ k.media = a.media /\ k.asked = a.asked
        /\ a.cstate \subseteq k.cstate /\ k.cstate \subseteq a.cstate \cup {"ERR"}
    BY <2>2, <2>4 DEF Struct
  <2>. HIDE DEF k
  <2>6. Waits(k)
    BY <2>5, BornWaiting DEF a
  <2>. QED
    BY <2>3, <2>5, <2>6 DEF LeavesWaiting
<1>. QED
  BY <1>3, <1>4

LEMMA HangupLeaves ==
  ASSUME NEW c \in Call, NEW k, Put(c, k), EndsWith(call[c], k)
  PROVE  LeavesWaiting
BY DEF LeavesWaiting, Put, EndsWith

LEMMA CommandWaits ==
  ASSUME IInv, WaitInv, NEW c \in Call, NEW key, ControlAccept(key, c) \/ ControlBye(key, c)
  PROVE  LeavesWaiting
<1>1. call[c].mem = "alloc" /\ LiveInv(call[c]) /\ call[c] \in Struct
  BY FoundIsLive DEF ControlAccept, ControlBye
<1>2. Waits(call[c])
  BY <1>1 DEF WaitInv
<1>3. CASE ControlAccept(key, c)
  <2>. DEFINE j == [call[c] EXCEPT !.asked = TRUE]
  <2>1. PICK o \in Outcomes("offer"), a \in Outcomes("answer") : Put(c, Accept(j, o, a))
    BY <1>3 DEF ControlAccept
  <2>2. o \in BOOLEAN /\ a \in BOOLEAN
    BY DEF Outcomes
  <2>3. Quiet(call[c], j) /\ j.asked
    BY <1>1 DEF Quiet, Struct
  <2>. HIDE DEF j
  <2>4. LivesOn(j, Accept(j, o, a))
    BY <1>1, <2>2, <2>3, QuietLives, AcceptLives DEF LivesOn
  <2>5. Waits(Accept(j, o, a))
    BY <1>1, <1>2, AcceptWaits DEF j
  <2>. QED
    BY <2>1, <2>4, <2>5 DEF LeavesWaiting, LivesOn, Put
<1>4. CASE ControlBye(key, c)
  BY <1>1, <1>4, ByeEnds, HangupLeaves DEF ControlBye
<1>. QED
  BY <1>3, <1>4

LEMMA SessionWaits ==
  ASSUME IInv, WaitInv, NEW c \in Call, Progress(c) \/ Established(c) \/ Closed(c)
  PROVE  LeavesWaiting
<1>. DEFINE k == call[c]
<1>1. k.mem = "alloc" /\ LiveInv(k) /\ k \in Struct
  BY OnlyLiveHasCallbacks DEF Progress, Established, Closed
<1>2. Waits(k)
  BY <1>1 DEF WaitInv
<1>3. ASSUME NEW s \in BOOLEAN, ~Closed(c)
      PROVE  Activate(k, s) \in Struct /\ Activate(k, s).sess = k.sess
             /\ Activate(k, s).early = k.early
  <2>1. CASE {"FLOW", "MEDIA"} \subseteq k.cstate
    BY <1>1, <2>1 DEF Activate
  <2>2. CASE ~({"FLOW", "MEDIA"} \subseteq k.cstate)
    BY <1>1, <2>2, ActivateFields
  <2>. QED
    BY <2>1, <2>2
<1>4. CASE Closed(c)
  BY <1>1, <1>4, HangupEnds, HangupLeaves DEF Closed
<1>5. CASE Progress(c) /\ ~Closed(c)
  <2>1. PICK s \in BOOLEAN : Put(c, [Activate(k, s) EXCEPT !.early = @ + 1])
    BY <1>5 DEF Progress, Outcomes
  <2>2. k.sess = "inviting" /\ k.early < MaxEarly /\ k.early \in 0 .. MaxEarly
    BY <1>1, <1>5 DEF Progress, Struct
  <2>. DEFINE a == Activate(k, s)
              h == [a EXCEPT !.early = @ + 1]
  <2>3. a \in Struct /\ a.sess = k.sess /\ a.early = k.early
    BY <1>3, <1>5
  <2>4. call' = [call EXCEPT ![c] = h]
    BY <2>1 DEF Put
  <2>. HIDE DEF a, k
  <2>5. a.early + 1 \in 0 .. MaxEarly
    BY <2>2, <2>3, CallAssumption
  <2>6. /\ h \in Struct /\ h.sess = "inviting"
        /\ h.cdir = a.cdir /\ h.cstate = a.cstate /\ h.media = a.media
    BY <2>2, <2>3, <2>5 DEF Struct
  <2>. HIDE DEF h
  <2>7. Waits(h)
    BY <1>1, <1>2, <2>2, <2>6, ActivateWaits DEF a
  <2>. QED
    BY <2>4, <2>6, <2>7 DEF LeavesWaiting
<1>6. CASE Established(c) /\ ~Closed(c)
  <2>1. PICK s \in BOOLEAN : Put(c, [Activate(k, s) EXCEPT !.sess = "up"])
    BY <1>6 DEF Established, Outcomes
  <2>2. k.sess \in {"inviting", "answered"}
    BY <1>6 DEF Established
  <2>. DEFINE a == Activate(k, s)
              h == [a EXCEPT !.sess = "up"]
  <2>3. a \in Struct
    BY <1>3, <1>6
  <2>4. call' = [call EXCEPT ![c] = h]
    BY <2>1 DEF Put
  <2>. HIDE DEF a, k
  <2>5. /\ h \in Struct /\ h.sess = "up"
        /\ h.cdir = a.cdir /\ h.cstate = a.cstate /\ h.media = a.media
    BY <2>3 DEF Struct, Sess
  <2>. HIDE DEF h
  <2>6. Waits(h)
    BY <1>1, <1>2, <2>2, <2>5, ActivateWaits DEF a
  <2>. QED
    BY <2>4, <2>5, <2>6 DEF LeavesWaiting
<1>. QED
  BY <1>4, <1>5, <1>6

LEMMA MediaWaits ==
  ASSUME IInv, WaitInv, NEW c \in Call,
         GatherDone(c) \/ GatherStalled(c) \/ KeepAliveFail(c)
  PROVE  LeavesWaiting
<1>. DEFINE k == call[c]
<1>1. k.mem = "alloc" /\ LiveInv(k) /\ k \in Struct
  BY OnlyLiveHasCallbacks DEF GatherDone, GatherStalled, KeepAliveFail
<1>2. Waits(k)
  BY <1>1 DEF WaitInv
<1>3. CASE GatherDone(c)
  <2>1. PICK n \in BOOLEAN, o \in Outcomes("offer"), a \in Outcomes("answer") :
          Put(c, IceOk(k, n /\ online, o, a))
    BY <1>3 DEF GatherDone, Outcomes
  <2>. DEFINE m == n /\ online
  <2>2. m \in BOOLEAN /\ o \in BOOLEAN /\ a \in BOOLEAN /\ k.media = "gathering"
    BY <1>3 DEF GatherDone, Outcomes
  <2>3. Put(c, IceOk(k, m, o, a))
    BY <2>1
  <2>. HIDE DEF m, k
  <2>4. Waits(IceOk(k, m, o, a)) /\ LivesOn(k, IceOk(k, m, o, a))
    BY <1>1, <1>2, <2>2, IceOkWaits, IceOkLives
  <2>. QED
    BY <2>3, <2>4 DEF LeavesWaiting, LivesOn, Put
<1>4. CASE GatherStalled(c)
  <2>. DEFINE h == [k EXCEPT !.media = "stalled"]
  <2>1. "dns" \in Faults /\ call' = [call EXCEPT ![c] = h]
    BY <1>4 DEF GatherStalled, Put
  <2>. HIDE DEF k
  <2>2. /\ h \in Struct /\ h.media = "stalled"
    BY <1>1 DEF Struct, Media
  <2>. HIDE DEF h
  <2>3. Waits(h)
    BY <2>1, <2>2 DEF Waits, AllAreFlagged
  <2>. QED
    BY <2>1, <2>2, <2>3 DEF LeavesWaiting
<1>5. CASE KeepAliveFail(c)
  <2>. DEFINE h == [k EXCEPT !.tmr = TRUE]
  <2>1. call' = [call EXCEPT ![c] = h]
    BY <1>5 DEF KeepAliveFail, Put
  <2>. HIDE DEF k
  <2>2. /\ h \in Struct /\ h.media = k.media /\ h.cstate = k.cstate /\ h.sess = k.sess
        /\ h.cdir = k.cdir /\ h.asked = k.asked
    BY <1>1 DEF Struct
  <2>. HIDE DEF h
  <2>3. Waits(h)
    BY <1>2, <2>2 DEF Waits
  <2>. QED
    BY <2>1, <2>2, <2>3 DEF LeavesWaiting
<1>. QED
  BY <1>3, <1>4, <1>5

LEMMA TimerWaits ==
  ASSUME IInv, NEW c \in Call, HangupTimer(c)
  PROVE  UNCHANGED call \/ LeavesWaiting
<1>1. CASE call[c].mem = "alloc"
  <2>. DEFINE k == call[c]
              x == Hangup(k)
              h == [x EXCEPT !.tmr = FALSE]
  <2>1. k \in Struct /\ LiveInv(k) /\ k.mem = "alloc"
    BY <1>1 DEF IInv, TypeOK, CallInv
  <2>2. EndsWith(k, x)
    BY <2>1, HangupEnds
  <2>3. call' = [call EXCEPT ![c] = h]
    BY <1>1 DEF HangupTimer, Put
  <2>. HIDE DEF k, x
  <2>4. h \in Struct /\ h.mem = "freed"
    BY <2>2 DEF EndsWith, Struct
  <2>. QED
    BY <2>3, <2>4 DEF LeavesWaiting
<1>2. CASE call[c].mem # "alloc"
  BY <1>2 DEF HangupTimer
<1>. QED
  BY <1>1, <1>2

LEMMA NextWaits ==
  ASSUME IInv, WaitInv, Next
  PROVE  WaitInv'
<1>1. setting' = setting /\ call \in [Call -> Struct]
  BY DEF Next, IInv, TypeOK
<1>2. UNCHANGED call \/ LeavesWaiting
  <2>1. ASSUME NEW up \in BOOLEAN, SetOnline(up)
        PROVE  UNCHANGED call
    BY <2>1 DEF SetOnline
  <2>2. ASSUME NEW key \in Key, NEW c \in Call, ControlAccept(key, c) \/ ControlBye(key, c)
        PROVE  LeavesWaiting
    BY <2>2, CommandWaits
  <2>3. ASSUME NEW c \in Call,
               \/ StartCall(c)   \/ Incoming(c)      \/ Progress(c)
               \/ Established(c) \/ Closed(c)        \/ GatherDone(c)
               \/ GatherStalled(c) \/ KeepAliveFail(c) \/ HangupTimer(c)
        PROVE  UNCHANGED call \/ LeavesWaiting
    BY <2>3, BeginWaits, SessionWaits, MediaWaits, TimerWaits
  <2>. QED
    BY <2>1, <2>2, <2>3 DEF Next
<1>3. ASSUME NEW x \in Call, call'[x].mem = "alloc"
      PROVE  Waits(call'[x])
  <2>1. CASE UNCHANGED call
    BY <1>3, <2>1 DEF WaitInv
  <2>2. ASSUME NEW c \in Call, NEW k \in Struct,
               call' = [call EXCEPT ![c] = k], k.mem = "alloc" => Waits(k)
        PROVE  Waits(call'[x])
    <3>1. CASE x = c
      <4>1. call'[x] = k
        BY <1>1, <2>2, <3>1
      <4>. QED
        BY <1>3, <2>2, <4>1
    <3>2. CASE x # c
      <4>1. call'[x] = call[x]
        BY <1>1, <2>2, <3>2
      <4>. QED
        BY <1>3, <4>1 DEF WaitInv
    <3>. QED
      BY <3>1, <3>2
  <2>. QED
    BY <1>2, <2>1, <2>2 DEF LeavesWaiting
<1>. QED
  BY <1>1, <1>3 DEF WaitInv, Waits, Faults, AllAreFlagged

\* Waits holds of every live call in every reachable state of every instance.
THEOREM NobodyStuck == Spec => []WaitInv
<1>1. Init => WaitInv
  BY DEF Init, WaitInv, NoCall
<1>2. IInv /\ WaitInv /\ [Next]_vars => WaitInv'
  <2>1. ASSUME IInv, WaitInv, UNCHANGED vars
        PROVE  WaitInv'
    BY <2>1 DEF vars, WaitInv, Waits, Faults, AllAreFlagged
  <2>. QED
    BY <2>1, NextWaits
<1>. QED
  BY <1>1, <1>2, Invariant, PTL DEF Spec

\* An accepted incoming call that has neither its 200 sent nor ERR always has the
\* report of its ICE candidates ahead of it, and media_event will answer it then,
\* where none of the three failures that leave no ERR happens.
THEOREM AcceptedIsNotForgotten == Spec => []AcceptedStillGathers
<1>1. WaitInv => AcceptedStillGathers
  BY DEF WaitInv, Waits, AcceptedStillGathers, Answered
<1>. QED
  BY <1>1, NobodyStuck, PTL

\* A dialled call without a session and without ERR always has the report of its
\* ICE candidates ahead of it, unless dns_handler dropped it.
THEOREM DialledIsNotForgotten == Spec => []DialledStillGathers
<1>1. WaitInv => DialledStillGathers
  BY DEF WaitInv, Waits, DialledStillGathers
<1>. QED
  BY <1>1, NobodyStuck, PTL
=============================================================================
