--------------------------- MODULE MessagesProofs ---------------------------
(***************************************************************************)
(* Proofs about Messages for any number of messages and copies, any set of *)
(* incoming messages and Dates, with or without failures to send.          *)
(***************************************************************************)
EXTENDS Messages, WellFoundedInduction, TLAPS

\* the row the flush reads exists if any is pending
LEMMA OldestIsPending ==
  ASSUME NEW p, p \subseteq Msg, p # {}
  PROVE  Oldest(p) \in p /\ Oldest(p) \in Msg
<1>. DEFINE R == OpToRel(<, Nat)
<1>1. p \subseteq Nat
  BY DEF Msg
<1>2. \A x, y \in Nat : <<y, x>> \in R <=> y < x
  BY DEF OpToRel
<1>3. IsWellFoundedOn(R, Nat)
  BY NatLessThanWellFounded
<1>. HIDE DEF R
<1>4. PICK x \in p : \A y \in p : ~(<<y, x>> \in R)
  BY <1>1, <1>3, WFMin
<1>5. \A y \in p : x <= y
  <2>. TAKE y \in p
  <2>1. x \in Nat /\ y \in Nat /\ ~(y < x)
    BY <1>1, <1>2, <1>4
  <2>. QED
    BY <2>1
<1>. QED
  BY <1>5 DEF Oldest

(***************************************************************************)
(* What a flush and an answer do to the requests in flight.                *)
(***************************************************************************)
Flight == [Task -> 0 .. MaxCopies]

LEMMA FlushType ==
  ASSUME NEW p, p \subseteq Msg, NEW f \in Flight, Flush(p, f)
  PROVE  /\ flush' \in {0, 1} /\ flight' \in Flight
         /\ (flush' = 1 /\ ~sendFails) => \E m \in Msg : flight'[<<m, "flusher">>] > 0
<1>1. CASE p = {}
  BY <1>1 DEF Flush
<1>2. CASE p # {}
  <2>. DEFINE m == Oldest(p)
              t == <<m, "flusher">>
  <2>1. m \in Msg /\ t \in Task
    BY <1>2, OldestIsPending DEF Task
  <2>2. /\ flush' = 1
        /\ \E ok \in Sendable : /\ ok => f[t] < MaxCopies
                                /\ flight' = IF ok THEN [f EXCEPT ![t] = @ + 1] ELSE f
    BY <1>2 DEF Flush
  <2>. HIDE DEF m
  <2>3. f[t] \in 0 .. MaxCopies /\ MaxCopies \in Nat
    BY <2>1, MessagesAssumption DEF Flight
  <2>4. PICK ok \in Sendable :
          /\ ok => f[t] < MaxCopies
          /\ flight' = IF ok THEN [f EXCEPT ![t] = @ + 1] ELSE f
    BY <2>2
  <2>5. CASE ok = TRUE
    <3>1. f[t] + 1 \in 0 .. MaxCopies /\ f[t] + 1 > 0
      BY <2>3, <2>4, <2>5
    <3>2. flight' = [f EXCEPT ![t] = f[t] + 1]
      BY <2>4, <2>5
    <3>3. flight' \in Flight /\ flight'[t] = f[t] + 1
      BY <2>1, <3>1, <3>2 DEF Flight
    <3>. QED
      BY <2>1, <2>2, <3>1, <3>3
  <2>6. CASE ok = FALSE
    <3>1. flight' = f /\ sendFails
      BY <2>4, <2>6 DEF Sendable
    <3>. QED
      BY <2>2, <3>1
  <2>7. ok = TRUE \/ ok = FALSE
    BY DEF Sendable
  <2>. QED
    BY <2>5, <2>6, <2>7
<1>. QED
  BY <1>1, <1>2

LEMMA AnsweredType ==
  ASSUME NEW p, p \subseteq Msg, NEW f \in Flight, flush \in Int, flush <= 1, Answered(p, f)
  PROVE  /\ flush' \in Int /\ flush' <= 1 /\ flight' \in Flight
         /\ (flush' = 1 /\ ~sendFails) => \E m \in Msg : flight'[<<m, "flusher">>] > 0
<1>1. CASE flush = 1
  BY <1>1, FlushType DEF Answered
<1>2. CASE flush # 1
  BY <1>2 DEF Answered
<1>. QED
  BY <1>1, <1>2

LEMMA LandedType ==
  ASSUME flight \in Flight, NEW t \in Task, flight[t] > 0
  PROVE  Landed(t) \in Flight
<1>1. flight[t] \in 0 .. MaxCopies /\ MaxCopies \in Nat
  BY MessagesAssumption DEF Flight
<1>2. flight[t] - 1 \in 0 .. MaxCopies
  BY <1>1
<1>. QED
  BY <1>2 DEF Landed, Flight

(***************************************************************************)
(* The inductive invariant.                                                *)
(***************************************************************************)
IInv ==
  /\ TypeOK /\ NothingShownIsLost /\ DeliveredWasAccepted /\ CounterHasFlusher
  /\ IncomingIsKept

LEMMA InitInv ==
  ASSUME Init
  PROVE  IInv
BY MessagesAssumption
   DEF Init, IInv, TypeOK, NothingShownIsLost, DeliveredWasAccepted, CounterHasFlusher,
       IncomingIsKept

\* the steps that leave the rows and the reports alone
LEMMA RowsKept ==
  ASSUME IInv, UNCHANGED <<pend, sync, told, acked>>
  PROVE  NothingShownIsLost' /\ DeliveredWasAccepted'
BY DEF IInv, NothingShownIsLost, DeliveredWasAccepted

\* the steps that leave what came in alone
LEMMA IncomingKept ==
  ASSUME IInv, UNCHANGED <<inbox, shown>>
  PROVE  IncomingIsKept'
BY DEF IInv, IncomingIsKept

\* write_db takes a row away only for one of the same sender and Date
LEMMA FiledKeeps ==
  ASSUME IInv, NEW n \in Incoming, NEW box \in Filed(n) \cup {inbox \cup {n}}
  PROVE  /\ box \subseteq Incoming /\ n \in box
         /\ \A k \in inbox : k \in box \/ DateOf[n] = DateOf[k]
BY DEF IInv, TypeOK, Filed, SameIdx

LEMMA InboxInv ==
  ASSUME IInv, NEW n \in Incoming, inbox' \in Filed(n) \cup {inbox \cup {n}},
         shown' \subseteq shown \cup {n}
  PROVE  inbox' \subseteq Incoming /\ IncomingIsKept'
<1>1. /\ inbox' \subseteq Incoming /\ n \in inbox'
      /\ \A k \in inbox : k \in inbox' \/ DateOf[n] = DateOf[k]
  BY FiledKeeps
<1>2. ASSUME NEW k \in shown'
      PROVE  k \in inbox' \/ \E j \in inbox' \ {k} : DateOf[j] = DateOf[k]
  <2>1. CASE k = n
    BY <1>1, <2>1
  <2>2. CASE k # n
    <3>1. k \in inbox \/ \E j \in inbox : DateOf[j] = DateOf[k]
      BY <1>2, <2>2 DEF IInv, IncomingIsKept
    <3>2. PICK j \in inbox : DateOf[j] = DateOf[k]
      BY <3>1
    <3>3. CASE j \in inbox'
      BY <3>2, <3>3
    <3>4. CASE j \notin inbox'
      BY <1>1, <2>2, <3>2, <3>4
    <3>. QED
      BY <3>3, <3>4
  <2>. QED
    BY <2>1, <2>2
<1>. QED
  BY <1>1, <1>2 DEF IncomingIsKept

LEMMA LostInv ==
  ASSUME IInv, Lost, sendFails' = sendFails
  PROVE  flush' \in Int /\ flush' <= 1 /\ flight' \in Flight /\ CounterHasFlusher'
BY MessagesAssumption DEF IInv, Lost, Flight, CounterHasFlusher

LEMMA WriteInv ==
  ASSUME IInv, NEW m \in Msg, Write(m)
  PROVE  IInv'
<1>1. TypeOK'
  <2>1. m \in 0 .. MaxMsg /\ 1 \in 0 .. MaxCopies
    BY MessagesAssumption DEF Msg
  <2>2. flight' \in [Task -> 0 .. MaxCopies]
    BY <2>1 DEF Write, IInv, TypeOK, Sendable
  <2>. QED
    BY <2>1, <2>2 DEF Write, incoming, IInv, TypeOK
<1>2. NothingShownIsLost' /\ DeliveredWasAccepted'
  BY DEF Write, IInv, TypeOK, NothingShownIsLost, DeliveredWasAccepted
<1>3. CounterHasFlusher'
  <2>1. \A n \in Msg : flight'[<<n, "flusher">>] = flight[<<n, "flusher">>]
    <3>. TAKE n \in Msg
    <3>1. <<n, "flusher">> # <<m, "direct">> /\ <<n, "flusher">> \in Task
      BY DEF Task
    <3>. QED
      BY <3>1 DEF Write, IInv, TypeOK, Sendable
  <2>. QED
    BY <2>1 DEF Write, incoming, IInv, CounterHasFlusher
<1>. QED
  BY <1>1, <1>2, <1>3, IncomingKept DEF Write, incoming, IInv

LEMMA SetOnlineInv ==
  ASSUME IInv, SetOnline
  PROVE  IInv'
<1>1. pend \subseteq Msg /\ flight \in Flight /\ Flush(pend, flight)
  BY DEF SetOnline, IInv, TypeOK, Flight
<1>2. /\ flush' \in {0, 1} /\ flight' \in Flight
      /\ (flush' = 1 /\ ~sendFails) => \E m \in Msg : flight'[<<m, "flusher">>] > 0
  BY <1>1, FlushType
<1>3. flush' \in Int /\ flush' <= 1
  BY <1>2
<1>4. TypeOK' /\ CounterHasFlusher'
  BY <1>2, <1>3 DEF SetOnline, rows, incoming, IInv, TypeOK, Flight, CounterHasFlusher
<1>. QED
  BY <1>4, RowsKept, IncomingKept DEF SetOnline, rows, incoming, IInv

LEMMA AcceptedInv ==
  ASSUME IInv, NEW m \in Msg, NEW kind \in {"direct", "flusher"}, Accepted(m, kind)
  PROVE  IInv'
<1>1. pend' \subseteq Msg /\ pend \ {m} \subseteq pend'
  BY DEF Accepted, Obsolete, IInv, TypeOK
<1>2. Landed(<<m, kind>>) \in Flight
  BY LandedType DEF Accepted, IInv, TypeOK, Flight, Task
<1>3. /\ flush' \in Int /\ flush' <= 1 /\ flight' \in Flight
      /\ (flush' = 1 /\ ~sendFails) => \E n \in Msg : flight'[<<n, "flusher">>] > 0
  BY <1>1, <1>2, AnsweredType DEF Accepted, IInv, TypeOK
<1>4. TypeOK' /\ CounterHasFlusher'
  BY <1>1, <1>3 DEF Accepted, incoming, IInv, TypeOK, Flight, CounterHasFlusher
<1>5. NothingShownIsLost' /\ DeliveredWasAccepted'
  BY <1>1 DEF Accepted, IInv, TypeOK, NothingShownIsLost, DeliveredWasAccepted
<1>. QED
  BY <1>4, <1>5, IncomingKept DEF Accepted, incoming, IInv

LEMMA RejectedInv ==
  ASSUME IInv, NEW m \in Msg, NEW kind \in {"direct", "flusher"}, Rejected(m, kind)
  PROVE  IInv'
<1>1. Landed(<<m, kind>>) \in Flight
  BY LandedType DEF Rejected, IInv, TypeOK, Flight, Task
<1>2. /\ flush' \in Int /\ flush' <= 1 /\ flight' \in Flight
      /\ (flush' = 1 /\ ~sendFails) => \E n \in Msg : flight'[<<n, "flusher">>] > 0
  BY <1>1, AnsweredType DEF Rejected, IInv, TypeOK
<1>3. TypeOK' /\ CounterHasFlusher'
  BY <1>2 DEF Rejected, rows, incoming, IInv, TypeOK, Flight, CounterHasFlusher
<1>. QED
  BY <1>3, RowsKept, IncomingKept DEF Rejected, rows, incoming, IInv

LEMMA FailedInv ==
  ASSUME IInv, NEW m \in Msg, NEW kind \in {"direct", "flusher"}, Failed(m, kind)
  PROVE  IInv'
<1>1. Landed(<<m, kind>>) \in Flight
  BY LandedType DEF Failed, IInv, TypeOK, Flight, Task
<1>2. flush \in Int /\ flush <= 1 /\ flush' = flush - 1
  BY DEF Failed, IInv, TypeOK
<1>3. flush' \in Int /\ flush' <= 1 /\ flush' # 1
  BY <1>2
<1>4. TypeOK' /\ CounterHasFlusher'
  BY <1>1, <1>3 DEF Failed, rows, incoming, IInv, TypeOK, Flight, CounterHasFlusher
<1>. QED
  BY <1>4, RowsKept, IncomingKept DEF Failed, rows, incoming, IInv

LEMMA SecondInv ==
  ASSUME IInv, Second
  PROVE  IInv'
<1>1. TypeOK' /\ CounterHasFlusher'
  BY DEF Second, IInv, TypeOK, CounterHasFlusher
<1>. QED
  BY <1>1, RowsKept, IncomingKept DEF Second, IInv

LEMMA RestartInv ==
  ASSUME IInv, Restart
  PROVE  IInv'
<1>1. TypeOK' /\ CounterHasFlusher'
  BY LostInv DEF Restart, rows, incoming, IInv, TypeOK, Flight
<1>. QED
  BY <1>1, RowsKept, IncomingKept DEF Restart, rows, incoming, IInv

LEMMA RestartInWriteInv ==
  ASSUME IInv, NEW m \in Msg, RestartInWrite(m)
  PROVE  IInv'
<1>1. m \in 0 .. MaxMsg
  BY MessagesAssumption DEF Msg
<1>2. /\ pend \subseteq pend' /\ pend' \subseteq Msg /\ young' \subseteq Msg
      /\ sync' = sync /\ told' = told /\ acked' = acked
  BY DEF RestartInWrite, IInv, TypeOK
<1>3. TypeOK' /\ CounterHasFlusher'
  BY <1>1, <1>2, LostInv DEF RestartInWrite, incoming, IInv, TypeOK, Flight
<1>4. NothingShownIsLost' /\ DeliveredWasAccepted'
  BY <1>2 DEF IInv, NothingShownIsLost, DeliveredWasAccepted
<1>. QED
  BY <1>3, <1>4, IncomingKept DEF RestartInWrite, incoming, IInv

LEMMA RestartInSyncInv ==
  ASSUME IInv, NEW m \in Msg, NEW kind \in {"direct", "flusher"}, RestartInSync(m, kind)
  PROVE  IInv'
<1>1. pend' \subseteq Msg /\ pend \ {m} \subseteq pend'
  BY DEF RestartInSync, Obsolete, IInv, TypeOK
<1>2. TypeOK' /\ CounterHasFlusher'
  BY <1>1, LostInv DEF RestartInSync, incoming, IInv, TypeOK, Flight
<1>3. NothingShownIsLost' /\ DeliveredWasAccepted'
  BY <1>1 DEF RestartInSync, IInv, TypeOK, NothingShownIsLost, DeliveredWasAccepted
<1>. QED
  BY <1>2, <1>3, IncomingKept DEF RestartInSync, incoming, IInv

LEMMA ArrivesInv ==
  ASSUME IInv, NEW n \in Incoming, Arrives(n)
  PROVE  IInv'
<1>1. inbox' \subseteq Incoming /\ IncomingIsKept'
  BY InboxInv DEF Arrives
<1>2. TypeOK' /\ CounterHasFlusher'
  BY <1>1 DEF Arrives, rows, IInv, TypeOK, CounterHasFlusher
<1>. QED
  BY <1>1, <1>2, RowsKept DEF Arrives, rows, IInv

LEMMA RestartInArrivesInv ==
  ASSUME IInv, NEW n \in Incoming, RestartInArrives(n)
  PROVE  IInv'
<1>1. inbox' \subseteq Incoming /\ IncomingIsKept'
  BY InboxInv DEF RestartInArrives
<1>2. TypeOK' /\ CounterHasFlusher'
  BY <1>1, LostInv DEF RestartInArrives, rows, IInv, TypeOK, Flight
<1>. QED
  BY <1>1, <1>2, RowsKept DEF RestartInArrives, rows, IInv

LEMMA Inductive == IInv /\ [Next]_vars => IInv'
<1>1. ASSUME IInv, UNCHANGED vars
      PROVE  IInv'
  BY <1>1 DEF vars, rows, incoming, IInv, TypeOK, NothingShownIsLost,
              DeliveredWasAccepted, CounterHasFlusher, IncomingIsKept
<1>2. ASSUME IInv, Next
      PROVE  IInv'
  BY <1>2, WriteInv, RestartInWriteInv, AcceptedInv, RejectedInv, FailedInv,
     RestartInSyncInv, SetOnlineInv, SecondInv, RestartInv,
     ArrivesInv, RestartInArrivesInv DEF Next
<1>. QED
  BY <1>1, <1>2

\* IInv holds in every reachable state of every instance.
THEOREM Invariant == Spec => []IInv
BY InitInv, Inductive, PTL DEF Spec

\* Every variable keeps its type; the counter never exceeds one.
THEOREM TypeCorrect == Spec => []TypeOK
<1>1. IInv => TypeOK
  BY DEF IInv
<1>. QED
  BY <1>1, Invariant, PTL

\* A message shown to the user stays in the database until a 200 to it is
\* recorded, through restarts inside tcmessage and message_response too.
THEOREM ShownIsKept == Spec => []NothingShownIsLost
<1>1. IInv => NothingShownIsLost
  BY DEF IInv
<1>. QED
  BY <1>1, Invariant, PTL

\* No message is filed or shown as delivered that no 200 answered.
THEOREM DeliveredIsAccepted == Spec => []DeliveredWasAccepted
<1>1. IInv => DeliveredWasAccepted
  BY DEF IInv
<1>. QED
  BY <1>1, Invariant, PTL

\* A message of another user that was shown stays in the database, or one of the
\* same sender and Date in its place, through restarts in message_incoming too.
THEOREM IncomingKeptOrReplaced == Spec => []IncomingIsKept
<1>1. IInv => IncomingIsKept
  BY DEF IInv
<1>. QED
  BY <1>1, Invariant, PTL

\* Where sending does not fail at once, the flush counter never waits for an
\* answer that has already come.
THEOREM CounterIsOwed == Spec => []CounterHasFlusher
<1>1. IInv => CounterHasFlusher
  BY DEF IInv
<1>. QED
  BY <1>1, Invariant, PTL

(***************************************************************************)
(* The refinement.  Only what is in the database is in flight, and the     *)
(* next message is one nobody has heard of.                                *)
(***************************************************************************)
Kept == pend \cup sync

InFlightIsKept ==
  \A m \in Msg, kind \in {"direct", "flusher"} : flight[<<m, kind>>] > 0 => m \in Kept

NextIsNew == \A m \in Msg : m > written => m \notin Kept /\ told[m] = "none"

RefInv == IInv /\ InFlightIsKept /\ NextIsNew

\* A flush sends nothing but what is pending.
LEMMA FlushSends ==
  ASSUME NEW p, p \subseteq Msg, NEW f \in Flight, Flush(p, f),
         NEW m \in Msg, NEW kind \in {"direct", "flusher"}, flight'[<<m, kind>>] > 0
  PROVE  f[<<m, kind>>] > 0 \/ m \in p
<1>1. CASE p = {}
  BY <1>1 DEF Flush
<1>2. CASE p # {}
  <2>1. Oldest(p) \in p
    BY <1>2, OldestIsPending
  <2>2. \E ok \in Sendable :
          flight' = IF ok THEN [f EXCEPT ![<<Oldest(p), "flusher">>] = @ + 1] ELSE f
    BY <1>2 DEF Flush
  <2>3. <<m, kind>> \in DOMAIN f
    BY DEF Flight, Task
  <2>4. CASE <<m, kind>> = <<Oldest(p), "flusher">>
    BY <2>1, <2>4
  <2>5. CASE <<m, kind>> # <<Oldest(p), "flusher">>
    BY <2>2, <2>3, <2>5
  <2>. QED
    BY <2>4, <2>5
<1>. QED
  BY <1>1, <1>2

LEMMA AnswerSends ==
  ASSUME NEW t \in Task, flight \in Flight, flight[t] > 0,
         NEW p, p \subseteq Msg, Answered(p, Landed(t)),
         NEW m \in Msg, NEW kind \in {"direct", "flusher"}, flight'[<<m, kind>>] > 0
  PROVE  flight[<<m, kind>>] > 0 \/ m \in p
<1>1. Landed(t) \in Flight
  BY LandedType
<1>2. Landed(t)[<<m, kind>>] > 0 \/ m \in p
  BY <1>1, FlushSends DEF Answered
<1>3. Landed(t)[<<m, kind>>] > 0 => flight[<<m, kind>>] > 0
  BY DEF Landed, Flight, Task
<1>. QED
  BY <1>2, <1>3

\* Whichever of its rows obsolete goes, and whatever write_db had come to: a 200 takes
\* no message out of the database, and adds none.
LEMMA DeliverKeeps ==
  ASSUME NEW m \in Kept, sync' = sync \cup {m}, pend' \in Obsolete(m) \cup {pend}
  PROVE  Kept' = Kept
BY DEF Kept, Obsolete

LEMMA RefStep ==
  ASSUME RefInv, [Next]_vars
  PROVE  InFlightIsKept' /\ NextIsNew' /\ [Service!Next]_(Service!vars)
<1>. USE DEF RefInv
<1>0. /\ flight \in Flight /\ pend \subseteq Msg /\ sync \subseteq Msg
      /\ written \in Nat /\ told \in [Msg -> {"none", "pending", "sync"}]
  BY MessagesAssumption DEF IInv, TypeOK, Flight
<1>1. ASSUME NEW m \in Msg, Write(m) \/ RestartInWrite(m)
      PROVE  InFlightIsKept' /\ NextIsNew' /\ [Service!Next]_(Service!vars)
  <2>1. m = written + 1 /\ m \notin Kept /\ told[m] = "none" /\ written' = m
    BY <1>0, <1>1 DEF Write, RestartInWrite, NextIsNew
  <2>2. \/ Kept' = Kept \cup {m}
        \/ Kept' = Kept /\ told' = told /\ RestartInWrite(m)
    BY <1>1 DEF Write, RestartInWrite, Kept
  <2>3. InFlightIsKept'
    <3>1. CASE Write(m)
      <4>1. Kept' = Kept \cup {m}
        BY <3>1 DEF Write, Kept
      <4>2. \A n \in Msg, kind \in {"direct", "flusher"} :
              n # m => flight'[<<n, kind>>] = flight[<<n, kind>>]
        BY <1>0, <3>1 DEF Write, Flight, Task, Sendable
      <4>. QED
        BY <4>1, <4>2 DEF InFlightIsKept
    <3>2. CASE RestartInWrite(m)
      BY <3>2 DEF RestartInWrite, Lost, InFlightIsKept, Task
    <3>. QED
      BY <1>1, <3>1, <3>2
  <2>4. told' \in {told, [told EXCEPT ![m] = "pending"]}
    BY <1>1 DEF Write, RestartInWrite
  <2>5. NextIsNew'
    <3>1. ASSUME NEW n \in Msg, n > m
          PROVE  n \notin Kept' /\ told'[n] = "none"
      <4>1. n > written /\ n # m
        BY <1>0, <2>1, <3>1 DEF Msg
      <4>. QED
        BY <1>0, <2>2, <2>4, <4>1 DEF NextIsNew
    <3>. QED
      BY <2>1, <3>1 DEF NextIsNew
  <2>6. UNCHANGED <<acked, sync, inbox, shown>>
    BY <1>1 DEF Write, RestartInWrite, incoming
  <2>7. CASE Kept' = Kept \cup {m}
    <3>1. Service!Take(m)
      BY <2>1, <2>4, <2>6, <2>7 DEF Service!Take, Kept
    <3>. QED
      BY <2>3, <2>5, <3>1 DEF Service!Next
  <2>8. CASE Kept' = Kept /\ told' = told
    BY <2>3, <2>5, <2>6, <2>8 DEF Service!vars, Kept
  <2>. QED
    BY <2>2, <2>7, <2>8
<1>2. ASSUME NEW m \in Msg, NEW kind \in {"direct", "flusher"},
             Accepted(m, kind) \/ RestartInSync(m, kind)
      PROVE  InFlightIsKept' /\ NextIsNew' /\ [Service!Next]_(Service!vars)
  <2>1. /\ m \in Kept /\ sync' = sync \cup {m} /\ pend' \in Obsolete(m) \cup {pend}
        /\ acked' = acked \cup {m} /\ UNCHANGED <<written, inbox, shown>>
    BY <1>2 DEF Accepted, RestartInSync, InFlightIsKept, incoming
  <2>2. Kept' = Kept
    BY <2>1, DeliverKeeps
  <2>3. told' \in {told, [told EXCEPT ![m] = "sync"]}
    BY <1>2 DEF Accepted, RestartInSync
  <2>4. InFlightIsKept'
    <3>1. CASE Accepted(m, kind)
      <4>1. pend' \subseteq Msg /\ pend' \subseteq Kept'
        BY <1>0, <2>1 DEF Obsolete, Kept
      <4>2. <<m, kind>> \in Task /\ flight[<<m, kind>>] > 0
            /\ Answered(pend', Landed(<<m, kind>>))
        BY <3>1 DEF Accepted, Task
      <4>. QED
        BY <1>0, <2>2, <4>1, <4>2, AnswerSends DEF InFlightIsKept
    <3>2. CASE RestartInSync(m, kind)
      BY <3>2 DEF RestartInSync, Lost, InFlightIsKept, Task
    <3>. QED
      BY <1>2, <3>1, <3>2
  <2>5. NextIsNew'
    BY <1>0, <2>1, <2>2, <2>3 DEF NextIsNew
  <2>6. Service!Deliver(m)
    BY <2>1, <2>2, <2>3 DEF Service!Deliver, Kept
  <2>. QED
    BY <2>4, <2>5, <2>6 DEF Service!Next
<1>3. ASSUME NEW n \in Incoming, Arrives(n) \/ RestartInArrives(n)
      PROVE  InFlightIsKept' /\ NextIsNew' /\ [Service!Next]_(Service!vars)
  <2>1. /\ UNCHANGED <<written, pend, sync, acked, told>>
        /\ inbox' \in Filed(n) \cup {inbox \cup {n}} /\ shown' \in {shown, shown \cup {n}}
    BY <1>3 DEF Arrives, RestartInArrives, rows
  <2>2. flight' = flight \/ Lost
    BY <1>3 DEF Arrives, RestartInArrives
  <2>3. InFlightIsKept' /\ NextIsNew'
    BY <2>1, <2>2 DEF InFlightIsKept, NextIsNew, Kept, Lost, Task
  <2>4. n \in inbox' /\ \A k \in inbox : k \in inbox' \/ DateOf[n] = DateOf[k]
    BY <2>1, FiledKeeps
  <2>5. inbox' \subseteq inbox \cup {n}
    BY <2>1 DEF Filed
  <2>6. Service!Receive(n)
    BY <2>1, <2>4, <2>5 DEF Service!Receive
  <2>. QED
    BY <2>3, <2>6 DEF Service!Next
<1>4. ASSUME UNCHANGED <<written, pend, sync, acked, told, inbox, shown>>, InFlightIsKept'
      PROVE  InFlightIsKept' /\ NextIsNew' /\ [Service!Next]_(Service!vars)
  BY <1>4 DEF NextIsNew, Kept, Service!vars
<1>5. CASE SetOnline
  <2>1. InFlightIsKept'
    BY <1>0, <1>5, FlushSends DEF SetOnline, InFlightIsKept, Kept, rows
  <2>. QED
    BY <1>4, <1>5, <2>1 DEF SetOnline, rows, incoming
<1>6. ASSUME NEW m \in Msg, NEW kind \in {"direct", "flusher"}, Rejected(m, kind) \/ Failed(m, kind)
      PROVE  InFlightIsKept' /\ NextIsNew' /\ [Service!Next]_(Service!vars)
  <2>1. <<m, kind>> \in Task /\ flight[<<m, kind>>] > 0 /\ UNCHANGED rows
    BY <1>6 DEF Rejected, Failed, Task
  <2>2. InFlightIsKept'
    <3>1. CASE Rejected(m, kind)
      BY <1>0, <2>1, <3>1, AnswerSends DEF Rejected, InFlightIsKept, Kept, rows
    <3>2. CASE Failed(m, kind)
      BY <1>0, <2>1, <3>2 DEF Failed, Landed, InFlightIsKept, Kept, rows, Flight, Task
    <3>. QED
      BY <1>6, <3>1, <3>2
  <2>. QED
    BY <1>4, <1>6, <2>2 DEF Rejected, Failed, rows, incoming
<1>7. CASE Restart
  <2>1. InFlightIsKept'
    BY <1>7 DEF Restart, Lost, InFlightIsKept, Task
  <2>. QED
    BY <1>4, <1>7, <2>1 DEF Restart, rows, incoming
<1>8. CASE Second \/ UNCHANGED vars
  <2>1. UNCHANGED <<written, pend, sync, acked, told, inbox, shown, flight>>
    BY <1>8 DEF Second, vars, rows, incoming
  <2>. QED
    BY <1>4, <2>1 DEF InFlightIsKept, Kept
<1>. QED
  BY <1>1, <1>2, <1>3, <1>5, <1>6, <1>7, <1>8 DEF Next

\* Messages implements MessageService: whatever is stopped, lost or answered late, no message
\* leaves the database, none is filed or called delivered without a 200, and nothing
\* the user was told is taken back.
THEOREM Refinement == Spec => ImplementsService
<1>1. Init => RefInv
  BY InitInv DEF Init, RefInv, InFlightIsKept, NextIsNew, Kept, Task
<1>2. RefInv /\ [Next]_vars => RefInv'
  BY RefStep, Inductive DEF RefInv
<1>3. Init => Service!Init
  BY DEF Init, Service!Init
<1>4. RefInv /\ [Next]_vars => [Service!Next]_(Service!vars)
  BY RefStep
<1>. QED
  BY <1>1, <1>2, <1>3, <1>4, PTL DEF ImplementsService, Spec, Service!Spec
=============================================================================
