------------------------- MODULE RegistrationProofs -------------------------
(***************************************************************************)
(* Proofs about Registration and Uplinks for any set of contacts, any      *)
(* distribution of them over the buckets, and a client with or without a   *)
(* handler for contacts.                                                   *)
(***************************************************************************)
EXTENDS Registration, TLAPS

\* a client without a handler is told nothing
Silent == ~HasHandler => \A u \in Uri : report[u] = "none"

UInv == UplinksTypeOK /\ KnownIsShown /\ AloneIsExact /\ Silent

IInv == TypeOK /\ DisplayIsRight /\ KnownIsShown /\ AloneIsExact /\ Silent

(***************************************************************************)
(* One new list of contacts.                                               *)
(***************************************************************************)
\* a contact with a bucket of its own is found only if it is there itself
LEMMA AloneOccupies ==
  ASSUME NEW u \in Uri, Alone(u), NEW table, table \subseteq Uri
  PROVE  Occupied(table, u) <=> u \in table
BY DEF Alone, Occupied

\* what is in a table occupies its own bucket
LEMMA MemberOccupies ==
  ASSUME NEW table, NEW u \in table
  PROVE  Occupied(table, u)
BY DEF Occupied

\* The report about each contact after a list came, for a client with a handler.
LEMMA UpdateReports ==
  ASSUME UplinksTypeOK, HasHandler, NEW upl \in SUBSET Uri, Update(upl), NEW u \in Uri
  PROVE  /\ u \in upl => report'[u] = IF Occupied(known, u) THEN "upd" ELSE "add"
         /\ u \notin upl /\ u \in known /\ ~Occupied(upl, u) => report'[u] = "rm"
         /\ u \notin upl /\ (u \notin known \/ Occupied(upl, u)) => report'[u] = report[u]
BY DEF Update, UplinksTypeOK

LEMMA UpdateType ==
  ASSUME UplinksTypeOK, NEW upl \in SUBSET Uri, Update(upl)
  PROVE  UplinksTypeOK'
<1>1. known' \subseteq Uri /\ crashed' \in BOOLEAN /\ bucket' \in Buckets
  BY DEF Update, UplinksTypeOK
<1>2. report' \in [Uri -> Ops]
  <2>1. CASE HasHandler
    BY <2>1 DEF Update, UplinksTypeOK, Ops
  <2>2. CASE ~HasHandler
    BY <2>2 DEF Update, UplinksTypeOK
  <2>. QED
    BY <2>1, <2>2
<1>. QED
  BY <1>1, <1>2 DEF UplinksTypeOK

LEMMA UpdateInv ==
  ASSUME UInv, NEW upl \in SUBSET Uri, Update(upl)
  PROVE  UInv'
<1>1. known' = upl /\ bucket' = bucket
  BY DEF Update
<1>2. UplinksTypeOK'
  BY UpdateType DEF UInv
<1>3. KnownIsShown'
  <2>. SUFFICES ASSUME HasHandler, NEW u \in upl
                PROVE  Shown(u)'
    BY <1>1 DEF KnownIsShown
  <2>1. report'[u] \in {"add", "upd"}
    BY UpdateReports DEF UInv
  <2>. QED
    BY <2>1 DEF Shown
<1>4. AloneIsExact'
  <2>. SUFFICES ASSUME HasHandler, NEW u \in Uri, Alone(u)
                PROVE  Shown(u)' <=> u \in upl
    BY <1>1 DEF AloneIsExact, Alone
  <2>1. CASE u \in upl
    BY <2>1, UpdateReports DEF UInv, Shown
  <2>2. CASE u \notin upl /\ u \in known
    <3>1. ~Occupied(upl, u)
      BY <2>2, AloneOccupies
    <3>. QED
      BY <2>2, <3>1, UpdateReports DEF UInv, Shown
  <2>3. CASE u \notin upl /\ u \notin known
    <3>1. report'[u] = report[u] /\ ~Shown(u)
      BY <2>3, UpdateReports DEF UInv, AloneIsExact
    <3>. QED
      BY <2>3, <3>1 DEF Shown
  <2>. QED
    BY <2>1, <2>2, <2>3
<1>5. Silent'
  BY DEF Silent, UInv, Update
<1>. QED
  BY <1>2, <1>3, <1>4, <1>5 DEF UInv

\* What one list tells the client about a contact with a bucket of its own.
LEMMA UpdateFollowsOn ==
  ASSUME UInv, NEW upl \in SUBSET Uri, Update(upl), NEW u \in Uri, Alone(u)
  PROVE  /\ report'[u] = "upd" => Shown(u)
         /\ report'[u] = "rm"  => Shown(u) \/ report[u] = "rm"
         /\ report'[u] = "add" => ~Shown(u)
<1>1. CASE ~HasHandler
  BY <1>1 DEF UInv, Silent, Update
<1>2. CASE HasHandler
  <2>1. Shown(u) <=> u \in known
    BY <1>2 DEF UInv, AloneIsExact
  <2>2. /\ Occupied(known, u) <=> u \in known
        /\ Occupied(upl, u) <=> u \in upl
    BY AloneOccupies DEF UInv, UplinksTypeOK
  <2>3. CASE u \in upl
    BY <1>2, <2>1, <2>2, <2>3, UpdateReports DEF UInv
  <2>4. CASE u \notin upl /\ u \in known
    BY <1>2, <2>1, <2>2, <2>4, UpdateReports DEF UInv
  <2>5. CASE u \notin upl /\ u \notin known
    <3>1. report'[u] = report[u]
      BY <1>2, <2>5, UpdateReports DEF UInv
    <3>. QED
      BY <2>1, <2>5, <3>1 DEF Shown
  <2>. QED
    BY <2>3, <2>4, <2>5
<1>. QED
  BY <1>1, <1>2

(***************************************************************************)
(* The steps.                                                              *)
(***************************************************************************)
LEMMA InitInv ==
  ASSUME Init
  PROVE  IInv
BY UplinksAssumption
   DEF Init, UplinksInit, IInv, TypeOK, UplinksTypeOK, Ops, States, Answers, Bits,
       DisplayIsRight, KnownIsShown, AloneIsExact, Shown, Silent

\* the steps that bring no list
LEMMA UplinksKept ==
  ASSUME UInv, UNCHANGED uplinks
  PROVE  UInv'
BY DEF UInv, uplinks, UplinksTypeOK, KnownIsShown, AloneIsExact, Shown, Alone, Silent

LEMMA SetOnlineInv ==
  ASSUME IInv, NEW cmd \in {"OFF", "ON"}, SetOnline(cmd)
  PROVE  TypeOK' /\ DisplayIsRight'
<1>1. UplinksTypeOK'
  BY UplinksKept DEF SetOnline, IInv, TypeOK, UInv
<1>2. CASE ~sreg'
  BY <1>1, <1>2 DEF SetOnline, IInv, TypeOK, DisplayIsRight
<1>3. CASE sreg' /\ cmd = "OFF"
  BY <1>1, <1>3 DEF SetOnline, SetState, IInv, TypeOK, DisplayIsRight
<1>4. CASE sreg' /\ cmd = "ON" /\ reg # "null"
  <2>1. Resend
    BY <1>4 DEF SetOnline, SetState
  <2>. QED
    BY <1>1, <1>4, <2>1 DEF SetOnline, Resend, IInv, TypeOK, DisplayIsRight, States
<1>5. CASE sreg' /\ cmd = "ON" /\ reg = "null"
  <2>1. Send
    BY <1>5 DEF SetOnline, SetState
  <2>. QED
    BY <1>1, <1>5, <2>1
       DEF SetOnline, Send, IInv, TypeOK, DisplayIsRight, States, Bits, Answers
<1>. QED
  BY <1>2, <1>3, <1>4, <1>5

LEMMA ResponseInv ==
  ASSUME IInv, Response
  PROVE  TypeOK' /\ DisplayIsRight' /\ \E upl \in SUBSET Uri : Update(upl)
<1>1. PICK upl \in SUBSET Uri : Update(upl)
  BY DEF Response, Contacts
<1>2. UplinksTypeOK'
  BY <1>1, UpdateType DEF IInv, TypeOK
<1>3. /\ Granted \/ Refused
      /\ reg' = "waiting" /\ user' = user /\ sreg' = sreg /\ off' = off
  BY DEF Response
<1>4. TypeOK'
  <2>1. rstate' \subseteq Bits /\ shown' \in States /\ answer' \in Answers
    BY <1>3 DEF Granted, Refused, IInv, TypeOK, Bits, States, Answers
  <2>. QED
    BY <1>2, <1>3, <2>1 DEF IInv, TypeOK
<1>5. DisplayIsRight'
  BY <1>3 DEF Granted, Refused, DisplayIsRight
<1>. QED
  BY <1>1, <1>4, <1>5

\* after a restart nothing is known and nothing is on the screen
LEMMA RestartInv ==
  ASSUME IInv, Restart
  PROVE  IInv' /\ \A u \in Uri : report'[u] = "none"
<1>1. /\ known' = {} /\ report' = [u \in Uri |-> "none"]
      /\ crashed' = crashed /\ bucket' = bucket
  BY DEF Restart
<1>2. UplinksTypeOK'
  BY <1>1 DEF IInv, TypeOK, UplinksTypeOK, Ops
<1>3. TypeOK' /\ DisplayIsRight'
  BY <1>2 DEF Restart, TypeOK, DisplayIsRight, Bits, States, Answers
<1>4. KnownIsShown' /\ AloneIsExact' /\ Silent'
  BY <1>1 DEF KnownIsShown, AloneIsExact, Silent, Shown, Alone
<1>. QED
  BY <1>1, <1>3, <1>4 DEF IInv

\* Short of a restart, a step brings a list of contacts or leaves the contacts
\* alone.
LEMMA NextSteps ==
  ASSUME IInv, [Next]_vars, ~Restart
  PROVE  /\ TypeOK' /\ DisplayIsRight'
         /\ (UNCHANGED uplinks) \/ \E upl \in SUBSET Uri : Update(upl)
<1>1. CASE Local
  <2>1. UplinksTypeOK'
    BY <1>1, UplinksKept DEF Local, IInv, TypeOK, UInv
  <2>. QED
    BY <1>1, <2>1 DEF Local, IInv, TypeOK, DisplayIsRight
<1>2. ASSUME NEW cmd \in {"OFF", "ON"}, SetOnline(cmd)
      PROVE  /\ TypeOK' /\ DisplayIsRight'
             /\ UNCHANGED uplinks
  BY <1>2, SetOnlineInv DEF SetOnline
<1>3. CASE Response
  BY <1>3, ResponseInv
<1>4. CASE Renew
  <2>1. UplinksTypeOK'
    BY <1>4, UplinksKept DEF Renew, IInv, TypeOK, UInv
  <2>. QED
    BY <1>4, <2>1 DEF Renew, IInv, TypeOK, DisplayIsRight
<1>5. CASE UNCHANGED vars
  BY <1>5 DEF vars, session, uplinks, IInv, TypeOK, UplinksTypeOK, DisplayIsRight
<1>. QED
  BY <1>1, <1>2, <1>3, <1>4, <1>5 DEF Next

\* IInv holds in every reachable state of every instance.
THEOREM Invariant == Spec => []IInv
<1>1. Init => IInv
  BY InitInv
<1>2. IInv /\ [Next]_vars => IInv'
  <2>. SUFFICES ASSUME IInv, [Next]_vars
                PROVE  IInv'
    OBVIOUS
  <2>1. CASE Restart
    BY <2>1, RestartInv
  <2>2. CASE ~Restart
    <3>1. UInv
      BY DEF IInv, UInv, TypeOK
    <3>2. UInv'
      BY <2>2, <3>1, NextSteps, UplinksKept, UpdateInv
    <3>. QED
      BY <2>2, <3>2, NextSteps DEF IInv, UInv
  <2>. QED
    BY <2>1, <2>2
<1>. QED
  BY <1>1, <1>2, PTL DEF Spec

\* Every variable keeps its type.
THEOREM TypeCorrect == Spec => []TypeOK
<1>1. IInv => TypeOK
  BY DEF IInv
<1>. QED
  BY <1>1, Invariant, PTL

\* A grant and a dead sipreg are shown as such; "online" follows a grant.
THEOREM DisplayRight == Spec => []DisplayIsRight
<1>1. IInv => DisplayIsRight
  BY DEF IInv
<1>. QED
  BY <1>1, Invariant, PTL

\* The contacts of the last list are on the screen, however buckets are shared.
THEOREM KnownShown == Spec => []KnownIsShown
<1>1. IInv => KnownIsShown
  BY DEF IInv
<1>. QED
  BY <1>1, Invariant, PTL

\* Contacts that share no bucket are shown exactly while they are listed.
THEOREM AloneExact == Spec => []AloneIsExact
<1>1. IInv => AloneIsExact
  BY DEF IInv
<1>. QED
  BY <1>1, Invariant, PTL

\* Adds, updates and removals of a contact that shares no bucket follow on.
THEOREM ReportsFollow == Spec => ReportsFollowOn
<1>. DEFINE Follows == \A u \in Uri : Alone(u) =>
                         /\ report'[u] = "upd" => Shown(u)
                         /\ report'[u] = "rm"  => Shown(u) \/ report[u] = "rm"
                         /\ report'[u] = "add" => ~Shown(u)
<1>1. IInv /\ [Next]_vars => [Follows]_uplinks
  <2>. SUFFICES ASSUME IInv, [Next]_vars, ~(UNCHANGED uplinks)
                PROVE  Follows
    OBVIOUS
  <2>1. CASE Restart
    BY <2>1, RestartInv
  <2>2. CASE ~Restart
    <3>1. UInv
      BY DEF IInv, UInv, TypeOK
    <3>2. PICK upl \in SUBSET Uri : Update(upl)
      BY <2>2, NextSteps
    <3>. QED
      BY <3>1, <3>2, UpdateFollowsOn
  <2>. QED
    BY <2>1, <2>2
<1>. QED
  BY <1>1, Invariant, PTL DEF Spec, ReportsFollowOn

(***************************************************************************)
(* An "online" that nothing has confirmed yet.                             *)
(***************************************************************************)
\* a sipreg that waits for its next turn has been answered, and the answer shown
Settled == reg = "waiting" => answer = "ok" \/ shown = "NONE"

\* no step but an answer leaves a sipreg waiting
LEMMA SettledStep ==
  ASSUME Settled, [Next]_vars
  PROVE  Settled'
<1>1. CASE Local
  BY <1>1 DEF Local, Settled
<1>2. CASE Restart
  BY <1>2 DEF Restart, Settled
<1>3. ASSUME NEW cmd \in {"OFF", "ON"}, SetOnline(cmd)
      PROVE  Settled'
  <2>1. CASE sreg' /\ cmd = "OFF"
    BY <1>3, <2>1 DEF SetOnline, SetState, Settled
  <2>2. CASE sreg' /\ cmd # "OFF" /\ reg # "null"
    BY <1>3, <2>2 DEF SetOnline, SetState, Resend, Settled
  <2>3. CASE sreg' /\ cmd # "OFF" /\ reg = "null"
    BY <1>3, <2>3 DEF SetOnline, SetState, Send, Settled
  <2>4. CASE ~sreg'
    BY <1>3, <2>4 DEF SetOnline, Settled
  <2>. QED
    BY <2>1, <2>2, <2>3, <2>4
<1>4. CASE Response
  BY <1>4 DEF Response, Granted, Refused, Settled
<1>5. CASE Renew
  BY <1>5 DEF Renew, Settled
<1>6. CASE UNCHANGED vars
  BY <1>6 DEF vars, session, Settled
<1>. QED
  BY <1>1, <1>2, <1>3, <1>4, <1>5, <1>6 DEF Next

\* tcsreg_resend may show "online" from the AUTH bit alone, but only with a
\* REGISTER under way whose answer will be shown.
THEOREM StaleAsks == Spec => []StaleIsAsking
<1>1. Init => Settled
  BY DEF Init, Settled
<1>2. Settled /\ [Next]_vars => Settled'
  BY SettledStep
<1>3. TypeOK /\ Settled => StaleIsAsking
  BY DEF TypeOK, Settled, StaleIsAsking, Stale
<1>. QED
  BY <1>1, <1>2, <1>3, TypeCorrect, PTL DEF Spec
=============================================================================
