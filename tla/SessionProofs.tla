--------------------------- MODULE SessionProofs ---------------------------
(***************************************************************************)
(* Proofs about Session, for any number of logins, references and contacts *)
(* and any distribution of these over the buckets: it implements           *)
(* Registration, whose theorems therefore hold of it, and references       *)
(* outnumber the requests that need them.                                  *)
(***************************************************************************)
EXTENDS Session, RegistrationProofs

(***************************************************************************)
(* Session implements Registration.                                        *)
(***************************************************************************)
LEMMA LocalSteps ==
  ASSUME NEW f, TcsipLocal(f)
  PROVE  Local \/ UNCHANGED registration
BY DEF TcsipLocal

\* a step of the session is one of the registration or leaves it alone
LEMMA StepIsNext ==
  ASSUME [Step]_allVars
  PROVE  [Next]_vars
<1>1. CASE Me \/ Issued
  <2>1. Local \/ UNCHANGED registration
    BY <1>1, LocalSteps DEF Me, Issued
  <2>2. ~crashed \/ UNCHANGED allVars
    BY DEF Step
  <2>. QED
    BY <2>1, <2>2 DEF Next, registration, vars, allVars
<1>2. CASE Login \/ Challenged \/ Denied \/ Write \/ (\E g \in Gen : Answered(g)) \/ UNCHANGED allVars
  BY <1>2 DEF Login, Challenged, Denied, Write, Answered, allVars, registration, vars
<1>3. CASE ~crashed /\ (Killed \/ KilledInSavecert)
  BY <1>3 DEF Killed, KilledInSavecert, Gone, Next
<1>4. CASE ~crashed /\ \E cmd \in {"OFF", "ON"} : Online(cmd)
  BY <1>4 DEF Online, Next
<1>5. CASE ~crashed /\ (Response \/ Renew)
  BY <1>5 DEF Next
<1>. QED
  BY <1>1, <1>2, <1>3, <1>4, <1>5 DEF Step

\* Whatever logins, messages and kills happen beside it, what a session shows of
\* the registration is what Registration allows.
THEOREM ImplementsRegistration == SessionSpec => Spec
<1>1. Begin => Init
  BY DEF Begin
<1>2. [Step]_allVars => [Next]_vars
  BY StepIsNext
<1>. QED
  BY <1>1, <1>2, PTL DEF SessionSpec, Spec

\* What is shown of the registration and its contacts stays right across logins
\* and restarts.
THEOREM SessionShowsTruth ==
  SessionSpec => [](TypeOK /\ DisplayIsRight /\ KnownIsShown /\ AloneIsExact)
BY ImplementsRegistration, TypeCorrect, DisplayRight, KnownShown, AloneExact, PTL

\* The client can follow the reports about a contact with a bucket of its own
\* across logins and restarts, and an "online" that nothing has confirmed has an
\* answer ahead of it.
THEOREM SessionReportsFollow ==
  SessionSpec => ReportsFollowOn /\ []StaleIsAsking
BY ImplementsRegistration, ReportsFollow, StaleAsks, PTL

(***************************************************************************)
(* The references.                                                         *)
(***************************************************************************)
ObjectsTypeOK ==
  /\ asked \in 0 .. MaxLogins
  /\ cert \in {"none", "good", "bad"}
  /\ file \in {"none", "torn", "whole"}
  /\ gen \in 0 .. MaxGen
  /\ refs \in [Gen -> 0 .. MaxRefs]
  /\ sent \in [Gen -> 0 .. MaxRefs]

\* sip->msg holds one reference and each request in flight another; a send that
\* failed may have left more
Own(g) == IF g = gen THEN 1 ELSE 0

Held == \A g \in Gen : sent[g] + Own(g) <= refs[g]

\* nothing was sent from a struct tcmessages that is not made yet
Unborn == \A g \in Gen : gen < g => sent[g] = 0

RInv == ObjectsTypeOK /\ Held /\ Unborn

\* the conjuncts of RInv for the functions r and s and the struct tcmessages n
Covers(r, s, n) ==
  /\ r \in [Gen -> 0 .. MaxRefs]
  /\ s \in [Gen -> 0 .. MaxRefs]
  /\ \A g \in Gen : s[g] + (IF g = n THEN 1 ELSE 0) <= r[g]
  /\ \A g \in Gen : n < g => s[g] = 0

LEMMA CoversIsHeld ==
  ASSUME ObjectsTypeOK
  PROVE  Covers(refs, sent, gen) <=> Held /\ Unborn
BY DEF Covers, Held, Unborn, Own, ObjectsTypeOK

\* one more request has a reference of its own
LEMMA SentCovers ==
  ASSUME NEW r, NEW s, NEW n \in 0 .. MaxGen, Covers(r, s, n),
         NEW g \in Gen, g <= n, Sent(g, r, s)
  PROVE  Covers(refs', sent', n)
<1>1. /\ r[g] \in 0 .. MaxRefs - 1 /\ s[g] \in 0 .. MaxRefs
      /\ s[g] <= r[g] /\ MaxRefs \in Nat
  BY SessionAssumption DEF Sent, Covers
<1>2. refs' = [r EXCEPT ![g] = r[g] + 1] /\ refs' \in [Gen -> 0 .. MaxRefs]
  BY <1>1 DEF Sent, Covers
<1>3. CASE sent' = s
  BY <1>1, <1>2, <1>3 DEF Covers, Gen
<1>4. CASE sent' = [s EXCEPT ![g] = s[g] + 1]
  <2>1. sent' \in [Gen -> 0 .. MaxRefs]
    BY <1>1, <1>4 DEF Covers
  <2>2. \A h \in Gen : sent'[h] + (IF h = n THEN 1 ELSE 0) <= refs'[h]
    <3>. SUFFICES ASSUME NEW h \in Gen
                  PROVE  sent'[h] + (IF h = n THEN 1 ELSE 0) <= refs'[h]
      OBVIOUS
    <3>1. r[h] \in 0 .. MaxRefs /\ s[h] \in 0 .. MaxRefs
      BY DEF Covers
    <3>. QED
      BY <1>1, <1>2, <1>4, <3>1 DEF Covers
  <2>3. \A h \in Gen : n < h => sent'[h] = 0
    BY <1>4 DEF Covers, Gen
  <2>. QED
    BY <1>2, <2>1, <2>2, <2>3 DEF Covers
<1>. QED
  BY <1>3, <1>4 DEF Sent

\* an answer gives back one request and one reference
LEMMA AnswerCovers ==
  ASSUME Covers(refs, sent, gen), NEW g \in Gen, sent[g] > 0
  PROVE  Covers([refs EXCEPT ![g] = @ - 1], [sent EXCEPT ![g] = @ - 1], gen)
<1>1. /\ refs[g] \in 1 .. MaxRefs /\ sent[g] \in 1 .. MaxRefs /\ MaxRefs \in Nat
  <2>1. sent[g] <= refs[g]
    BY SessionAssumption DEF Covers
  <2>. QED
    BY <2>1, SessionAssumption DEF Covers
<1>. DEFINE r == [refs EXCEPT ![g] = @ - 1]
            s == [sent EXCEPT ![g] = @ - 1]
<1>2. r \in [Gen -> 0 .. MaxRefs] /\ s \in [Gen -> 0 .. MaxRefs]
  BY <1>1 DEF Covers
<1>3. \A h \in Gen : s[h] + (IF h = gen THEN 1 ELSE 0) <= r[h]
  <2>. SUFFICES ASSUME NEW h \in Gen
                PROVE  s[h] + (IF h = gen THEN 1 ELSE 0) <= r[h]
    OBVIOUS
  <2>1. /\ refs[h] \in 0 .. MaxRefs /\ sent[h] \in 0 .. MaxRefs
        /\ sent[h] + (IF h = gen THEN 1 ELSE 0) <= refs[h]
    BY DEF Covers
  <2>2. /\ r[h] = IF h = g THEN refs[h] - 1 ELSE refs[h]
        /\ s[h] = IF h = g THEN sent[h] - 1 ELSE sent[h]
    BY DEF Covers
  <2>. QED
    BY <1>1, <2>1, <2>2
<1>4. \A h \in Gen : gen < h => s[h] = 0
  BY <1>1 DEF Covers
<1>. QED
  BY <1>2, <1>3, <1>4 DEF Covers

\* the old struct tcmessages keeps the references of its requests
LEMMA RenewedCovers ==
  ASSUME gen \in 0 .. MaxGen, Covers(refs, sent, gen), Renewed
  PROVE  gen' \in 0 .. MaxGen /\ Covers(refs', sent', gen')
<1>1. /\ gen' = gen + 1 /\ gen' \in 1 .. MaxGen /\ MaxRefs \in Nat \ {0} /\ sent' = sent
  BY SessionAssumption DEF Renewed
<1>2. ASSUME NEW g \in Gen
      PROVE  /\ refs'[g] \in 0 .. MaxRefs
             /\ sent[g] + (IF g = gen' THEN 1 ELSE 0) <= refs'[g]
  <2>1. /\ refs[g] \in 0 .. MaxRefs /\ sent[g] \in 0 .. MaxRefs
        /\ sent[g] + (IF g = gen THEN 1 ELSE 0) <= refs[g]
        /\ gen < g => sent[g] = 0
    BY DEF Covers
  <2>2. refs'[g] = IF g = gen THEN refs[g] - 1 ELSE IF g = gen + 1 THEN 1 ELSE refs[g]
    BY DEF Renewed
  <2>. QED
    BY <1>1, <2>1, <2>2 DEF Gen
<1>3. refs' \in [Gen -> 0 .. MaxRefs]
  BY <1>2 DEF Renewed
<1>4. \A g \in Gen : gen' < g => sent'[g] = 0
  BY <1>1 DEF Covers, Gen
<1>. QED
  BY <1>1, <1>2, <1>3, <1>4 DEF Covers

LEMMA BeginRefs ==
  ASSUME Begin
  PROVE  RInv
BY SessionAssumption DEF Begin, RInv, ObjectsTypeOK, Held, Unborn, Own, Gen

LEMMA StepRefs ==
  ASSUME RInv, [Step]_allVars
  PROVE  RInv'
<1>. USE DEF RInv
<1>1. Covers(refs, sent, gen)
  BY CoversIsHeld
<1>. SUFFICES /\ asked' \in 0 .. MaxLogins
              /\ cert' \in {"none", "good", "bad"}
              /\ file' \in {"none", "torn", "whole"}
              /\ gen' \in 0 .. MaxGen
              /\ Covers(refs', sent', gen')
  BY DEF ObjectsTypeOK, Held, Unborn, Own, Covers
<1>2. CASE Me \/ Issued
  <2>1. UNCHANGED objects \/ Renewed
    BY <1>2 DEF Me, Issued, TcsipLocal
  <2>2. /\ asked' \in 0 .. MaxLogins
        /\ cert' \in {"none", "good", "bad"}
        /\ file' \in {"none", "torn", "whole"}
    BY <1>2, SessionAssumption DEF Me, Issued, TcsipLocal, Saved, ObjectsTypeOK
  <2>. QED
    BY <1>1, <2>1, <2>2, RenewedCovers DEF objects, ObjectsTypeOK
<1>3. CASE Login \/ Challenged \/ Denied \/ UNCHANGED allVars
  BY <1>1, <1>3, SessionAssumption
     DEF Login, Challenged, Denied, allVars, objects, ObjectsTypeOK
<1>4. CASE Killed \/ KilledInSavecert
  BY <1>4, SessionAssumption
     DEF Killed, KilledInSavecert, Gone, Covers, ObjectsTypeOK, Gen
<1>5. CASE Write \/ \E cmd \in {"OFF", "ON"} : Online(cmd)
  <2>1. UNCHANGED <<refs, sent>> \/ (gen # 0 /\ Sent(gen, refs, sent))
    BY <1>5 DEF Write, Online
  <2>2. asked' = asked /\ cert' = cert /\ file' = file /\ gen' = gen
    BY <1>5 DEF Write, Online
  <2>3. gen \in 0 .. MaxGen /\ gen <= gen /\ (gen # 0 => gen \in Gen)
    BY SessionAssumption DEF ObjectsTypeOK, Gen
  <2>4. CASE gen # 0 /\ Sent(gen, refs, sent)
    <3>1. Covers(refs', sent', gen)
      BY <1>1, <2>3, <2>4, SentCovers
    <3>. QED
      BY <2>2, <2>3, <3>1 DEF ObjectsTypeOK
  <2>5. CASE UNCHANGED <<refs, sent>>
    BY <1>1, <2>2, <2>3, <2>5 DEF ObjectsTypeOK
  <2>. QED
    BY <2>1, <2>4, <2>5
<1>6. ASSUME NEW g \in Gen, Answered(g)
      PROVE  /\ asked' = asked /\ cert' = cert /\ file' = file /\ gen' = gen
             /\ Covers(refs', sent', gen)
  <2>. DEFINE r == [refs EXCEPT ![g] = @ - 1]
              s == [sent EXCEPT ![g] = @ - 1]
  <2>1. sent[g] > 0 /\ ((refs' = r /\ sent' = s) \/ Sent(g, r, s))
    BY <1>6 DEF Answered
  <2>2. Covers(r, s, gen)
    BY <1>1, <2>1, AnswerCovers
  <2>3. g <= gen
    BY <2>1, SessionAssumption DEF ObjectsTypeOK, Unborn, Gen
  <2>4. Covers(refs', sent', gen)
    <3>. HIDE DEF r, s
    <3>. QED
      BY <2>1, <2>2, <2>3, SentCovers DEF ObjectsTypeOK
  <2>. QED
    BY <1>6, <2>4 DEF Answered
<1>7. CASE (Response \/ Renew) /\ UNCHANGED <<asked, cert, file, objects>>
  BY <1>1, <1>7 DEF objects, ObjectsTypeOK
<1>. QED
  BY <1>2, <1>3, <1>4, <1>5, <1>6, <1>7 DEF Step, ObjectsTypeOK

\* Each request in flight has a reference of its own, and sip->msg one more.
THEOREM RefsHeld == SessionSpec => []RInv
<1>1. Begin => RInv
  BY BeginRefs
<1>2. RInv /\ [Step]_allVars => RInv'
  BY StepRefs
<1>. QED
  BY <1>1, <1>2, PTL DEF SessionSpec

\* Every variable of Session and of Registration keeps its type.
THEOREM SessionTypeCorrect == SessionSpec => []SessionTypeOK
<1>1. RInv /\ TypeOK => SessionTypeOK
  BY DEF RInv, ObjectsTypeOK, SessionTypeOK
<1>. QED
  BY <1>1, RefsHeld, ImplementsRegistration, TypeCorrect, PTL

\* The answer to a MESSAGE finds the struct tcmessages it was sent from.
THEOREM AnswersFind == SessionSpec => []AnswersFindMessages
<1>1. RInv => AnswersFindMessages
  BY SessionAssumption DEF RInv, ObjectsTypeOK, Held, Own, AnswersFindMessages
<1>. QED
  BY <1>1, RefsHeld, PTL

(***************************************************************************)
(* The certificate.                                                        *)
(***************************************************************************)
\* what Registration does while the process lives keeps the user
LEMMA UserStays ==
  ASSUME user, Local \/ SetOnline("ON") \/ SetOnline("OFF") \/ Response \/ Renew
  PROVE  user'
BY DEF Local, SetOnline, Response, Renew

\* a 0 is reported at the end of tcsip_local, from a whole certificate
LEMMA LocalIsGood ==
  ASSUME NEW f, TcsipLocal(f), cert' = "good", ObjectsTypeOK
  PROVE  f = "whole" /\ user' /\ gen' # 0
BY DEF TcsipLocal, Local, Renewed, registration, session, ObjectsTypeOK

LEMMA StepGood ==
  ASSUME ObjectsTypeOK, GoodIsThere, [Step]_allVars
  PROVE  GoodIsThere'
<1>1. CASE Me \/ Issued
  BY <1>1, LocalIsGood DEF Me, Issued, GoodIsThere
<1>2. CASE Killed \/ KilledInSavecert \/ Denied
  BY <1>2 DEF Killed, KilledInSavecert, Gone, Denied, GoodIsThere
<1>3. CASE \/ Login \/ Challenged \/ Write
           \/ (\E g \in Gen : Answered(g)) \/ UNCHANGED allVars
  BY <1>3 DEF Login, Challenged, Write, Answered, allVars, registration, session,
              objects, GoodIsThere
<1>4. CASE \E cmd \in {"OFF", "ON"} : Online(cmd)
  BY <1>4, UserStays DEF Online, GoodIsThere
<1>5. CASE (Response \/ Renew) /\ UNCHANGED <<asked, cert, file, objects>>
  BY <1>5, UserStays DEF objects, GoodIsThere
<1>. QED
  BY <1>1, <1>2, <1>3, <1>4, <1>5 DEF Step

\* After a 0 there is a whole certificate on disk and a session made from one,
\* for any number of logins at a time and whatever savecert leaves.
THEOREM GoodFound == SessionSpec => []GoodIsThere
<1>1. Begin => GoodIsThere
  BY DEF Begin, GoodIsThere
<1>2. RInv /\ GoodIsThere /\ [Step]_allVars => GoodIsThere'
  BY StepGood DEF RInv
<1>. QED
  BY <1>1, <1>2, RefsHeld, PTL DEF SessionSpec
=============================================================================
