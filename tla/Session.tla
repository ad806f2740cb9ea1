------------------------------ MODULE Session ------------------------------
(***************************************************************************)
(* A session: the certificate, login.c which fetches one, tcsip_local      *)
(* which builds the objects of a user from it, and who still holds the     *)
(* struct tcmessages of an earlier login.  Registration runs beside it: a  *)
(* certificate is what lets set_online allocate one, and set_online ends   *)
(* in a flush.                                                             *)
(*                                                                         *)
(* tcsip_local frees what an earlier call made, so a login renews a        *)
(* session under requests that are in flight.  The callback of a MESSAGE   *)
(* has a msg_single whose ctx is a reference to the struct tcmessages it   *)
(* was sent from; when sip_drequestf fails at once nobody lets go of it.   *)
(*                                                                         *)
(* Nothing keeps a client from asking for a certificate again before the   *)
(* last one came: each request is a login_op of its own, and all write the *)
(* same file.                                                              *)
(***************************************************************************)
EXTENDS Registration, Integers

CONSTANTS
  MaxGen,    \* bound: times tcsip_local builds a session
  MaxRefs,   \* bound: references to one struct tcmessages
  MaxLogins  \* bound: login_ops at a time

ASSUME SessionAssumption == {MaxGen, MaxRefs, MaxLogins} \subseteq Nat \ {0}

Gen == 1 .. MaxGen

VARIABLES
  asked,   \* login_ops whose request is not answered for good
  cert,    \* the last report of the certificate: "none" yet, "good" (0) or "bad"
  file,    \* the certificate: "none" that can be read, "torn" before its key, or "whole"
  gen,     \* which struct tcmessages sip->msg is; 0 is NULL
  refs,    \* [Gen -> Nat]: references to each; with none it is freed
  sent     \* [Gen -> Nat]: MESSAGEs in flight that were sent from each

objects == <<gen, refs, sent>>
registration == <<session, uplinks>>
allVars == <<registration, asked, cert, file, objects>>

Begin ==
  /\ Init
  /\ asked = 0 /\ cert = "none"
  /\ file \in {"none", "whole"}
  /\ gen = 0
  /\ refs = [g \in Gen |-> 0]
  /\ sent = [g \in Gen |-> 0]

(***************************************************************************)
(* tcsip_local.                                                            *)
(***************************************************************************)
\* a new struct tcmessages in the place of the old one
Renewed ==
  /\ gen < MaxGen
  /\ gen' = gen + 1
  /\ refs' = [g \in Gen |-> IF g = gen THEN refs[g] - 1 ELSE IF g = gen + 1 THEN 1 ELSE refs[g]]
  /\ UNCHANGED sent

\* mutant: 0 is reported when the certificate is read, before the TLS context had it
LocalReportsEarly(f) ==
  /\ IF f = "none" \/ user THEN UNCHANGED registration ELSE Local
  /\ \/ cert' = (IF f = "none" THEN "bad" ELSE "good") /\ UNCHANGED objects
     \/ f = "whole" /\ cert' = "good" /\ Renewed

\* user_c is set once a certificate is read; the rest follows if its name
\* parses, it has not expired and the TLS context takes it and its key.  Each end
\* is reported.
TcsipLocal(f) ==
  /\ IF f = "none" \/ user THEN UNCHANGED registration ELSE Local
  /\ \/ cert' = "bad" /\ UNCHANGED objects
     \/ f = "whole" /\ cert' = "good" /\ Renewed

\* sip.me
Me ==
  /\ TcsipLocal(file)
  /\ UNCHANGED <<asked, file>>

(***************************************************************************)
(* login.c                                                                 *)
(***************************************************************************)
\* tcapi_login
Login ==
  /\ asked < MaxLogins
  /\ asked' = asked + 1
  /\ UNCHANGED <<registration, cert, file, objects>>

\* http_cert_done with a 401 that http_auth answers: the same login_op asks again,
\* for a wrong password as often as the server goes on, and is heard of no more if
\* http_send fails
Challenged ==
  /\ asked > 0
  /\ UNCHANGED allVars

\* http_cert_done with 401 that http_auth cannot answer, or any other code than
\* 200, and http_cert_err
Denied ==
  /\ asked > 0
  /\ asked' = asked - 1
  /\ cert' = "bad"
  /\ UNCHANGED <<registration, file, objects>>

\* what savecert leaves if it is not cut off; the results of its writes are ignored
Saved == {"none", "torn", "whole"}

\* 200: savecert, which reports 10 or calls tcsip_local, which reports
Issued ==
  /\ asked > 0
  /\ asked' = asked - 1
  /\ file' \in Saved
  /\ TcsipLocal(file')

\* the process is gone, with its objects, its requests and its client's screen
Gone ==
  /\ Restart
  /\ asked' = 0 /\ cert' = "none"
  /\ gen' = 0
  /\ refs' = [g \in Gen |-> 0]
  /\ sent' = [g \in Gen |-> 0]

Killed ==
  /\ Gone
  /\ UNCHANGED file

\* in savecert, between unlink and the last write
KilledInSavecert ==
  /\ asked > 0
  /\ file' \in {"none", "torn"}
  /\ Gone

(***************************************************************************)
(* Messages: see Messages for what is in them and when they are sent.      *)
(***************************************************************************)
\* mutant: msg->ctx is not a reference
SentWithoutRef(g, r, s) ==
  /\ refs' = r
  /\ s[g] < MaxRefs
  /\ sent' = s \/ sent' = [s EXCEPT ![g] = @ + 1]

\* one more request from g, which sip_drequestf takes or not
Sent(g, r, s) ==
  /\ r[g] < MaxRefs
  /\ refs' = [r EXCEPT ![g] = @ + 1]
  /\ sent' = s \/ sent' = [s EXCEPT ![g] = @ + 1]

\* tcmessage
Write ==
  /\ gen # 0
  /\ Sent(gen, refs, sent)
  /\ UNCHANGED <<registration, asked, cert, file, gen>>

\* tcsip_set_online: in the end a row that is pending is sent
Online(cmd) ==
  /\ SetOnline(cmd)
  /\ \/ UNCHANGED <<refs, sent>>
     \/ cmd # "OFF" /\ gen # 0 /\ Sent(gen, refs, sent)
  /\ UNCHANGED <<asked, cert, file, gen>>

\* message_response: the flush in it comes before the reference is given back
Answered(g) ==
  /\ sent[g] > 0
  /\ LET r == [refs EXCEPT ![g] = @ - 1]
         s == [sent EXCEPT ![g] = @ - 1]
     IN (refs' = r /\ sent' = s) \/ Sent(g, r, s)
  /\ UNCHANGED <<registration, asked, cert, file, gen>>

Step ==
  /\ ~crashed
  /\ \/ Me
     \/ Login \/ Challenged \/ Denied \/ Issued
     \/ Killed \/ KilledInSavecert
     \/ Write
     \/ \E cmd \in {"OFF", "ON"} : Online(cmd)
     \/ \E g \in Gen : Answered(g)
     \/ (Response \/ Renew) /\ UNCHANGED <<asked, cert, file, objects>>

SessionSpec == Begin /\ [][Step]_allVars

\* libre ends every REGISTER with an answer or a timeout.  Nothing is assumed of a
\* login: its rounds of 401 need not end.
FairSession == SessionSpec /\ WF_vars(~crashed /\ Response)

(***************************************************************************)
(* Properties.                                                             *)
(***************************************************************************)
SessionTypeOK ==
  /\ TypeOK
  /\ asked \in 0 .. MaxLogins
  /\ cert \in {"none", "good", "bad"}
  /\ file \in {"none", "torn", "whole"}
  /\ gen \in 0 .. MaxGen
  /\ refs \in [Gen -> 0 .. MaxRefs]
  /\ sent \in [Gen -> 0 .. MaxRefs]

\* The answer to a MESSAGE finds the struct tcmessages it was sent from, however
\* often the session was renewed since, whoever sent it (the user, set_online, or
\* the flush after another answer), and whatever sends have failed.
AnswersFindMessages ==
  \A g \in Gen : sent[g] > 0 => refs[g] > 0

\* What the client was told last of its certificate can be relied on: after a 0 there
\* is a certificate with its key on disk, for the next start, and a session made
\* from one, although savecert ignores what its writes return, a later login
\* unlinks the file first, and logins end in any order.
GoodIsThere == cert = "good" => file = "whole" /\ user /\ gen # 0
=============================================================================
