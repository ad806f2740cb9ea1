---------------------------- MODULE Registration ----------------------------
(***************************************************************************)
(* Going online and offline: tcsip_set_online up to the registration, and  *)
(* tcsipreg.c, over the contacts of Uplinks.                               *)
(*                                                                         *)
(* libre's sipreg object is external: it sends a REGISTER, gives every     *)
(* final answer or failure to register_handler and sends the next REGISTER *)
(* by itself after a while; once dereferenced it calls back no more.       *)
(* REG_BG and REG_FG differ only in the interval they hand to it: both are *)
(* ON.                                                                     *)
(***************************************************************************)
EXTENDS Uplinks

VARIABLES
  user,     \* sip->user_c is set: tcsip_local has read a certificate
  sreg,     \* sip->sreg_c is allocated
  reg,      \* reg->reg: "null", or the sipreg is "asking" or "waiting"
  rstate,   \* reg->rstate
  shown,    \* last state reported to the user interface
  off,      \* ghost: the last command was REG_OFF
  answer    \* ghost: the last answer the present sipreg got

session == <<user, sreg, reg, rstate, shown, off, answer>>
vars == <<session, uplinks>>

Bits    == {"START", "AUTH", "ONLINE"}
States  == {"NONE", "TRY", "ONLINE"}
Answers == {"none", "ok", "refused"}

Init ==
  /\ user = FALSE
  /\ sreg = FALSE
  /\ reg = "null"
  /\ rstate = {}
  /\ shown = "NONE"
  /\ off = TRUE
  /\ answer = "none"
  /\ UplinksInit

(***************************************************************************)
(* tcsipreg.c                                                              *)
(***************************************************************************)
\* tcsreg_send
Send ==
  \/ \* sipreg_register fails
     /\ shown' = "NONE"
     /\ UNCHANGED <<reg, rstate, answer>>
  \/ /\ reg' = "asking"
     /\ rstate' = rstate \cup {"START"}
     /\ shown' = "TRY"
     /\ answer' = "none"

\* mutant: a sipreg that failed is dropped without a report
ResendDropsSilently ==
  \/ reg' = "null" /\ UNCHANGED <<shown, rstate, answer>>
  \/ /\ reg' = "asking"
     /\ shown' = IF "AUTH" \in rstate THEN "ONLINE" ELSE "TRY"
     /\ UNCHANGED <<rstate, answer>>

\* tcsreg_resend
Resend ==
  \/ \* sipreg_expires fails
     /\ reg' = "null"
     /\ shown' = "NONE"
     /\ UNCHANGED <<rstate, answer>>
  \/ /\ reg' = "asking"
     /\ shown' = IF "AUTH" \in rstate THEN "ONLINE" ELSE "TRY"
     /\ UNCHANGED <<rstate, answer>>

\* tcsreg_state
SetState(cmd) ==
  IF cmd = "OFF" THEN reg' = "null" /\ UNCHANGED <<rstate, shown, answer>>
  ELSE IF reg # "null" THEN Resend ELSE Send

\* mutant: a refusal clears the bit and is not reported
RefusedIsNotReported ==
  /\ rstate' = rstate \ {"ONLINE"}
  /\ answer' = "refused"
  /\ UNCHANGED shown

\* mutant: REG_AUTH, a bit, is reported instead of a state
GrantedReportsAuth ==
  /\ shown' = "AUTH"
  /\ rstate' = rstate \cup {"AUTH", "ONLINE"}
  /\ answer' = "ok"

\* tcsreg_response: 200
Granted ==
  /\ shown' = "ONLINE"
  /\ rstate' = rstate \cup {"AUTH", "ONLINE"}
  /\ answer' = "ok"

\* tcsreg_response: any other status, 900 for none
Refused ==
  /\ rstate' = rstate \ {"ONLINE"}
  /\ shown' = "NONE"
  /\ answer' = "refused"

(***************************************************************************)
(* Actions.                                                                *)
(***************************************************************************)
\* tcsip_local reads a certificate; user_c is set before anything is checked
Local ==
  /\ ~user
  /\ user' = TRUE
  /\ UNCHANGED <<sreg, reg, rstate, shown, off, answer, uplinks>>

\* tcsip_set_online: the registration is allocated when it is first needed
SetOnline(cmd) ==
  /\ off' = (cmd = "OFF")
  /\ sreg' = (sreg \/ (user /\ cmd # "OFF"))
  /\ IF sreg' THEN SetState(cmd) ELSE UNCHANGED <<reg, rstate, shown, answer>>
  /\ UNCHANGED <<user, uplinks>>

\* tcsreg_contacts: the Contact headers with an uplink parameter; none if
\* nothing was received
Contacts == SUBSET Uri

\* register_handler
Response ==
  /\ reg = "asking"
  /\ reg' = "waiting"
  /\ Granted \/ Refused
  /\ \E upl \in Contacts : Update(upl)
  /\ UNCHANGED <<user, sreg, off>>

\* libre's timer: the registration is renewed, or tried again
Renew ==
  /\ reg = "waiting"
  /\ reg' = "asking"
  /\ UNCHANGED <<user, sreg, rstate, shown, off, answer, uplinks>>

\* the process ends and is started anew, and so is its client
Restart ==
  /\ user' = FALSE /\ sreg' = FALSE /\ off' = TRUE
  /\ reg' = "null" /\ rstate' = {} /\ answer' = "none"
  /\ shown' = "NONE"
  /\ known' = {} /\ report' = [u \in Uri |-> "none"]
  /\ UNCHANGED <<crashed, bucket>>

Next ==
  /\ ~crashed
  /\ \/ Local
     \/ Restart
     \/ \E cmd \in {"OFF", "ON"} : SetOnline(cmd)
     \/ Response
     \/ Renew

Spec == Init /\ [][Next]_vars

(***************************************************************************)
(* Properties.                                                             *)
(***************************************************************************)
TypeOK ==
  /\ UplinksTypeOK
  /\ user \in BOOLEAN /\ sreg \in BOOLEAN /\ off \in BOOLEAN
  /\ reg \in {"null", "asking", "waiting"}
  /\ rstate \subseteq Bits
  /\ shown \in States
  /\ answer \in Answers

\* What the user sees of a registration that was granted, or that cannot even
\* be asked for, is the truth, after any mix of commands, refusals and renewals:
\* the AUTH bit, which tcsreg_resend trusts and nothing clears, never hides a
\* grant or a dead sipreg, nor shows "online" to a user who never was.
DisplayIsRight ==
  /\ reg # "null" /\ answer = "ok" => shown = "ONLINE"
  /\ reg = "null" /\ sreg /\ ~off => shown = "NONE"
  /\ shown = "ONLINE" => "AUTH" \in rstate

\* After a refusal, or with a new sipreg, tcsreg_resend reports ONLINE from
\* AUTH alone, before anything has answered.
Stale == reg # "null" /\ shown = "ONLINE" /\ answer # "ok"

\* The safety half of StaleIsCorrected: whoever sees such a report has a REGISTER
\* under way, whose answer or failure register_handler will report.
StaleIsAsking == Stale => reg = "asking"

\* Such a report is taken back or comes true.
StaleIsCorrected == Stale ~> (~Stale \/ crashed)
=============================================================================
