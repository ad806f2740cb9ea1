-------------------------------- MODULE Call --------------------------------
(***************************************************************************)
(* The life of the calls of one softphone: tcsipcall.c, the call part of   *)
(* tcsip.c and tcmedia.c, and the reports tcreport.c writes to the user    *)
(* interface.                                                              *)
(*                                                                         *)
(* The program is one event loop: every action below is one callback run   *)
(* to its end.  Callbacks come from the user interface (start, control),   *)
(* from libre's SIP session (progress, established, closed), from ICE      *)
(* gathering, from the keep-alive timer of the media and from the hangup   *)
(* timer of the call.  libre's objects are external: `sess' and `media'    *)
(* keep the little of their state that decides which callback may come.    *)
(*                                                                         *)
(* Each C function on a struct tcsipcall is an operator from the old       *)
(* record to the new one; the steps that may fail take their outcome as    *)
(* an argument.                                                            *)
(***************************************************************************)
EXTENDS Integers, Sequences, SequencesExt

CONSTANTS
  Call,      \* the calls that may ever exist
  Key,       \* the strings a ckey "<second>@<from>-><to>" can be
  Settings,  \* which calls share a key, and which library calls may fail
  MaxEarly   \* bound: early-media answers the peer sends on one call

FaultKinds == {"media_alloc", "accept", "connect", "offer", "answer", "snd", "dns", "listen"}

ASSUME CallAssumption ==
  /\ Settings \subseteq [keyOf : [Call -> Key], faults : SUBSET FaultKinds]
  /\ MaxEarly \in Nat

Flags   == {"IN_RING", "OUT_RING", "FLOW", "MEDIA", "EST", "ERR", "ICE"}
RING    == {"IN_RING", "OUT_RING"}
ALIVE   == RING \cup {"EST"}
Dirs    == {"NONE", "IN", "OUT"}
Reasons == {"NONE", "OK", "CANCEL", "HANG"}

\* no session / INVITE sent, no final answer / 180 sent, no final answer /
\* 200 sent, ACK not received / dialog confirmed
Sess    == {"null", "inviting", "ringing", "answered", "up"}

\* no media / waiting for DNS and STUN / DNS failed, nothing will come /
\* candidates gathered / audio running
Media   == {"null", "gathering", "stalled", "ready", "started"}

Report  == [msg : {"add", "est", "del"}, reason : Reasons]
Struct  == [mem    : {"unused", "alloc", "freed"},
            cdir   : Dirs,
            cstate : SUBSET Flags,
            reason : Reasons,
            sess   : Sess,
            media  : Media,
            tmr    : BOOLEAN,            \* the hangup timer is running
            early  : 0 .. MaxEarly,      \* early answers so far
            asked  : BOOLEAN,            \* ghost: CALL_ACCEPT was given for it
            told   : Seq(Report),        \* what the user interface was sent
            filed  : Seq({"OK", "HANG"})]\* what history_add was given

VARIABLES
  call,     \* [Call -> Struct]
  calls,    \* sip->calls_c, oldest first
  online,   \* uac->laddr is set and uac->sock listens
  crashed,  \* a timer ran on freed memory; what follows is undefined
  setting   \* one of Settings; never changes

vars == <<call, calls, online, crashed, setting>>

\* two calls of one second to one peer share a key
KeyOf  == setting.keyOf
Faults == setting.faults

\* the outcomes of a library call: TRUE is success
Outcomes(f) == IF f \in Faults THEN BOOLEAN ELSE {TRUE}

NoCall == [mem |-> "unused", cdir |-> "NONE", cstate |-> {}, reason |-> "NONE",
           sess |-> "null", media |-> "null", tmr |-> FALSE, early |-> 0,
           asked |-> FALSE, told |-> <<>>, filed |-> <<>>]

Init ==
  /\ call = [c \in Call |-> NoCall]
  /\ calls = <<>>
  /\ online = FALSE
  /\ crashed = FALSE
  /\ setting \in Settings

(***************************************************************************)
(* tcsip_call_changed: report_call_change, then tcsip_call_history.        *)
(***************************************************************************)
IsAlive(k) == k.cstate \cap ALIVE # {}

ReportChange(k) ==
  IF ~IsAlive(k)
  THEN [k EXCEPT !.told = Append(@, [msg |-> "del", reason |-> k.reason])]
  ELSE IF "EST" \in k.cstate
  THEN [k EXCEPT !.told = Append(@, [msg |-> "est", reason |-> "NONE"])]
  ELSE k

CallHistory(k) ==
  IF IsAlive(k) THEN k
  ELSE [k EXCEPT !.filed = Append(@, IF k.reason = "OK" THEN "OK" ELSE "HANG")]

Changed(k) == CallHistory(ReportChange(k))

(***************************************************************************)
(* tcsipcall.c                                                             *)
(***************************************************************************)
\* mutant: the ring bits survive activation
ActivateKeepsRinging(k, started) ==
  IF {"FLOW", "MEDIA"} \subseteq k.cstate THEN k
  ELSE Changed([k EXCEPT !.cstate = @ \cup {"EST"} \cup
                            IF started THEN {"FLOW", "MEDIA"} ELSE {"ERR"},
                         !.media = IF started THEN "started" ELSE @])

Activate(k, started) ==
  IF {"FLOW", "MEDIA"} \subseteq k.cstate THEN k
  ELSE LET est == [k EXCEPT !.cstate = (@ \ RING) \cup {"EST"}]
       IN Changed(IF started
                  THEN [est EXCEPT !.cstate = @ \cup {"FLOW", "MEDIA"},
                                   !.media = "started"]
                  ELSE [est EXCEPT !.cstate = @ \cup {"ERR"}])

\* mutant: the session is not released
HangupKeepsSession(k) ==
  LET ended == [k EXCEPT !.reason = IF @ # "NONE" THEN @
                                    ELSE IF "EST" \in k.cstate THEN "OK" ELSE "HANG",
                         !.cstate = @ \ ALIVE,
                         !.media  = "null"]
  IN [Changed(ended) EXCEPT !.mem = "freed"]

\* mutant: EST dropped before it is looked at, so the reason is always HANG
HangupForgetsEst(k) ==
  LET ended == [k EXCEPT !.sess   = "null",
                         !.reason = IF @ # "NONE" THEN @ ELSE "HANG",
                         !.cstate = @ \ ALIVE,
                         !.media  = "null"]
  IN [Changed(ended) EXCEPT !.mem = "freed"]

\* The struct is freed with its hangup timer still linked if it was running.
Hangup(k) ==
  LET ended == [k EXCEPT !.sess   = "null",
                         !.reason = IF @ # "NONE" THEN @
                                    ELSE IF "EST" \in k.cstate THEN "OK" ELSE "HANG",
                         !.cstate = @ \ ALIVE,
                         !.media  = "null"]
  IN [Changed(ended) EXCEPT !.mem = "freed"]

\* case CALL_ACCEPT of tcsipcall_control
Accept(k, offered, answered) ==
  IF k.cstate \cap {"ERR", "EST"} # {} \/ k.cdir # "IN" THEN k
  ELSE IF "ICE" \notin k.cstate \/ ~offered
  THEN [k EXCEPT !.cstate = @ \ RING]
  ELSE [k EXCEPT !.cstate = (@ \ RING) \cup {"EST"},
                 !.sess = IF answered THEN "answered" ELSE @]

\* mutant: the reason is the action, not a call_end_t
ByeReasonIsAction(k) ==
  Hangup([k EXCEPT !.cstate = @ \ {"IN_RING"}, !.reason = "REJECT"])

\* cases CALL_REJECT and CALL_BYE of tcsipcall_control
Bye(k) ==
  LET rejected == IF "IN_RING" \in k.cstate
                  THEN [k EXCEPT !.cstate = @ \ {"IN_RING"}, !.reason = "HANG"] ELSE k
      ended    == IF "EST" \in rejected.cstate
                  THEN [rejected EXCEPT !.cstate = @ \ {"EST"}, !.reason = "OK"]
                  ELSE rejected
      canceled == IF "OUT_RING" \in ended.cstate
                  THEN [ended EXCEPT !.cstate = @ \ {"EST"}, !.reason = "CANCEL"]
                  ELSE ended
  IN Hangup(canceled)

\* mutant: a failed INVITE leaves no mark
SendFailsSilently(k, connected) ==
  IF connected
  THEN [k EXCEPT !.cstate = @ \cup {"OUT_RING"}, !.sess = "inviting"]
  ELSE k

Send(k, connected) ==
  IF connected
  THEN [k EXCEPT !.cstate = @ \cup {"OUT_RING"}, !.sess = "inviting"]
  ELSE [k EXCEPT !.cstate = @ \cup {"ERR"}]

\* mutant: answers whether or not the call still rings
IceOkAnswersRinging(k, connected, offered, answered) ==
  LET ready == [k EXCEPT !.media = "ready", !.cstate = @ \cup {"ICE"}]
  IN IF k.cdir = "OUT" THEN Send(ready, connected)
     ELSE Accept(ready, offered, answered)

\* mutant: forgets the accept that came before the candidates
IceOkForgetsAccept(k, connected, offered, answered) ==
  LET ready == [k EXCEPT !.media = "ready", !.cstate = @ \cup {"ICE"}]
  IN IF k.cdir = "OUT" THEN Send(ready, connected) ELSE ready

\* case MEDIA_ICE_OK of media_event
IceOk(k, connected, offered, answered) ==
  LET ready == [k EXCEPT !.media = "ready", !.cstate = @ \cup {"ICE"}]
  IN IF k.cdir = "OUT" THEN Send(ready, connected)
     ELSE IF "IN_RING" \notin k.cstate THEN Accept(ready, offered, answered)
     ELSE ready

(***************************************************************************)
(* The list of calls.  A step that freed the call has unlinked it.         *)
(***************************************************************************)
\* mutant: drops the oldest call whichever one ended
UnlinkOldest(s, c) == IF s = <<>> THEN s ELSE Tail(s)

Unlink(s, c) ==
  IF \E i \in DOMAIN s : s[i] = c
  THEN RemoveAt(s, CHOOSE i \in DOMAIN s : s[i] = c)
  ELSE s

Put(c, k) ==
  /\ call' = [call EXCEPT ![c] = k]
  /\ calls' = IF k.mem = "freed" THEN Unlink(calls, c) ELSE calls

\* the call a ckey sent by the user interface stands for: the oldest that has it
Found(key, c) ==
  \E i \in DOMAIN calls :
    /\ calls[i] = c
    /\ KeyOf[c] = key
    /\ \A j \in 1 .. i - 1 : KeyOf[calls[j]] # key

(***************************************************************************)
(* Commands of the user interface.                                         *)
(***************************************************************************)
Allocated(dir, ok) ==
  [NoCall EXCEPT !.mem = "alloc", !.cdir = dir,
                 !.cstate = (IF dir = "IN" THEN {"IN_RING"} ELSE {})
                            \cup (IF ok THEN {} ELSE {"ERR"}),
                 !.media = IF ok THEN "gathering" ELSE "null",
                 !.told = <<[msg |-> "add", reason |-> "NONE"]>>]

StartCall(c) ==
  /\ online
  /\ call[c].mem = "unused"
  /\ \E ok \in Outcomes("media_alloc") : call' = [call EXCEPT ![c] = Allocated("OUT", ok)]
  /\ calls' = Append(calls, c)
  /\ UNCHANGED <<online, crashed>>

ControlAccept(key, c) ==
  /\ Found(key, c)
  /\ \E o \in Outcomes("offer"), a \in Outcomes("answer") :
       Put(c, Accept([call[c] EXCEPT !.asked = TRUE], o, a))
  /\ UNCHANGED <<online, crashed>>

ControlBye(key, c) ==
  /\ Found(key, c)
  /\ Put(c, Bye(call[c]))
  /\ UNCHANGED <<online, crashed>>

SetOnline(up) ==
  /\ up # online
  /\ up => \E ok \in Outcomes("listen") : online' = ok
  /\ ~up => online' = FALSE
  /\ UNCHANGED <<call, calls, crashed>>

(***************************************************************************)
(* The SIP session of libre and the peer behind it.                        *)
(***************************************************************************)
Incoming(c) ==
  /\ online
  /\ call[c].mem = "unused"
  /\ \E ok \in Outcomes("media_alloc"), acc \in Outcomes("accept") :
       call' = [call EXCEPT ![c] =
                  [Allocated("IN", ok) EXCEPT
                     !.sess = IF acc THEN "ringing" ELSE "null",
                     !.cstate = IF acc THEN @ ELSE @ \cup {"ERR"}]]
  /\ calls' = Append(calls, c)
  /\ UNCHANGED <<online, crashed>>

\* 183 with a body
Progress(c) ==
  /\ call[c].sess = "inviting"
  /\ call[c].early < MaxEarly
  /\ \E s \in Outcomes("snd") :
       Put(c, [Activate(call[c], s) EXCEPT !.early = @ + 1])
  /\ UNCHANGED <<online, crashed>>

\* 200 to our INVITE, or the ACK to our 200
Established(c) ==
  /\ call[c].sess \in {"inviting", "answered"}
  /\ \E s \in Outcomes("snd") : Put(c, [Activate(call[c], s) EXCEPT !.sess = "up"])
  /\ UNCHANGED <<online, crashed>>

\* rejected, cancelled, timed out, or the peer's BYE
Closed(c) ==
  /\ call[c].sess # "null"
  /\ Put(c, Hangup(call[c]))
  /\ UNCHANGED <<online, crashed>>

(***************************************************************************)
(* Media callbacks and timers.                                             *)
(***************************************************************************)
GatherDone(c) ==
  /\ call[c].media = "gathering"
  /\ \E n \in Outcomes("connect"), o \in Outcomes("offer"), a \in Outcomes("answer") :
       Put(c, IceOk(call[c], n /\ online, o, a))
  /\ UNCHANGED <<online, crashed>>

\* dns_handler returns on an error, and nothing else will report
GatherStalled(c) ==
  /\ "dns" \in Faults
  /\ call[c].media = "gathering"
  /\ Put(c, [call[c] EXCEPT !.media = "stalled"])
  /\ UNCHANGED <<online, crashed>>

\* ka_handler: 15 s without a packet
KeepAliveFail(c) ==
  /\ call[c].media = "started"
  /\ ~call[c].tmr
  /\ Put(c, [call[c] EXCEPT !.tmr = TRUE])
  /\ UNCHANGED <<online, crashed>>

\* mutant: the timer runs and nothing hangs up
HangupTimerIgnored(c) ==
  /\ call[c].tmr
  /\ Put(c, [call[c] EXCEPT !.tmr = FALSE])
  /\ UNCHANGED <<online, crashed>>

\* the hangup timer, 100 ms after ka_handler; it may find its call freed
HangupTimer(c) ==
  /\ call[c].tmr
  /\ IF call[c].mem = "alloc"
     THEN Put(c, [Hangup(call[c]) EXCEPT !.tmr = FALSE]) /\ UNCHANGED crashed
     ELSE crashed' = TRUE /\ UNCHANGED <<call, calls>>
  /\ UNCHANGED online

Next ==
  /\ ~crashed
  /\ UNCHANGED setting
  /\ \/ \E up \in BOOLEAN : SetOnline(up)
     \/ \E key \in Key, c \in Call : ControlAccept(key, c) \/ ControlBye(key, c)
     \/ \E c \in Call :
          \/ StartCall(c)   \/ Incoming(c)      \/ Progress(c)
          \/ Established(c) \/ Closed(c)        \/ GatherDone(c)
          \/ GatherStalled(c) \/ KeepAliveFail(c) \/ HangupTimer(c)

Spec == Init /\ [][Next]_vars

\* Gathering and timers belong to libre's loop, which always gets to them;
\* nothing is assumed of the user, the peer or the network.
Fairness ==
  \A c \in Call :
    /\ WF_vars(~crashed /\ UNCHANGED setting /\ (GatherDone(c) \/ GatherStalled(c)))
    /\ WF_vars(~crashed /\ UNCHANGED setting /\ HangupTimer(c))

FairSpec == Spec /\ Fairness

(***************************************************************************)
(* Properties.                                                             *)
(***************************************************************************)

TypeOK ==
  /\ call \in [Call -> Struct]
  /\ calls \in Seq(Call)
  /\ online \in BOOLEAN
  /\ crashed \in BOOLEAN
  /\ setting \in Settings

\* The list a ckey is looked up in holds every live call exactly once and no
\* freed one: the user can always reach a call, whatever order calls end in
\* (tcsipcall_append, tcsipcall_remove, report_call_change).
ListIsLive ==
  /\ \A i, j \in DOMAIN calls : calls[i] = calls[j] => i = j
  /\ \A c \in Call : call[c].mem = "alloc" <=> \E i \in DOMAIN calls : calls[i] = c

\* Once a call is freed neither its SIP session nor its media can call back
\* into it: tcsipcall_hangup let go of both, whichever callback ended it.
\* Only the hangup timer can outlive it (call_destruct does not cancel it).
NothingOutlivesTheCall ==
  \A c \in Call : call[c].mem # "alloc" => call[c].sess = "null" /\ call[c].media = "null"

\* Every session callback that uses call->media (offer, answer, progress and
\* establish handlers) finds media whose ICE candidates were gathered: no
\* session starts before, and no failed allocation gets that far.
MediaBeforeSession ==
  \A c \in Call : call[c].sess \in {"inviting", "answered", "up"}
                    => call[c].media \in {"ready", "started"}

\* The sound device runs (tcmedia_start) only for a call marked EST, no longer
\* ringing, whose session the peer has given its SDP to.
AudioOnlyInSession ==
  \A c \in Call : call[c].media = "started" =>
    /\ {"EST", "FLOW", "MEDIA"} \subseteq call[c].cstate
    /\ call[c].cstate \cap RING = {}
    /\ call[c].sess \in {"inviting", "up"}

\* An incoming call is answered only if the user asked: media_event answers by
\* itself when ICE is done and IN_RING is gone, and nothing but CALL_ACCEPT
\* takes IN_RING from a call that lives on.
AnswerNeedsUser ==
  \A c \in Call :
    (/\ call[c].cdir = "IN"
     /\ call[c].sess \in {"answered", "up"} \/ "EST" \in call[c].cstate)
      => call[c].asked

\* The user interface gets add first, then est any number of times, then del
\* once and last, and history_add runs once with the verdict of that del.
ReportsInOrder ==
  \A c \in Call : LET t == call[c].told IN
    /\ t = <<>> <=> call[c].mem = "unused"
    /\ \A i \in DOMAIN t : t[i].msg = "add" <=> i = 1
    /\ \A i \in DOMAIN t : t[i].msg = "del" <=> (i = Len(t) /\ call[c].mem = "freed")
    /\ Len(call[c].filed) = IF call[c].mem = "freed" THEN 1 ELSE 0

\* EST is given up only by the step that ends the call: no other callback, in
\* whatever order it comes, takes an established call back to ringing.
EstUntilFreed ==
  [][\A c \in Call : "EST" \in call[c].cstate
       => "EST" \in call'[c].cstate \/ call'[c].mem = "freed"]_vars

(***************************************************************************)
(* The promise of CallService, seen through the reports.                   *)
(***************************************************************************)
Phase(k) ==
  IF k.told = <<>> THEN "absent"
  ELSE CASE k.told[Len(k.told)].msg = "add" -> "announced"
         [] k.told[Len(k.told)].msg = "est" -> "established"
         [] k.told[Len(k.told)].msg = "del" -> "ended"

Why(k)   == IF Phase(k) = "ended" THEN k.told[Len(k.told)].reason ELSE "NONE"
Filed(k) == IF k.filed = <<>> THEN "none" ELSE k.filed[Len(k.filed)]

Service == INSTANCE CallService WITH
  phase  <- [c \in Call |-> Phase(call[c])],
  reason <- [c \in Call |-> Why(call[c])],
  filed  <- [c \in Call |-> Filed(call[c])]

\* What the user interface is sent is what CallService promises: in particular
\* a call reported established ends with reason OK and is filed as OK.
ImplementsService == Service!ServiceSpec

(***************************************************************************)
(* Liveness, with libre's loop fair.                                       *)
(***************************************************************************)
Over(c) == call[c].mem = "freed" \/ crashed

\* The failures that leave no ERR on a call: DNS, after which ICE never reports; the
\* making of an answer, where `err' gets the flag instead; and sipsess_answer, whose
\* result is dropped: EST is set, and the caller is never answered.
AllAreFlagged == Faults \cap {"dns", "offer", "answer"} = {}

\* the 200 is sent
Answered(c) == call[c].sess \in {"answered", "up"}

\* A call the user accepted before its candidates were gathered has its 200 sent
\* when they are, unless it is flagged ERR or ends first.
AcceptIsAnswered ==
  \A c \in Call :
    (AllAreFlagged /\ call[c].asked /\ call[c].cdir = "IN")
      ~> (Answered(c) \/ "ERR" \in call[c].cstate \/ Over(c))

\* A dialled call sends its INVITE, or is flagged ERR, or ends, unless DNS left its
\* media without candidates.
DialIsSettled ==
  \A c \in Call :
    (call[c].cdir = "OUT") ~>
      \/ call[c].sess # "null" \/ "ERR" \in call[c].cstate
      \/ call[c].media = "stalled" \/ Over(c)

\* The safety half of AcceptIsAnswered: as long as an accepted call has neither its
\* 200 sent nor ERR, its gathering is still to report, and the call no longer rings,
\* so that the report of its candidates (MEDIA_ICE_OK) answers it.
AcceptedStillGathers ==
  \A c \in Call :
    (/\ AllAreFlagged /\ call[c].mem = "alloc"
     /\ call[c].asked /\ call[c].cdir = "IN"
     /\ ~Answered(c) /\ "ERR" \notin call[c].cstate)
      => call[c].media = "gathering" /\ "IN_RING" \notin call[c].cstate

\* The safety half of DialIsSettled: a live dialled call with neither a session nor
\* an ERR flag still has its gathering to wait for, or lost it to DNS.
DialledStillGathers ==
  \A c \in Call :
    (/\ call[c].mem = "alloc" /\ call[c].cdir = "OUT"
     /\ call[c].sess = "null" /\ "ERR" \notin call[c].cstate)
      => call[c].media \in {"gathering", "stalled"}

\* A call whose keep-alive failed is torn down.
SilenceEndsCall == \A c \in Call : call[c].tmr ~> Over(c)
=============================================================================
