------------------------------ MODULE Messages ------------------------------
(***************************************************************************)
(* Text messages: tcmessage.c over the rows store.c keeps, and the part of *)
(* tcsip_set_online that flushes what is pending.                          *)
(*                                                                         *)
(* A message is sent at once and written to the database as PENDING; when  *)
(* its 200 comes a second row of the same idx is written as SYNC and       *)
(* store_obsolete takes the older rows of that idx away.  What is PENDING  *)
(* is sent again, oldest first and one at a time (LIMIT 1), when the user  *)
(* goes online and when the counter `flush' comes down to zero.            *)
(*                                                                         *)
(* Message m is the m-th the user writes: idx starts with the padded time  *)
(* of writing, so ORDER BY idx is the order of the numbers.  blob_key ends *)
(* in "%d.%d" of the seconds and the microseconds and is compared as text: *)
(* a later key is greater if the second has changed, and within a second   *)
(* it may be greater or less (".95000" is after ".100500").                *)
(*                                                                         *)
(* The idx of a message that comes in starts with its Date, which the peer *)
(* wrote: to the microsecond if it is this program, else to the second.    *)
(***************************************************************************)
EXTENDS Integers, FiniteSets

CONSTANTS
  MaxMsg,     \* bound: messages the user writes
  MaxCopies,  \* bound: requests of one message and kind in flight at once
  Incoming,   \* messages other users write
  DateOf      \* the sender and the Date of each

ASSUME MessagesAssumption ==
  /\ MaxMsg \in Nat \ {0}
  /\ MaxCopies \in Nat \ {0}

Msg  == 1 .. MaxMsg
Task == Msg \X {"direct", "flusher"}   \* sent by tcmessage, by send_pending

VARIABLES
  written,  \* how many messages were written
  pend,     \* messages with a current row of state MSTATE_PENDING
  sync,     \* messages with a current row of state MSTATE_SYNC
  young,    \* messages whose PENDING row has a key of the present second
  flight,   \* [Task -> Nat]: requests that wait for their final response
  flush,    \* tcmsg->flush
  told,     \* [Msg -> state last reported to the user interface]
  acked,    \* ghost: messages a 200 came for
  inbox,    \* incoming messages with a current row
  fresh,    \* those whose row has a key of the present second
  shown,    \* ghost: incoming messages that were reported
  sendFails \* sip_drequestf may fail; never changes

rows == <<pend, sync, young>>
incoming == <<inbox, fresh, shown>>
vars == <<written, rows, flight, flush, told, acked, incoming, sendFails>>

Init ==
  /\ written = 0
  /\ pend = {} /\ sync = {} /\ young = {}
  /\ flight = [t \in Task |-> 0]
  /\ flush = 0
  /\ told = [m \in Msg |-> "none"]
  /\ acked = {}
  /\ inbox = {} /\ fresh = {} /\ shown = {}
  /\ sendFails \in BOOLEAN

(***************************************************************************)
(* The store and the flush.                                                *)
(***************************************************************************)
Sendable == IF sendFails THEN BOOLEAN ELSE {TRUE}

\* the row FETCH_SQL_ASC_N selects
Oldest(p) == CHOOSE m \in p : \A n \in p : m <= n

\* mutant: no `where idx=?'
ObsoleteAnyIdx(m) == {{}, IF m \in young THEN pend ELSE {}}

\* mutant: `blob_key > ?'
ObsoleteNewer(m) == {pend}

\* the messages that may stay pending when m gets a SYNC row
Obsolete(m) == {pend \ {m}} \cup IF m \in young THEN {pend} ELSE {}

\* mutant: no `tcmsg->flush = 0'
FlushAddsUp(p, f) ==
  IF p = {} THEN UNCHANGED flush /\ flight' = f
  ELSE LET t == <<Oldest(p), "flusher">> IN
       /\ flush' = flush + 1
       /\ f[t] < MaxCopies
       /\ flight' = [f EXCEPT ![t] = @ + 1]

\* mutant: the counter is set whether or not a row was found
FlushCountsNothing(p, f) ==
  /\ flush' = 1
  /\ IF p = {} THEN flight' = f
     ELSE LET t == <<Oldest(p), "flusher">> IN
          f[t] < MaxCopies /\ flight' = [f EXCEPT ![t] = @ + 1]

\* tcmessage_flush: one row is read, sent, and counted even if sending failed
Flush(p, f) ==
  IF p = {} THEN flush' = 0 /\ flight' = f
  ELSE LET t == <<Oldest(p), "flusher">> IN
       /\ flush' = 1
       /\ \E ok \in Sendable :
            /\ ok => f[t] < MaxCopies
            /\ flight' = IF ok THEN [f EXCEPT ![t] = @ + 1] ELSE f

\* the tail of message_response for a final response
Answered(p, f) ==
  IF flush = 1 THEN Flush(p, f)
  ELSE flush' = flush - 1 /\ flight' = f

Landed(t) == [flight EXCEPT ![t] = @ - 1]

(***************************************************************************)
(* The user.                                                               *)
(***************************************************************************)
\* tcmessage
Write(m) ==
  /\ m = written + 1
  /\ written' = m
  /\ \E ok \in Sendable :
       flight' = IF ok THEN [flight EXCEPT ![<<m, "direct">>] = 1] ELSE flight
  /\ pend' = pend \cup {m}
  /\ young' = young \cup {m}
  /\ told' = [told EXCEPT ![m] = "pending"]
  /\ UNCHANGED <<sync, flush, acked, incoming, sendFails>>

\* the end of tcsip_set_online, for any state but REG_OFF
SetOnline ==
  /\ Flush(pend, flight)
  /\ UNCHANGED <<written, rows, told, acked, incoming, sendFails>>

(***************************************************************************)
(* The answers: message_response.                                          *)
(***************************************************************************)
\* mutant: the row is written before the code of the response is looked at
RejectedFlagsSent(m, kind) ==
  /\ flight[<<m, kind>>] > 0
  /\ sync' = sync \cup {m}
  /\ pend' = pend \ {m}
  /\ told' = [told EXCEPT ![m] = "sync"]
  /\ Answered(pend', Landed(<<m, kind>>))
  /\ UNCHANGED <<written, young, acked, incoming, sendFails>>

\* 200
Accepted(m, kind) ==
  /\ flight[<<m, kind>>] > 0
  /\ acked' = acked \cup {m}
  /\ sync' = sync \cup {m}
  /\ pend' \in Obsolete(m)
  /\ told' = [told EXCEPT ![m] = "sync"]
  /\ Answered(pend', Landed(<<m, kind>>))
  /\ UNCHANGED <<written, young, incoming, sendFails>>

\* any other final response, 202 among them
Rejected(m, kind) ==
  /\ flight[<<m, kind>>] > 0
  /\ Answered(pend, Landed(<<m, kind>>))
  /\ UNCHANGED <<written, rows, told, acked, incoming, sendFails>>

\* no response: a timeout or a broken connection; nothing is flushed
Failed(m, kind) ==
  /\ flight[<<m, kind>>] > 0
  /\ flight' = Landed(<<m, kind>>)
  /\ flush' = flush - 1
  /\ UNCHANGED <<written, rows, told, acked, incoming, sendFails>>

(***************************************************************************)
(* message_incoming.  Nothing answers a MESSAGE, so its sender may send it *)
(* again.                                                                  *)
(***************************************************************************)
\* the messages with the idx of n
SameIdx(n) == {k \in Incoming : DateOf[k] = DateOf[n]}

\* mutant: `blob_key <= ?', the row just written is obsolete too
FiledAndObsoleted(n) ==
  {(inbox \cup {n}) \ gone : gone \in {g \in SUBSET SameIdx(n) : SameIdx(n) \ g \subseteq fresh}}

\* what is in the inbox after write_db: rows of the same idx and an older key go
Filed(n) ==
  {(inbox \ gone) \cup {n} : gone \in {g \in SUBSET SameIdx(n) : SameIdx(n) \ g \subseteq fresh}}

Arrives(n) ==
  /\ inbox' \in Filed(n)
  /\ fresh' = fresh \cup {n}
  /\ shown' = shown \cup {n}
  /\ UNCHANGED <<written, rows, flight, flush, told, acked, sendFails>>

(***************************************************************************)
(* The clock, and the process stopping and starting anew: the rows stay.   *)
(***************************************************************************)
Second ==
  /\ young \cup fresh # {}
  /\ young' = {} /\ fresh' = {}
  /\ UNCHANGED <<written, pend, sync, flight, flush, told, acked, inbox, shown, sendFails>>

Lost ==
  /\ flight' = [t \in Task |-> 0]
  /\ flush' = 0

Restart ==
  /\ Lost
  /\ UNCHANGED <<written, rows, told, acked, incoming, sendFails>>

\* in tcmessage, before flag_sent has written the row or before the report
RestartInWrite(m) ==
  /\ m = written + 1
  /\ written' = m
  /\ \E new \in {{}, {m}} : pend' = pend \cup new /\ young' = young \cup new
  /\ Lost
  /\ UNCHANGED <<sync, told, acked, incoming, sendFails>>

\* in message_response: the SYNC row is in, the UPDATE or the report is not
RestartInSync(m, kind) ==
  /\ flight[<<m, kind>>] > 0
  /\ acked' = acked \cup {m}
  /\ sync' = sync \cup {m}
  /\ pend' \in Obsolete(m) \cup {pend}
  /\ Lost
  /\ UNCHANGED <<written, young, told, incoming, sendFails>>

\* in message_incoming: the row is in, the UPDATE or the report is not
RestartInArrives(n) ==
  /\ inbox' \in Filed(n) \cup {inbox \cup {n}}
  /\ fresh' = fresh \cup {n}
  /\ Lost
  /\ UNCHANGED <<written, rows, told, acked, shown, sendFails>>

Next ==
  \/ \E n \in Incoming : Arrives(n) \/ RestartInArrives(n)
  \/ \E m \in Msg : Write(m) \/ RestartInWrite(m)
  \/ \E m \in Msg, kind \in {"direct", "flusher"} :
       \/ Accepted(m, kind) \/ Rejected(m, kind)
       \/ Failed(m, kind)   \/ RestartInSync(m, kind)
  \/ SetOnline
  \/ Second
  \/ Restart

Spec == Init /\ [][Next]_vars

\* The clock runs, and a server that is sent a message again and again at
\* some time answers 200.
FairSpec ==
  /\ Spec
  /\ WF_vars(Second)
  /\ \A m \in Msg, kind \in {"direct", "flusher"} : SF_vars(Accepted(m, kind))

(***************************************************************************)
(* Properties.                                                             *)
(***************************************************************************)
TypeOK ==
  /\ written \in 0 .. MaxMsg
  /\ pend \subseteq Msg /\ sync \subseteq Msg /\ young \subseteq Msg /\ acked \subseteq Msg
  /\ flight \in [Task -> 0 .. MaxCopies]
  /\ flush \in Int /\ flush <= 1
  /\ told \in [Msg -> {"none", "pending", "sync"}]
  /\ inbox \subseteq Incoming /\ fresh \subseteq Incoming /\ shown \subseteq Incoming
  /\ sendFails \in BOOLEAN

\* A message the user was shown is in the database: as PENDING, to be sent
\* again, until a 200 has come and a SYNC row says so.  It survives a stop at
\* any point of tcmessage and message_response, answers in any order and
\* answers to several copies of it.
NothingShownIsLost ==
  \A m \in Msg : /\ told[m] = "pending" => m \in pend \cup sync
                 /\ told[m] = "sync"    => m \in sync

\* Nothing is filed or shown as delivered without a 200 to that message.
DeliveredWasAccepted ==
  \A m \in Msg : m \in sync \/ told[m] = "sync" => m \in acked

\* A message of another user that was shown is in the database, however often it
\* comes, unless another of the same sender and Date has taken its place.
IncomingIsKept ==
  \A n \in shown : n \in inbox \/ \E k \in inbox \ {n} : DateOf[k] = DateOf[n]

\* Where sending does not fail at once, the counter that holds the next flush
\* back waits for a flusher request that is still in flight: no mix of direct
\* and flushed answers makes it wait for an answer that has come already.
CounterHasFlusher ==
  (flush = 1 /\ ~sendFails) => \E m \in Msg : flight[<<m, "flusher">>] > 0

\* "Wait for all flusher tasks to end before rading next bunch" (comment in
\* message_response): an answer that starts a flush leaves no flusher request
\* in flight but the one it sends.
Flushers == {t \in Task : t[2] = "flusher" /\ flight[t] > 0}

FlushWaits ==
  [][\A m \in Msg, kind \in {"direct", "flusher"} :
       (Accepted(m, kind) \/ Rejected(m, kind)) /\ flush = 1
         => Cardinality(Flushers') <= 1]_vars

\* Requests, copies, the counter and restarts apart, this is MessageService: only what is
\* in the database is in flight, an answer or a restart takes nothing out of it,
\* and no late or second answer takes back what the user was told.
Service == INSTANCE MessageService WITH kept <- pend \cup sync, accepted <- acked, filed <- sync
ImplementsService == Service!Spec

\* Where sending does not fail at once, a user who keeps going online gets every
\* message through, the ones behind a message that is refused for a while too:
\* nothing pending is passed over.
PendingGetsThrough ==
  []<><<SetOnline>>_vars =>
    \A m \in Msg : (told[m] = "pending" /\ ~sendFails) ~> (m \in acked)
=============================================================================
