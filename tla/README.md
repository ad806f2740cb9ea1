# tcsip in TLA+

tcsip is a SIP softphone written in C on libre: a library, a daemon driven over a
local socket and a command line client.  These modules model its control logic: who
may call whom back, in which order, what the user interface is told and what the
database keeps.  Paths below are relative to the repository (`src/src/tcsip/…`
is the library's directory `src/tcsip/`).

## The system

The program is one event loop, libre's `re_main`.  Commands of the user interface,
SIP messages, DNS and ICE results, timers and HTTP replies are callbacks, each run to
its end before the next; there is no other concurrency except the sound threads.  What
is hard is therefore the *order* of callbacks, objects that outlive each other,
library calls that fail half way through a handler, and the process being stopped
(a phone application is stopped all the time) between two writes.

| component | state | operations | calls, is called by |
|---|---|---|---|
| Calls: `tcsipcall.c`, `tcmedia.c`, part of `tcsip.c` | `struct tcsipcall`: `cstate` bits, `cdir`, `reason`, session, media, hangup timer; list `calls_c` | start, control (accept, reject, bye), incoming, progress, established, closed, ICE done, keep-alive failure, hangup timer | user interface by ckey; libre's session, ICE and timers; reports through `tcreport.c`; files the call with History |
| Text messages: `tcmessage.c` | counter `flush`; what is in flight is libre's | send, response, flush, incoming | user interface; `set_online`; Store |
| Store: `store.c` | rows (key, idx, blob, state) in SQLite, append only | add, obsolete, fetch by idx, ascending or not | Messages, History, Contacts |
| Registration: `tcsipreg.c` | `rstate` bits, sipreg object, interval | set state, send, resend, response | `tcsip_set_online`; libre's sipreg; Uplinks; status reports |
| Uplinks: `tcuplinks.c` | two hashes of 16 buckets | add, update, remove | fed by every REGISTER response; reports to the user interface |
| History: `history.c` | page lists, `idx`, `top_idx` | add, next page, reset | Calls; user interface; Store |
| Contacts: `contacts.c` | list, `cur_idx` | fetch, HTTP reply, sort, page | user interface; HTTP; Store |
| Jitter buffer: `ajitter.c` | 32 slots and a bitmask | get, put, take | network callback and sound thread |
| Sound: `sound/` | device state, Android's close protocol | open, start, stop | media, sound threads |
| Session: part of `tcsip.c` | `user_c`, the objects of a user | `tcsip_local`, `set_online` | user interface, login; renews Store, History, Contacts, Messages |
| Login, signup: `api/` | one HTTP request; the certificate in a file | login, login by phone, signup | user interface; HTTP; Session |
| IPC, driver: `tcipc.c`, `driver.c` | one client, an unpacker | decode a command, accept a client | user interface |
| Command line: `cli.c` | `current_call` | commands on standard input | the library |
| RTP, codecs, certificates, paths, tools, SQLite | | numeric code, files, third party | |

What makes each correct:

- **Calls**: each live call can be reached by its key and no freed one; session and
  media end with the call; audio and answers only when they should; the user
  interface can follow the reports; silence ends a call, an accepted call is answered.
- **Messages, Store**: what the user was shown is kept until it is delivered; nothing
  is called delivered that was not; the flush neither stops for good nor runs wild.
- **Registration, Uplinks**: status and contacts on the screen are the truth, or
  become it.
- **History, Contacts**: paging passes nothing over and shows nothing twice; sorting ends.
- **Jitter**: no frame is read while it is written or played twice, none is lost but to
  silence when the buffer runs dry; it recovers from reordering, wrap and overrun.
- **Sound**: the device is destroyed once and never while a callback runs, and opening it
  leaves nothing behind that would keep it from being opened again.
- **Session, login**: a certificate reported good is there and in use; a login that renews
  the objects takes nothing from under a request in flight.
- **Command line, driver**: `current_call` points to a live call; a new client starts
  from a fresh decoder.

## The modules

    CallService            what the user interface is promised about calls
    Call                   the calls; implements CallService
    MCCall                 instances of Call            CallProofs
    MessageService         what the user is promised about messages
    Messages               messages in and out, the rows they are kept in, the flush;
                           implements MessageService
    MCMessages             instances                    MessagesProofs
    Uplinks                the contacts of the registrar
    Registration           set_online and tcsipreg.c, extends Uplinks
    MCRegistration         instance                     RegistrationProofs
    Session                login.c and tcsip_local, extends Registration
    MCSession              instance                     SessionProofs
    Store                  current rows by idx: add, obsolete, fetch
    CallLog                what a client may rely on of the list of past calls
    History                the list of past calls, extends Store; implements CallLog
    MCHistory              instances                    HistoryProofs
    Contacts               the address book, extends Store
    MCContacts             instances                    ContactsProofs
    Jitter                 the buffer between network and sound thread
    MCJitter               instance                     JitterProofs
    DeviceLife             what a device promises that its own callbacks close
    AndroidSound           opening and closing the Android device, and its threads;
                           implements DeviceLife
    MCAndroidSound         instance                     AndroidSoundProofs

Definitions marked `mutant:` are wrong variants of the definition they precede.  They
are part of no specification: replaced by one of them, the definition must make a
run fail, which shows that the property of that run depends on this code.

### Call

`call` maps every call that may ever exist to its struct: `mem` (unused, allocated,
freed), `cdir`, `cstate` as a set of flags, `reason`, and the little of libre's objects
that decides which callback can come: `sess` (INVITE sent, 180 sent, 200 sent, dialog
up) and `media` (gathering, stalled, gathered, audio running), and whether the hangup
timer runs.  `told` and `filed` are what was reported and given to `history_add`;
`asked` is a ghost.  `calls` is `calls_c` in order, since a ckey names the *oldest*
call that has it: `tcsipcall_key` writes whole seconds, so that two calls can share one
(`KeyOf`).

Each C function on a call is an operator from record to record (`Activate`, `Hangup`,
`Accept`, `Bye`, `Send`, `IceOk`), with the outcomes of the library calls it makes as
arguments; each callback is an action that composes them: `Progress` is
`progress_handler`, `GatherDone` is `gather_handler` → `media_event` →
`tcsipcall_send` or `tcsipcall_control`, and so on.  `setting` is chosen at the start and
never changes: which calls share a key (`KeyOf`) and which library calls may fail
(`Faults`).

`HangupTimer` on a freed call: `call_destruct` does not cancel `call->tmr`, so a BYE
within 100 ms of a keep-alive failure lets the timer run on freed memory.  What follows
is undefined; the model sets `crashed` and stops (which is why the `call` run does
not check for deadlock).  `NothingOutlivesTheCall` therefore claims session and media,
not the timer.

### Messages

`pend` and `sync` are the messages with a current row of that state; `young` those
whose PENDING row was written in the present second.  A key ends in `%d.%d` of seconds
and microseconds and is compared as text: of two keys of one second either may be the
greater, so `store_obsolete` may or may not retire the older row (`Obsolete`); of two
seconds the later is greater.  `flight` counts the requests that wait for a final
response, by message and by sender (`tcmessage` or `send_pending`), `flush` is the
counter.  `acked` is a ghost.  `Accepted`, `Rejected` and `Failed` are
`message_response` for 200, for another final response, and for none; a retransmission
is libre's affair, but the same message may be in flight several times because flush
sends again what is still PENDING.  `Restart` stops the process between two handlers,
`RestartInWrite`, `RestartInSync` and `RestartInArrives` within `tcmessage`,
`message_response` and `message_incoming`.  `sendFails` says whether `sip_drequestf` may
fail at once; it never changes.

`Arrives` is `message_incoming`: `inbox` has the messages with a current row, `fresh`
those whose row is of the present second, `shown` those that were reported.  Nothing
answers a MESSAGE, so it may come any number of times.  The idx is made of its sender and
its Date (`DateOf`), which other programs write in whole seconds: a row takes those
of the same idx away, be it the same message or not (`Filed`).

### Uplinks and Registration

`known` is the table `data_c`; `report` the last report about each contact, which is
what a client that follows the reports has on its screen.  A lookup finds anything in
the *bucket* of a uri, since `apply_find` returns true; `bucket` is one of the possible
distributions (`Buckets`) and never changes.  `HasHandler` is false for a client like
`cli.c`.

`Registration` adds `user` (`tcsip_local` has read a certificate), `sreg`, the sipreg
object (`null`, asking, waiting), the bits of `rstate` and the state last reported; `off`
and `answer` are ghosts.  `Response` is `register_handler`: the status, then the contacts,
in one step.  `Restart` is a new process with a new client.

### Session

`Session` extends Registration with what comes before it and runs beside it.  `asked` counts
the requests of `login.c` under way: nothing keeps a client from asking again before the
last has ended.  A 401 that `http_auth` can answer only makes the same request go out
once more (`Challenged`), `Denied` stands for the ends that only report, `Issued` for
`savecert`, which removes the old certificate, writes the new one and calls `tcsip_local`.
`cert` is what the client was told last of its certificate.  `file` is what is on disk: the results of `write` are ignored, so it
may be none, torn or whole, and a process killed in `savecert` leaves none or a torn one
(`KilledInSavecert`).  `TcsipLocal` has the early returns: without a readable certificate
only the failure is reported, with any other `user` is set, and with a whole one the
objects of the user may be renewed (`Renewed`) and 0 is reported.

`gen` says which `struct tcmessages` is `sip->msg`, `refs` counts the references to each,
and `sent` the MESSAGEs in flight whose `msg->ctx` is it.  A login drops the reference
of `sip->msg`; answers to what was sent before still count, flush and report through
the old one.  `Sent` takes a reference even if `sip_drequestf` then fails and nobody gives
it back.  Which messages are sent is in Messages; here any send may happen where the
code sends at all.

Each step of Session is one of Registration or leaves it alone: it is a refinement, so
one run checks both.

### Store and History

`rows` are the rows with `curnt` set; `Stored` is the INSERT and the UPDATE after it,
with the same uncertainty about keys of one second as in Messages; `Inserted` is the INSERT
alone, which is what a process killed between the two leaves: several current rows of one
idx.  `Fetched` are the rows with the greatest idx below the start, of which
LIMIT 1 reads any.  A row is a *page* of calls, and calls are
numbered in the order of their ckeys (whole seconds first), which is that of their
times.  `top`, `topIdx` and `iter` are the fields of `struct history`.  `Add` is
`history_add`, which stores the page in memory again with one call more; `KilledInAdd` is
the same cut off by a kill, before the INSERT or after it, and `torn` remembers the call
it was about.  `Open` and
`More` are `tcsip_hist_ipc` with its flag (reset, newest page) and without (next
page); `Oldest` is `get_idx`, the key of the tail of the sorted page.  `Restart` is a
new `struct history`, in a new process or by `tcsip_local`.  `shown` counts how often
the client has each call on its screen: pages it fetched and calls reported since.
`Overlap` and `SameSecond` let calls end out of order, and within one second.

### Contacts

`rows` are bundles of contacts under the login of the one whose name is least;
contacts are numbered by login and `rank` is the order of their names, any order.  `Ask`
and `Fetch` are `contacts_fetch` without and with something stored, `Answer` the whole of
`http_ct_done`: sort, cut into bundles of `BUNDLE_SIZE - 1`, report the first, store each.
`Killed` ends the process after some of these, the last of them stored to its end or to
its INSERT only.  `cur` is `cur_idx`; `shown` is what was
reported since the process began; `latest`, `lists` and `here` are ghosts.

### Jitter

Two threads: one puts a frame for each RTP packet (`PutPtr` to `Bset`), one is the
callback of the sound device (`Callback` to `Retry`); `ppc` and `cpc` say where each
is.  There is no lock, so every write to something the other thread reads is a step
of its own.  `used` is the bitmask; `apple` chooses the build, where a bit is changed by
an atomic exclusive or, or by a load and a store (`LoadPut`, `LoadGet`).  `slots` are the
fields of `struct ajitter` and its packets; what a slot holds is the number of its frame,
or `Garbage` while the codec writes it.  A frame's stamp is its RTP sequence number,
which wraps.  `MayArrive` lets frames come late.  `sent`, `out`, `silent` and `overrun` are
ghosts: what was put, what was copied out, which places of that were never heard, and
whether a put found the buffer full.  On Apple a callback that finds no further frame plays
silence, and writes it over what it has copied to the chunk already: these units are
taken from their slots, which are free by then (`Unfilled`).  On Android they stay in the
chunk, which the next callback goes on with.  Two
simplifications: a scan of the slots is one step, so that the other thread moves at most
one bit within it (each moves one in the 20 ms of a frame), and so are the copy with its
counters and the counters after decoding, which differ only when both threads are in one
slot, after an overrun.

### AndroidSound

One media of Android, from `tcmedia_start` to `tcmedia_stop`, in the event loop (`main`) and
in the two threads in which OpenSL ES calls back, the player's and the recorder's (`pc`).
The device has no lock.  `objects` are the objects of OpenSL ES that exist, `stream`,
`snd` and `jitter` the memory (none, live, freed), `wait` the field of the stream by which
callbacks and event loop agree on its end: `opensl_sound_close` writes 2, the first callback
swaps it for 1 and asks for no other, the next finds 1 and destroys everything.  `queued`
says which buffers are in a queue: a callback comes only for one that is, and what
`Enqueue` returns is ignored (`refused` remembers a failure).  Opening may fail at any of
its four objects, before the object exists or after.

The recorder's callback also sends: `ajitter_put_done` calls the handler of the record
jitter, `rtp_send_opus` or its like, with a context (`sendCtx`) that the event loop makes
before and frees in `rtp_send_stop`.  Every read and write that the other side may notice
is a step of its own; a read of freed memory, or through a pointer never set, may give
anything (`Magic`), and `mem_deref` of memory `malloc` made may free it or not (`Deref`).

## The runs

| run | instance | shows |
|---|---|---|
| `call` | 2 calls, 2 early answers each; own keys and every failure, or one key and all failures but the three that leave no mark; 91 398 states | all safety properties of Call, that it implements CallService, and: an early accept is answered, a dialled call settled, silence ends a call |
| `messages` | 2 messages out, 2 copies in flight, sends fail or not, 2 messages in with one Date, restarts; 170 039 states | what was shown is kept, out and in; that it implements MessageService: delivered means a 200 came, and is never taken back; the counter is never set without a request in flight; every message gets through |
| `messages_flood` | 2 messages | *violation*: a flush starts while a flusher request is in flight |
| `registration` | Session: 2 contacts, in one bucket or two, 2 sessions made, 2 logins at a time, 3 references; 715 194 states | status and contacts on the screen; answers to MESSAGEs find their struct tcmessages; a certificate reported good is on disk and in use |
| `registration_cli` | Registration, 2 contacts, no handler | *violation*: NULL is called |
| `history` | 5 calls, in order, each filed to its end or cut off by a kill; 27 902 states | no call is lost but those cut off; paging shows each once; that it implements CallLog: newest first, without a gap |
| `history_overlap` | 4 calls in any order | *violation*: a call is lost |
| `contacts` | 4 contacts in any order of names, bundles of 2, 2 requests, any lists, kills between any two statements; 158 098 states | what was downloaded is kept; paging shows each contact once but for those passed over |
| `contacts_passed` | 3 contacts, bundles of 2, 1 request | *violation*: a bundle is not shown |
| `jitter` | 2 slots, 4 frames of 2 units, callbacks of 1 and 3, one place late, wrap at 4; 508 926 states | nothing is copied out twice, torn or out of order before an overrun; frames are heard or silenced with a chunk that was not filled, slots come free |
| `android` | everything: the module has no bounds; 221 states | nothing is used after it is freed, nothing is left when opening fails, a closed stream is freed |
| `android_late` | the same | *violation*: a sender goes on with a context that is freed |

**Calls.** `ListIsLive`, `NothingOutlivesTheCall`, `AudioOnlyInSession` and
`AnswerNeedsUser` relate struct, list, libre's objects and reports over all orders of
callbacks.  `ImplementsService` maps the reports to CallService: a call is announced once,
and one that was reported established ends with OK and is filed as OK.
`AcceptIsAnswered`, `DialIsSettled` and `SilenceEndsCall` say what must follow.  The first
asks that the 200 is *sent*: the flag EST does not show it, since it is set whatever
`sipsess_answer` returned.  It holds where all failures leave a mark; the second names the
one failure (DNS) that leaves a call waiting.

**Messages.** `NothingShownIsLost` and `IncomingIsKept` survive restarts at any point, and
so does `ImplementsService`: what MessageService says of a message (taken, accepted, filed,
told) is steps of its own, and each handler is one of them or none. `CounterHasFlusher` says
the flush is not waiting for an answer that has come; `PendingGetsThrough` that nothing is
passed over.

**Registration and Session.** `DisplayIsRight` holds in spite of the AUTH bit that nothing
clears; `StaleIsCorrected` says the false "online" which that bit does cause after a refusal
is put right by the next answer.  `KnownIsShown` holds for all contacts, `AloneIsExact`
and `ReportsFollowOn` for those with a bucket of their own; for others the code
leaves contacts on the screen that the registrar dropped.  `AnswersFindMessages` says the
references outnumber the requests that need them, though failed sends leave some behind;
`GoodIsThere` that a 0 is reported only over a certificate that is whole on disk, for the next
start, and a session made from one, although writes may fail unnoticed, a later login
unlinks the file first, and several logins end in any order.  That a login is answered is no
property: a server may challenge for ever (line 1 of `TODO` names the wrong password),
and a `http_send` that fails in the round ends it without a word.

**History.** Each call rewrites a whole page from the copy in memory, and that copy comes
from the last reset, fetch or add. `FiledIsKept` says it is always the right one;
`EachIsShownOnce` relates pages to the calls reported while the client pages.
`ImplementsLog` maps the screen to CallLog, which knows no pages: opening the list shows
some of the newest calls, paging on adds the next older ones without a gap, the end comes
when all are shown, and what is filed meanwhile comes on top. All hold for calls that end in
the order of their ckeys, at least a second apart, and fail otherwise.  A call whose
`history_add` a kill cut off is excluded by name (`torn`): between INSERT and UPDATE it
leaves two current rows of one idx; the next process may read either, so the call may be
shown once and, when the next one is stored over the older page, be gone.  No other
call is touched by that, which is what the three properties say.

**Contacts.** Bundles are cut in the order of names and found in that of logins, in this
process or a later one.  `KeptOffline` says the last list stays, whatever the same second
or another list leaves; `NoneShownTwice` and `RestIsShown` say exactly what a client sees
that pages to the end: every contact once, but those of bundles `PassedOver`.
`AllShownUnlessPassed` (proved, in no run) says when that is all of them: the client did not
download the list in this process, or the bundle reported first is the least.

**Jitter.** `NoneTwiceNoneTorn` and `PlayedInOrder` hold for both builds, also where |=
and &= undo one another: the worst a lost update does is to lose a frame, or to bring
back a slot that is empty.  "Played" is what was copied out there; a superset of what is
heard.  `EachIsPlayed` needs atomic bits and says which frames may be passed over, and that
each unit of the others is heard or was silenced with a chunk that could not be filled.
`SilencedWhenDry` (proved, in no run) says that this happens only when all that arrived is
copied out.  `SlotsComeFree` holds after overruns and for both builds.

**AndroidSound.** `NothingUsedAfterFree` and `ClosedIsFreed` are the two halves of the close
protocol: no callback finds the stream or its buffers gone, and yet somebody frees them,
unless an `Enqueue` failed and a callback is missing.  `NothingLeaks` is about opening.
`ImplementsDevice` (proved, in no run) maps the module to DeviceLife, where a device has a set
of users and is freed by the last.  The sender is another matter: `SendsOnLiveContext` fails.

### Disagreements

- `messages_flood`: `message_response` says "Wait for all flusher tasks to end before
  rading next bunch" (`src/src/tcsip/tcmessage.c:66`), but every final answer decrements
  the counter and only flushed requests increment it.  The answer to a message
  sent directly takes it to zero while a flusher request is in flight, and the same
  oldest message is sent once more.
- `registration_cli`: `one_add` returns early when `up_h` is NULL, `one_rm` does not
  look; `cli.c` sets no `up_h`, and stops when a contact goes away.
- `history_overlap`: `README.md:11` promises a "history … store available offline".
  A row's idx is the ckey of the call filed first, but a page read back gets the ckey of
  its oldest call.  If that is another one, the next add makes a second row beside the
  first, both are current, and after one more reset a page made from the first row
  replaces the second one with the call in it.
  (With `SameSecond = TRUE` the same property fails for another reason: of two rows of one
  page written within a second the older may stay current, since keys are compared as
  text.  If it is read back, the next add stores the page without the last call and
  retires both rows.)
- `contacts_passed`: the same line of the README.  The first bundle reported is that of
  the least *name*; `contacts_fetch` goes on from the *login* of its head in the order of
  logins, and reports no bundle with a smaller one before the process starts anew.

- `android_late`: `rtp_send_opus` begins with a test of a magic number that `rtp_send_stop`
  clears (`src/src/rtp/rtp_opus.c:64`, `src/src/rtp/rtp_io.c:117`).  `tcmedia_stop` stops the
  sender before it closes the device (`src/src/tcsip/tcmedia.c:548`), so the recorder
  thread may be past the test when the context is freed, or make it in freed memory.

### Bounds

Calls touch each other only through the list and the key, so two show every
interaction of this kind: one ended while another lives, a shared key, the oldest found
first.  A second early answer shows that activation is idempotent once audio
runs and repeats its report when sound failed.  The two settings let every failure
happen, and let two calls share a key without the failures that leave no mark.  Two messages
are one that is flushed and one sent directly behind it; two copies in flight are what the
counter confuses, more add nothing that the properties tell apart.  Two messages that come
in with one Date replace each other, in one second or two.  Two contacts that share a bucket
or do not are all a lookup can tell apart; two sessions make one object renewed under another's
requests, two logins at a time can end in either order, and three references are the session's own, one of a request and one that was
leaked or sent again.  Five calls
make up to five pages (a page ends where a restart drops the one in memory and the next
call ends before anything is fetched), or three of which one or two hold several calls,
so a client can page on from a page that is neither first nor last while calls end; any of
them, and several, may be cut off by a kill.  Two
slots are enough to be full, to hold two frames in the wrong order, and for either thread to
change a bit under the other's hands; callbacks of one and three units split frames of two,
join them, and leave a chunk that cannot be filled; the fourth frame wraps.  Four contacts make two bundles, full or not, in
every order of logins, and a second list that shares a head with the first.  The proofs do
not depend on these bounds, except that `MaxEarly`, `MaxMsg`, `MaxCopies`, `MaxCall`, `MaxGen`,
`MaxRefs` and `MaxLogins` remain (arbitrary) parameters.  AndroidSound has no bounds: each media has a
stream of its own, and the run is exhaustive for one.  A media that has stopped,
and whose stream is freed, does nothing more, so its runs do not check for deadlock.

### Fairness

- `Call`: weak fairness of gathering (done, or failed to start) and of the hangup
  timer.  Both are timers and sockets of libre's loop, which gets to each.  Nothing is
  assumed of the user, the peer or the network.  Three failures break what one would
  expect, and no document promises to survive them: a DNS failure
  (`dns_handler` returns and nobody reports ICE done), a failure to make the answer's
  SDP (`err |= CSTATE_ERR` marks the wrong variable) and one of `sipsess_answer` (its result
  is dropped at `tcsipcall.c:299`, and line 304 sets EST for a 200 that was never sent).
  `AcceptIsAnswered` is stated for a setting without them (`AllAreFlagged`); all three are
  among the hazards.
- `Messages`: the clock runs (weak fairness of `Second`), and a server that is sent a
  message again and again some time answers 200 (strong fairness of `Accepted`).  The
  second is an assumption on the environment; without it the code sends a refused
  message for ever and those behind it wait.  `PendingGetsThrough` also assumes, in its
  statement, that the user goes online again and again, as a phone in use does.
- `Session`: libre ends every REGISTER with an answer or a failure.  Nothing is assumed of a
  login: each HTTP request may end, and the rounds of 401 need not.
- `Contacts`: a client asks for the next bundle until an empty one comes.  Nothing is
  assumed of the server.
- `Jitter`: a packet that arrived is handled to its end, and the sound device keeps
  calling back.  Packets need not arrive.
- `AndroidSound`: the event loop ends what it began, and the device calls back for each
  buffer in a queue.  Nobody has to open or stop a media.

## The proofs

TLAPS checks, for any sets of calls, keys, contacts and any number of messages:

- `CallProofs` — from `CallAssumption`.  The invariant is one conjunct per call,
  `LiveInv` for a call that lives and `FreedInv` for one that ended, and the exactness
  of the list.  It has to be stronger than the properties: that an answered call was
  asked for rests on which flags go with which state of session and media, and that
  reports are in order on what was reported last in each state.  `OneCallStep` reduces
  every action to "one call lives on, ends, or begins, and the others stay", so each
  property is proved per call and the list in one place.  Theorems: the safety
  invariants of the run, and `Refinement`: `Spec => ImplementsService`.
  A second invariant, `WaitInv`, says of each live call which callback it waits for; it
  needs the first, and gives the safety halves of two liveness properties:
  `AcceptedStillGathers` and `DialledStillGathers`: but for the failure of DNS (and, of an
  accepted call, the two of its answer) no accepted or dialled call waits for a callback
  that cannot come.
- `MessagesProofs` — from `MessagesAssumption`.  The conjunction of type, the three safety
  properties and `CounterHasFlusher` is inductive as it stands; the lemmas say
  what `Flush` and `Answered` do to the counter and the requests in flight.
  `Refinement` (`Spec => ImplementsService`) needs two more: only messages in the
  database are in flight (`InFlightIsKept`), or a 200 would file one the service never
  took, and nobody has heard of the next message (`NextIsNew`).
- `RegistrationProofs` — from `UplinksAssumption`.  `UpdateReports` says what a list of
  contacts reports of each; the invariant adds to the properties that a client
  without a handler is told nothing.  `StaleAsks` is the safety half of
  `StaleIsCorrected`: whoever sees an "online" that no answer bears out has a REGISTER under
  way.  It needs `Settled`: a sipreg that waits for its next turn has been answered.
- `SessionProofs` — from `SessionAssumption`.  `ImplementsRegistration`: each step of Session is
  a step of Registration or a stutter, so the theorems of RegistrationProofs hold of it
  (`SessionShowsTruth`, `SessionReportsFollow`).  The invariant `Held` says a struct
  tcmessages has a reference for each request in flight, and one more while it is
  `sip->msg`.  `GoodFound` (`GoodIsThere`) is inductive with the types: only the end of
  `tcsip_local` says 0, and whatever takes the file or the user away says something else
  or ends the process.
- `HistoryProofs` — from `HistoryAssumption` and, but for the types, `Orderly` (no overlap, no
  two calls filed in one second).  The invariant says the calls that ended, filed or torn, are
  a prefix (`Ended`); the rows cut it into intervals that start at their idx, but where a
  kill left several rows of one idx: these agree up to torn calls (`Cut`), and the page in
  memory is one of the newest (`TopIsNewest`); the screen has exactly the calls from `iter` on,
  torn ones apart.  It has to speak of what ended, since the idxs of torn calls' rows still
  separate pages.  That the row fetched is one of the next idx down takes a greatest element
  below the start, found with the well-foundedness of Nat.  `Refinement`
  (`Spec => ImplementsLog`) adds that no call is on the screen before it has ended (`Unseen`),
  and computes the screen after each operation from the intervals.  `TypeCorrect` needs
  no `Orderly`: it rests on a row having a call at all (`HasCall`).
- `ContactsProofs` — from `ContactsAssumption`.  The invariant says the bundles of a single
  list are disjoint and that `cur` divides what was shown from what was not, up to the
  bundles passed over.  `BundlesPartition` and `FirstBundle` are about the cut,
  `HeadIsLeast` and `NextExists` take least elements with the well-foundedness of Nat.
  `OfflineShowsAll` draws from it where the address book is complete
  (`AllShownUnlessPassed`).
- `JitterProofs` — from `JitterAssumption`.  Every slot belongs to one thread until the
  buffer overruns: what is played is a frame that arrived and was whole (`Owned`,
  `Whole`), once, and what is ready is newer than what was played (`Ordered`).  The parts
  about types and the threads' fields hold after an overrun and a lost update too, which is
  why no copy leaves its slot.  `NoUnitLost` is the safety half of `EachIsPlayed`: with
  atomic bits each unit that arrived was heard, was silenced with its chunk, or is in a slot in
  use (`NoneLost`).  `SilenceIsDry` says units are silenced only when every frame that arrived
  is copied out: a slot that waits has a stamp that `ajitter_get_ptr` finds.
- `AndroidSoundProofs` — from no assumption.  The invariant says what there is in each phase
  of the event loop, and what `stream->wait` says of the threads (`Closing`): at 2 nobody has
  left, at 1 at most one is left, and the one that destroys finds everything there.  Beside
  the run's invariants it gives `SomeoneIsLeft`, the safety half of `ClosedIsFreed`,
  and `FreedByLast`: `Spec => ImplementsDevice`.

Proved, and in no run: `MediaBeforeSession` (no SIP session starts before the media has
gathered) and `EstUntilFreed`; `ReportsInOrder`, `DeliveredWasAccepted` and `NewestFirst`, each
implied by the refinement of its component; `ImplementsDevice`, `AllShownUnlessPassed`, `SilencedWhenDry`, and
the safety halves above.  TLC finds them to hold on the instances of the runs too.

Only model-checked: every liveness property, since fairness and `ENABLED` are out of the
prover's reach (of `AcceptIsAnswered`, `DialIsSettled`, `StaleIsCorrected`, `EachIsPlayed` and
`ClosedIsFreed` the safety halves are proved, of `SilenceEndsCall`, `PendingGetsThrough`
and `SlotsComeFree` nothing), and the violations.  Without `Orderly` only the types of History
are proved: `history_overlap` shows why.

## What is not modelled

- Calls of one time in the history and contacts of one name: libre's `list_sort` never
  ends on them, since `sort_handler` compares with `>` or `<`.
- A message to oneself; an old `struct tcmessages` that a leaked reference keeps listening,
  and so files messages of another user; a login as another user, whose registration
  stays that of the first (`sreg_c` is not renewed).
- A download of contacts that outlives its `struct contacts`.
- The end of a login whose `http_send` fails (its result is ignored, `login.c:50`, `103`), or whose
  server challenges for ever: Session lets it go on without end, and claims nothing of it.
- Login by phone and signup, which only report what a reply says.  `login_phone.c` reports
  `LP_FAIL` after `LP_OK` and `LP_TOKEN` too, and neither reports a reply it cannot unpack.
- The driver, which keeps one client.  What a client that leaves had begun to send stays
  in the unpacker for the next, and a failed `read` counts as bytes read, since `rsize` is
  unsigned.
- The command line client: `call()` stores a pointer it never set, after which nothing can
  be said of it.
- The push token and instance id, the interval of registration (60 or 610 s, passed
  through), transports and TLS, out-of-memory paths, and the failure of a database write
  (its result is ignored by the code).
- Recording (its stamps are whole seconds outside Apple), the sound devices of Apple and
  ALSA beyond the callback in Jitter, and speex's send context, which lacks the fields
  `rtp_io.c` writes to: that is layout of memory, not control.
- The formats of SIP, SDP, msgpack and JSON, the codecs, RTP, SRTP keys, certificates and
  paths are data or external.  `tools/` are separate programs and `sqlite3.c` is third
  party.

libre is modelled from how the code uses it: a dereferenced session, media or sipreg calls
back no more, each request ends once.  `PROJECT.json` lists every component with its
status.

## Plan

The core came first: `Call` with `CallService`, then `Messages`, `Uplinks` and
`Registration`, `Store` with `History` and `Contacts`, `Jitter`, and last `AndroidSound` and
`Session`, each with its proofs.  What would extend it:

1. a second user in `Session`: which user is registered, and which struct tcmessages files
   what comes in;
2. `Messages` over the same `Store` as History and Contacts, with an abstract specification
   of the store (one current row per idx) that holds where keys of one idx are of
   different seconds, below MessageService;
3. recording in `Jitter`, where stamps repeat within a second.
