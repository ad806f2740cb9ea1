---------------------------- MODULE AndroidSound ----------------------------
(***************************************************************************)
(* The sound device of Android, opensl_io.c, in the life of a media:       *)
(* tcmedia_start and tcmedia_stop in the event loop, and the two threads   *)
(* in which OpenSL ES calls back, one for the player and one for the       *)
(* recorder.  There is no lock.  Whoever closes sets stream->wait to 2 and *)
(* leaves the rest to the callbacks: the first of them to come makes it 1  *)
(* and asks for no other, the second finds 1 and frees everything.         *)
(*                                                                         *)
(* The recorder thread also sends: ajitter_put_done calls the handler of   *)
(* the record jitter, which is the rtp_send_* of the format, on a context  *)
(* the event loop allocates and frees.                                     *)
(*                                                                         *)
(* Each media has a stream of its own; this is one of them.                *)
(***************************************************************************)
EXTENDS Integers, FiniteSets

Threads == {"player", "recorder"}
Objects == {"engine", "recorder", "mix", "player"}
Memory == {"none", "live", "freed"}

VARIABLES
  main,       \* where the event loop is in tcmedia_start and tcmedia_stop
  pc,         \* where each thread is in its callback
  objects,    \* OpenSL objects that exist
  stream,     \* OPENSL_STREAM
  snd,        \* struct opensl_sound
  jitter,     \* its two jitter buffers
  hasCtx,     \* stream->ctx is snd, else NULL
  wait,       \* stream->wait
  queued,     \* thread -> its buffer is in the queue of the device
  handler,    \* the record jitter has a handler
  handlerArg, \* and the argument for it; garbage before
  sendCtx,    \* rtp_send_ctx; magic 0 once it is "stopped"
  refused     \* ghost: an Enqueue has failed

device == <<objects, stream, snd, jitter, hasCtx>>
sender == <<handler, handlerArg, sendCtx>>
vars == <<main, pc, device, wait, queued, sender, refused>>

Init ==
  /\ main = "idle" /\ pc = [t \in Threads |-> "rests"]
  /\ objects = {} /\ stream = "none" /\ snd = "none" /\ jitter = "none"
  /\ hasCtx = FALSE /\ wait = 0 /\ queued = [t \in Threads |-> FALSE]
  /\ handler = FALSE /\ handlerArg = FALSE /\ sendCtx = "none"
  /\ refused = FALSE

\* Enqueue; nobody looks at what it returns
Enqueue(t) ==
  \/ queued' = [queued EXCEPT ![t] = TRUE] /\ UNCHANGED refused
  \/ refused' = TRUE /\ UNCHANGED queued

(***************************************************************************)
(* tcmedia_start.                                                          *)
(***************************************************************************)
\* opensl_sound_open, android_OpenAudioDevice
Open ==
  /\ main = "idle" /\ main' = "engine"
  /\ snd' = "live" /\ stream' = "live" /\ wait' = 0
  /\ UNCHANGED <<pc, objects, jitter, hasCtx, queued, sender, refused>>

After == [engine |-> "recorder", recorder |-> "mix", mix |-> "player", player |-> "opened"]

\* openSLCreateEngine, openSLRecOpen, openSLPlayOpen: a call may fail before there
\* is an object, or after
Create(o) ==
  /\ main = o
  /\ \/ objects' = objects \cup {o} /\ main' \in {After[o], "failed"}
     \/ UNCHANGED objects /\ main' = "failed"
  /\ UNCHANGED <<pc, stream, snd, jitter, hasCtx, wait, queued, sender, refused>>

\* mutant: all but the mix
LeftTheMix(os) == os \cap {"mix"}

\* what openSLDestroyEngine leaves of the objects
Left(os) == os \ Objects

\* android_CloseAudioDevice and mem_deref(snd): the call may be tried again
OpenFails ==
  /\ main = "failed" /\ main' = "idle"
  /\ objects' = Left(objects) /\ stream' = "none" /\ snd' = "none"
  /\ UNCHANGED <<pc, jitter, hasCtx, wait, queued, sender, refused>>

\* the end of opensl_sound_open, and rtp_send_init
Opened ==
  /\ main = "opened" /\ main' = "play"
  /\ jitter' = "live" /\ hasCtx' = TRUE /\ sendCtx' = "live"
  /\ UNCHANGED <<pc, objects, stream, snd, wait, queued, handler, handlerArg, refused>>

\* opensl_sound_start: sles_write, then android_AudioIn
StartPlay ==
  /\ main = "play" /\ main' = "record"
  /\ Enqueue("player")
  /\ UNCHANGED <<pc, device, wait, sender>>

StartRecord ==
  /\ main = "record" /\ main' = "handler"
  /\ Enqueue("recorder")
  /\ UNCHANGED <<pc, device, wait, sender>>

\* rtp_send_start: ajitter_set_handler sets the handler, then its argument
SetHandler ==
  /\ main = "handler" /\ main' = "argument"
  /\ handler' = TRUE
  /\ UNCHANGED <<pc, device, wait, queued, handlerArg, sendCtx, refused>>

SetArgument ==
  /\ main = "argument" /\ main' = "runs"
  /\ handlerArg' = TRUE
  /\ UNCHANGED <<pc, device, wait, queued, handler, sendCtx, refused>>

(***************************************************************************)
(* tcmedia_stop.                                                           *)
(***************************************************************************)
\* rtp_send_stop: the magic number goes, then the context
Stop ==
  /\ main = "runs" /\ main' = "free"
  /\ sendCtx' = "stopped"
  /\ UNCHANGED <<pc, device, wait, queued, handler, handlerArg, refused>>

FreeSend ==
  /\ main = "free" /\ main' = "close"
  /\ sendCtx' = "freed"
  /\ UNCHANGED <<pc, device, wait, queued, handler, handlerArg, refused>>

\* opensl_sound_close
Close ==
  /\ main = "close" /\ main' = "closed"
  /\ wait' = 2
  /\ UNCHANGED <<pc, device, queued, sender, refused>>

(***************************************************************************)
(* The callbacks.                                                          *)
(***************************************************************************)
\* OpenSL ES has played or filled the buffer; the recorder reads ctx and half_read
Called(t) ==
  /\ pc[t] = "rests" /\ queued[t]
  /\ queued' = [queued EXCEPT ![t] = FALSE]
  /\ pc' = [pc EXCEPT ![t] = IF t = "recorder" THEN "entered" ELSE "swap"]
  /\ UNCHANGED <<main, device, wait, sender, refused>>

ReadCtx ==
  /\ pc["recorder"] = "entered"
  /\ pc' = [pc EXCEPT !["recorder"] = "swap"]
  /\ UNCHANGED <<main, device, wait, queued, sender, refused>>

\* mutant: a load for the swap
Load(w) == w

\* mutant: a decrement for the swap
Decrement(w) == w - 1

\* what __sync_val_compare_and_swap(&p->wait, 2, 1) leaves
Swapped(w) == IF w = 2 THEN 1 ELSE w

\* mutant: the one that swaps goes on as before
SwapAndGoOn(w) == IF w = 1 THEN "clear" ELSE "work"

\* the switch on what was there
AfterSwap(w) == CASE w = 2 -> "rests" [] w = 1 -> "clear" [] OTHER -> "work"

Swap(t) ==
  /\ pc[t] = "swap"
  /\ wait' = Swapped(wait)
  /\ pc' = [pc EXCEPT ![t] = AfterSwap(wait)]
  /\ UNCHANGED <<main, device, queued, sender, refused>>

\* sles_write
Write ==
  /\ pc["player"] = "work"
  /\ Enqueue("player")
  /\ pc' = [pc EXCEPT !["player"] = "rests"]
  /\ UNCHANGED <<main, device, wait, sender>>

\* ajitter_put_done, and is there a handler
PutDone ==
  /\ pc["recorder"] = "work"
  /\ pc' = [pc EXCEPT !["recorder"] = IF handler THEN "argument" ELSE "read"]
  /\ UNCHANGED <<main, device, wait, queued, sender, refused>>

\* the handler gets the argument that is there now, and looks for the magic number:
\* in freed memory, or at a garbage address, it may be anything
Magic ==
  /\ pc["recorder"] = "argument"
  /\ pc' \in {[pc EXCEPT !["recorder"] = next] : next \in
               IF ~handlerArg \/ sendCtx = "freed" THEN {"send", "read"}
               ELSE IF sendCtx = "live" THEN {"send"} ELSE {"read"}}
  /\ UNCHANGED <<main, device, wait, queued, sender, refused>>

\* the frames that are there are encoded and sent
Send ==
  /\ pc["recorder"] = "send"
  /\ pc' = [pc EXCEPT !["recorder"] = "read"]
  /\ UNCHANGED <<main, device, wait, queued, sender, refused>>

\* android_AudioIn
Read ==
  /\ pc["recorder"] = "read"
  /\ Enqueue("recorder")
  /\ pc' = [pc EXCEPT !["recorder"] = "rests"]
  /\ UNCHANGED <<main, device, wait, sender>>

\* opensl_sound_destroy
ClearCtx(t) ==
  /\ pc[t] = "clear"
  /\ hasCtx' = FALSE
  /\ pc' = [pc EXCEPT ![t] = "deref"]
  /\ UNCHANGED <<main, objects, stream, snd, jitter, wait, queued, sender, refused>>

\* mem_deref of the buffers, which malloc made, reads what lies before them for a
\* count of references: it may free them or not
Deref(t) ==
  /\ pc[t] = "deref"
  /\ jitter' \in {"live", "freed"} /\ snd' = "freed"
  /\ pc' = [pc EXCEPT ![t] = "destroy"]
  /\ UNCHANGED <<main, objects, stream, hasCtx, wait, queued, sender, refused>>

\* android_CloseAudioDevice
Destroy(t) ==
  /\ pc[t] = "destroy"
  /\ objects' = Left(objects) /\ stream' = "freed"
  /\ pc' = [pc EXCEPT ![t] = "rests"]
  /\ UNCHANGED <<main, snd, jitter, hasCtx, wait, queued, sender, refused>>

Start ==
  \/ \E o \in Objects : Create(o)
  \/ OpenFails \/ Opened \/ StartPlay \/ StartRecord \/ SetHandler \/ SetArgument

End == FreeSend \/ Close

Player == Called("player") \/ Swap("player") \/ Write
          \/ ClearCtx("player") \/ Deref("player") \/ Destroy("player")

Recorder == Called("recorder") \/ ReadCtx \/ Swap("recorder") \/ PutDone \/ Magic \/ Send \/ Read
            \/ ClearCtx("recorder") \/ Deref("recorder") \/ Destroy("recorder")

Next == Open \/ Start \/ Stop \/ End \/ Player \/ Recorder

\* What the event loop began it ends, and the device calls back.
Spec ==
  /\ Init /\ [][Next]_vars
  /\ WF_vars(Start \/ End) /\ WF_vars(Player) /\ WF_vars(Recorder)

(***************************************************************************)
(* Properties.                                                             *)
(***************************************************************************)
MainPcs == Objects \cup {"idle", "failed", "opened", "play", "record", "handler", "argument",
                         "runs", "free", "close", "closed"}
ThreadPcs == {"rests", "entered", "swap", "work", "argument", "send", "read",
              "clear", "deref", "destroy"}

TypeOK ==
  /\ main \in MainPcs /\ pc \in [Threads -> ThreadPcs]
  /\ objects \subseteq Objects
  /\ stream \in Memory /\ snd \in Memory /\ jitter \in Memory
  /\ sendCtx \in Memory \cup {"stopped"}
  /\ wait \in 0 .. 2 /\ queued \in [Threads -> BOOLEAN]
  /\ {hasCtx, handler, handlerArg, refused} \subseteq BOOLEAN

Works(t) == pc[t] \in {"work", "argument", "send", "read"}

\* A thread is in a callback, or will be called back.
Active(t) == pc[t] # "rests" \/ queued[t]

\* Whatever a thread is about to use is there: the stream for as long as a thread is
\* in a callback or may be called back, its ctx and the buffers while it works, and
\* all of it for the event loop until it has closed.
NothingUsedAfterFree ==
  /\ \A t \in Threads : Active(t) => stream = "live"
  /\ \A t \in Threads : Works(t) => hasCtx /\ snd = "live" /\ jitter = "live"
  /\ \A t \in Threads : pc[t] \in {"clear", "deref"} => snd = "live"
  /\ main \in {"play", "record", "handler", "argument", "runs", "free", "close"} =>
       stream = "live" /\ hasCtx /\ snd = "live" /\ jitter = "live"

\* No object of OpenSL ES outlives its stream, nor does struct opensl_sound: no
\* other stream could be opened.
NothingLeaks == stream # "live" => objects = {} /\ snd # "live"

\* A stream that is closed is freed, unless an Enqueue failed: then a callback is
\* missing.
ClosedIsFreed == main = "closed" ~> (stream = "freed" \/ refused)

Life ==
  IF stream = "none" THEN "none"
  ELSE IF stream = "freed" THEN "gone"
  ELSE IF main = "closed" THEN "closing" ELSE "open"

Users == {t \in Threads : Active(t)}

Device == INSTANCE DeviceLife WITH life <- Life, users <- Users, lost <- refused

\* The stream is freed once, by the last thread that uses it; a thread that leaves it to
\* the other knows that there is one, and nobody comes back to a stream that is closed.
ImplementsDevice == Device!Spec

\* A sender past its check of the magic number works on a context that is not
\* stopped.
SendsOnLiveContext == pc["recorder"] = "send" => sendCtx = "live"
=============================================================================
