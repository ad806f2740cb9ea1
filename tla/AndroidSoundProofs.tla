------------------------- MODULE AndroidSoundProofs -------------------------
(***************************************************************************)
(* Proofs about AndroidSound: whatever order the event loop and the two    *)
(* callbacks take, and wherever opening or an Enqueue fails.               *)
(***************************************************************************)
EXTENDS AndroidSound, TLAPS

(***************************************************************************)
(* The inductive invariant: what is there in each phase of the event loop, *)
(* and what stream->wait says of the threads.                              *)
(***************************************************************************)
Opening == main \in Objects \cup {"failed", "opened"}
Running == main \in {"play", "record", "handler", "argument", "runs", "free", "close"}

Leaving(t) == pc[t] \in {"clear", "deref", "destroy"}

Whole == stream = "live" /\ hasCtx /\ snd = "live" /\ jitter = "live"

Gone == stream = "freed" /\ snd = "freed" /\ objects = {}

\* A thread that is called back is not in a queue.
OncePerBuffer == \A t \in Threads : pc[t] # "rests" => ~queued[t]

\* Threads come one after the other; which are there tells what Enqueue did.
ThreadsOfPhase ==
  /\ main = "idle" \/ Opening \/ main = "play" => \A t \in Threads : ~Active(t)
  /\ main = "record" => ~Active("recorder") /\ (Active("player") \/ refused)
  /\ main \in {"handler", "argument", "runs", "free", "close"} =>
       refused \/ \A t \in Threads : Active(t)

MemoryOfPhase ==
  /\ main = "idle" => stream = "none" /\ snd = "none" /\ objects = {}
  /\ Opening => stream = "live" /\ snd = "live"
  /\ Running => Whole
  /\ main # "closed" => wait = 0 /\ \A t \in Threads : ~Leaving(t)

\* After opensl_sound_close: before the first callback nothing has changed; after it one
\* thread is out, and the other, if it comes, is the one to free.
Closing ==
  main = "closed" =>
    /\ wait \in {1, 2}
    /\ wait = 2 =>
         Whole /\ (refused \/ \A t \in Threads : Active(t)) /\ \A t \in Threads : ~Leaving(t)
    /\ wait = 1 =>
         /\ \A t, u \in Threads : Active(t) /\ Active(u) => t = u
         /\ stream = "freed" \/ refused \/ \E t \in Threads : Active(t)
         /\ \A t \in Threads : Leaving(t) => stream = "live"
         /\ \A t \in Threads : pc[t] \in {"clear", "deref"} => snd = "live"
         /\ \A t \in Threads : pc[t] = "destroy" => snd = "freed"
         /\ (\A t \in Threads : ~Leaving(t)) => Whole \/ Gone
         /\ stream = "freed" => \A t \in Threads : ~Active(t)

IInv == TypeOK /\ OncePerBuffer /\ ThreadsOfPhase /\ MemoryOfPhase /\ Closing


(***************************************************************************)
(* Steps of the event loop.                                                *)
(***************************************************************************)
MainStep ==
  \/ Open \/ (\E o \in Objects : Create(o)) \/ OpenFails \/ Opened \/ StartPlay \/ StartRecord
  \/ SetHandler \/ SetArgument \/ Stop \/ FreeSend \/ Close

ThreadStep(t) ==
  \/ Called(t) \/ Swap(t) \/ ClearCtx(t) \/ Deref(t) \/ Destroy(t)
  \/ t = "player" /\ Write
  \/ t = "recorder" /\ (ReadCtx \/ PutDone \/ Magic \/ Send \/ Read)

LEMMA Steps ==
  ASSUME Next
  PROVE  MainStep \/ \E t \in Threads : ThreadStep(t)
  BY DEF Next, Start, End, Player, Recorder, MainStep, ThreadStep, Threads

LEMMA TypeStep ==
  ASSUME TypeOK, [Next]_vars
  PROVE  TypeOK'
PROOF
<1> USE DEF TypeOK, MainPcs, ThreadPcs, Memory, Objects, Threads, device, sender
<1>1. CASE UNCHANGED vars
  BY <1>1 DEF vars
<1>2. CASE Open
  <2>1. wait' \in 0 .. 2
    BY <1>2 DEF Open
  <2>. QED BY <1>2, <2>1 DEF Open
<1>3. ASSUME NEW o \in Objects, Create(o) PROVE TypeOK'
  <2>1. main' \in MainPcs
    BY <1>3 DEF Create, After
  <2>. QED BY <1>3, <2>1 DEF Create
<1>4. CASE OpenFails
  BY <1>4 DEF OpenFails, Left
<1>5. CASE Opened
  BY <1>5 DEF Opened
<1>6. CASE StartPlay
  BY <1>6 DEF StartPlay, Enqueue
<1>7. CASE StartRecord
  BY <1>7 DEF StartRecord, Enqueue
<1>8. CASE SetHandler \/ SetArgument
  BY <1>8 DEF SetHandler, SetArgument
<1>9. CASE Stop \/ FreeSend
  BY <1>9 DEF Stop, FreeSend
<1>10. CASE Close
  <2>1. wait' \in 0 .. 2
    BY <1>10 DEF Close
  <2>. QED BY <1>10, <2>1 DEF Close
<1>11. ASSUME NEW t \in Threads, ThreadStep(t) PROVE TypeOK'
  <2>1. CASE Called(t)
    BY <2>1 DEF Called
  <2>2. CASE Swap(t)
    BY <2>2 DEF Swap, Swapped, AfterSwap
  <2>3. CASE Write
    BY <2>3 DEF Write, Enqueue
  <2>4. CASE Read
    BY <2>4 DEF Read, Enqueue
  <2>5. CASE ReadCtx
    BY <2>5 DEF ReadCtx
  <2>6. CASE PutDone
    BY <2>6 DEF PutDone
  <2>7. CASE Magic
    <3>1. pc' \in [Threads -> ThreadPcs]
      BY <2>7 DEF Magic
    <3>. QED BY <2>7, <3>1 DEF Magic
  <2>8. CASE Send
    BY <2>8 DEF Send
  <2>9. CASE ClearCtx(t)
    BY <2>9 DEF ClearCtx
  <2>10. CASE Deref(t)
    BY <2>10 DEF Deref
  <2>11. CASE Destroy(t)
    BY <2>11 DEF Destroy, Left
  <2>. QED BY <1>11, <2>1, <2>2, <2>3, <2>4, <2>5, <2>6, <2>7, <2>8, <2>9, <2>10, <2>11
           DEF ThreadStep
<1>. QED BY <1>1, <1>2, <1>3, <1>4, <1>5, <1>6, <1>7, <1>8, <1>9, <1>10, <1>11, Steps
         DEF MainStep

\* The event loop moves no thread, and touches no memory after opensl_sound_close.
LEMMA MainKeeps ==
  ASSUME IInv, MainStep
  PROVE  (OncePerBuffer /\ ThreadsOfPhase /\ MemoryOfPhase /\ Closing)'
PROOF
<1> USE DEF IInv, OncePerBuffer, ThreadsOfPhase, MemoryOfPhase, Closing, Opening, Running,
            Leaving, Whole, Active, TypeOK, Objects, Threads, device, sender
<1>1. CASE Open
  BY <1>1 DEF Open
<1>2. ASSUME NEW o \in Objects, Create(o)
      PROVE  (OncePerBuffer /\ ThreadsOfPhase /\ MemoryOfPhase /\ Closing)'
  <2>1. Opening'
    BY <1>2 DEF Create, After
  <2>. QED BY <1>2, <2>1 DEF Create
<1>3. CASE OpenFails
  BY <1>3 DEF OpenFails, Left
<1>4. CASE Opened
  BY <1>4 DEF Opened
<1>5. CASE StartPlay
  BY <1>5 DEF StartPlay, Enqueue
<1>6. CASE StartRecord
  BY <1>6 DEF StartRecord, Enqueue
<1>7. CASE SetHandler \/ SetArgument \/ Stop \/ FreeSend
  BY <1>7 DEF SetHandler, SetArgument, Stop, FreeSend
<1>8. CASE Close
  BY <1>8 DEF Close
<1>. QED BY <1>1, <1>2, <1>3, <1>4, <1>5, <1>6, <1>7, <1>8 DEF MainStep

(***************************************************************************)
(* Steps of the threads.                                                   *)
(***************************************************************************)
\* Only the second of two threads comes to opensl_sound_destroy: it is alone by then.
LEMMA LeavingIsAlone ==
  ASSUME IInv, NEW t \in Threads, Leaving(t)
  PROVE  main = "closed" /\ wait = 1 /\ \A u \in Threads : u # t => ~Active(u)
  BY DEF IInv, MemoryOfPhase, Closing, Leaving, Active

\* In a callback that has not reached the swap, or found 0 there.
LEMMA CallbackKeeps ==
  ASSUME IInv, NEW t \in Threads,
         \/ Called(t)
         \/ t = "player" /\ Write
         \/ t = "recorder" /\ (ReadCtx \/ PutDone \/ Magic \/ Send \/ Read)
  PROVE  (OncePerBuffer /\ ThreadsOfPhase /\ MemoryOfPhase /\ Closing)'
PROOF
<1> USE DEF IInv, OncePerBuffer, ThreadsOfPhase, MemoryOfPhase, Closing, Opening, Running,
            Leaving, Whole, Gone, Active, TypeOK, Threads, device, sender
<1>1. CASE Called(t)
  BY <1>1 DEF Called
<1>2. CASE t = "player" /\ Write
  BY <1>2 DEF Write, Enqueue
<1>3. CASE t = "recorder" /\ Read
  BY <1>3 DEF Read, Enqueue
<1>4. CASE t = "recorder" /\ (ReadCtx \/ PutDone \/ Send)
  BY <1>4 DEF ReadCtx, PutDone, Send
<1>5. CASE t = "recorder" /\ Magic
  <2>1. pc' \in {[pc EXCEPT ![t] = "send"], [pc EXCEPT ![t] = "read"]}
    BY <1>5 DEF Magic
  <2>. QED BY <1>5, <2>1 DEF Magic
<1>. QED BY <1>1, <1>2, <1>3, <1>4, <1>5

\* The first thread to find 2 goes for good and leaves the other a 1.
LEMMA SwapKeeps ==
  ASSUME IInv, NEW t \in Threads, Swap(t)
  PROVE  (OncePerBuffer /\ ThreadsOfPhase /\ MemoryOfPhase /\ Closing)'
PROOF
<1> USE DEF IInv, Threads, TypeOK, Swap, Swapped, AfterSwap, device, sender
<1>1. main' = main /\ Active(t) /\ ~queued[t] /\ UNCHANGED <<queued, stream, snd, refused>>
  BY DEF OncePerBuffer, Active
<1>2. \A u \in Threads : u # t => (Active(u)' <=> Active(u))
  BY DEF Active
<1>3. OncePerBuffer'
  BY DEF OncePerBuffer
<1>4. CASE wait = 2
  <2>1. main = "closed" /\ ~Active(t)' /\ wait' = 1
    BY <1>1, <1>4 DEF MemoryOfPhase, Active
  <2>2. refused \/ \E u \in Threads : Active(u)'
    BY <1>1, <1>2, <1>4, <2>1 DEF Closing
  <2>3. (\A u \in Threads : ~Leaving(u))' /\ Whole'
    BY <1>4, <2>1 DEF Closing, Leaving, Whole
  <2>4. \A u, v \in Threads : Active(u)' /\ Active(v)' => u = v
    BY <2>1
  <2>. QED BY <1>1, <1>3, <2>1, <2>2, <2>3, <2>4
           DEF ThreadsOfPhase, MemoryOfPhase, Closing, Opening, Running, Leaving, Whole, Objects
<1>5. CASE wait = 1
  <2>1. main = "closed" /\ pc' = [pc EXCEPT ![t] = "clear"] /\ wait' = 1
    BY <1>5 DEF MemoryOfPhase
  <2>2. \A u \in Threads : u # t => ~Active(u)
    BY <1>1, <1>5, <2>1 DEF Closing
  <2>3. Whole
    BY <1>1, <1>5, <2>1, <2>2 DEF Closing, Leaving, Active, Whole, Gone
  <2>. QED BY <1>1, <1>3, <1>5, <2>1, <2>2, <2>3
           DEF ThreadsOfPhase, MemoryOfPhase, Closing, Opening, Running, Leaving, Whole, Active,
               Objects
<1>6. CASE wait = 0
  <2>1. main # "closed" /\ pc' = [pc EXCEPT ![t] = "work"] /\ wait' = 0
    BY <1>6 DEF Closing
  <2>. QED BY <1>1, <1>3, <2>1
           DEF ThreadsOfPhase, MemoryOfPhase, Closing, Opening, Running, Leaving, Whole, Active
<1>. QED BY <1>4, <1>5, <1>6

\* opensl_sound_destroy, by a thread that is alone.
LEMMA DestroyKeeps ==
  ASSUME IInv, NEW t \in Threads, ClearCtx(t) \/ Deref(t) \/ Destroy(t)
  PROVE  (OncePerBuffer /\ ThreadsOfPhase /\ MemoryOfPhase /\ Closing)'
PROOF
<1> USE DEF IInv, Threads, TypeOK, Leaving, Active, device, sender
<1>1. main = "closed" /\ wait = 1 /\ \A u \in Threads : u # t => ~Active(u)
  BY LeavingIsAlone DEF ClearCtx, Deref, Destroy
<1>2. main' = "closed" /\ wait' = 1 /\ UNCHANGED <<queued, refused>>
  BY <1>1 DEF ClearCtx, Deref, Destroy
<1>3. ~queued[t] /\ \A u \in Threads : u # t => ~Active(u)'
  BY <1>1, <1>2 DEF OncePerBuffer, ClearCtx, Deref, Destroy
<1>4. OncePerBuffer' /\ ThreadsOfPhase' /\ MemoryOfPhase'
  BY <1>2, <1>3 DEF OncePerBuffer, ThreadsOfPhase, MemoryOfPhase, Opening, Running, Objects
<1>5. CASE ClearCtx(t)
  BY <1>1, <1>2, <1>3, <1>4, <1>5 DEF ClearCtx, Closing
<1>6. CASE Deref(t)
  BY <1>1, <1>2, <1>3, <1>4, <1>6 DEF Deref, Closing
<1>7. CASE Destroy(t)
  BY <1>1, <1>2, <1>3, <1>4, <1>7 DEF Destroy, Left, Closing, Gone, Objects
<1>. QED BY <1>5, <1>6, <1>7

LEMMA InvariantStep ==
  ASSUME IInv, [Next]_vars
  PROVE  IInv'
PROOF
<1>1. TypeOK'
  BY TypeStep DEF IInv
<1>2. CASE UNCHANGED vars
  BY <1>1, <1>2 DEF IInv, OncePerBuffer, ThreadsOfPhase, MemoryOfPhase, Closing, Opening,
                    Running, Leaving, Whole, Gone, Active, vars, device
<1>3. CASE MainStep
  BY <1>1, <1>3, MainKeeps DEF IInv
<1>4. ASSUME NEW t \in Threads, ThreadStep(t) PROVE IInv'
  BY <1>1, <1>4, CallbackKeeps, SwapKeeps, DestroyKeeps DEF IInv, ThreadStep
<1>. QED BY <1>2, <1>3, <1>4, Steps

\* Every state that can be reached has what the phase of the event loop promises.
THEOREM Invariant == Spec => []IInv
PROOF
<1>1. ASSUME Init PROVE IInv
  <2>1. TypeOK
    <3>1. main \in MainPcs /\ objects \subseteq Objects /\ wait \in 0 .. 2
      BY <1>1 DEF Init, MainPcs
    <3>2. pc \in [Threads -> ThreadPcs] /\ queued \in [Threads -> BOOLEAN]
      BY <1>1 DEF Init, ThreadPcs
    <3>3. stream \in Memory /\ snd \in Memory /\ jitter \in Memory /\ sendCtx \in Memory
      BY <1>1 DEF Init, Memory
    <3>4. {hasCtx, handler, handlerArg, refused} \subseteq BOOLEAN
      BY <1>1 DEF Init
    <3>. QED BY <3>1, <3>2, <3>3, <3>4 DEF TypeOK
  <2>2. OncePerBuffer /\ ThreadsOfPhase /\ MemoryOfPhase /\ Closing
    BY <1>1 DEF Init, OncePerBuffer, ThreadsOfPhase, MemoryOfPhase, Closing, Opening, Running,
                Leaving, Active, Objects, Threads
  <2>. QED BY <2>1, <2>2 DEF IInv
<1>2. IInv /\ [Next]_vars => IInv'
  BY InvariantStep
<1>. QED BY <1>1, <1>2, PTL DEF Spec

(***************************************************************************)
(* What follows.                                                           *)
(***************************************************************************)
\* Every field of the stream, both threads and the event loop keep to their values: the
\* count of opensl_sound_close only goes down, and never below 1.
THEOREM TypeCorrect == Spec => []TypeOK
  BY Invariant, PTL DEF IInv

\* No callback of the player or recorder, and not the event loop, uses a stream, a buffer or
\* a struct opensl_sound that is freed.
THEOREM NothingUsed == Spec => []NothingUsedAfterFree
PROOF
<1>1. ASSUME IInv PROVE NothingUsedAfterFree
  <2> USE <1>1 DEF IInv
  <2>1. ASSUME NEW t \in Threads, Active(t) PROVE stream = "live"
    BY <2>1 DEF ThreadsOfPhase, MemoryOfPhase, Closing, Opening, Running, Leaving, Whole, Gone,
                Active, TypeOK, MainPcs, Objects
  <2>2. ASSUME NEW t \in Threads, Works(t) PROVE hasCtx /\ snd = "live" /\ jitter = "live"
    <3>1. Active(t) /\ ~Leaving(t)
      BY <2>2 DEF Works, Active, Leaving
    <3>2. CASE main # "closed"
      BY <3>1, <3>2 DEF ThreadsOfPhase, MemoryOfPhase, Opening, Running, Whole, TypeOK, MainPcs
    <3>3. CASE main = "closed"
      <4>1. \A u \in Threads : Leaving(u) => Active(u) /\ u # t
        BY <2>2 DEF Leaving, Active, Works
      <4>2. Whole \/ Gone
        BY <3>1, <3>3, <4>1 DEF Closing
      <4>. QED BY <2>1, <3>1, <4>2 DEF Whole, Gone
    <3>. QED BY <3>2, <3>3
  <2>3. ASSUME NEW t \in Threads, pc[t] \in {"clear", "deref"} PROVE snd = "live"
    BY <2>3, LeavingIsAlone DEF Closing, Leaving
  <2>. QED BY <2>1, <2>2, <2>3 DEF NothingUsedAfterFree, MemoryOfPhase, Running, Whole
<1>. QED BY <1>1, Invariant, PTL

\* Wherever android_OpenAudioDevice gives up, and after the last callback, no object of
\* OpenSL ES and no struct opensl_sound is left.
THEOREM NoLeaks == Spec => []NothingLeaks
PROOF
<1>1. ASSUME IInv PROVE NothingLeaks
  <2>1. CASE main # "closed"
    BY <1>1, <2>1 DEF NothingLeaks, IInv, MemoryOfPhase, Opening, Running, Whole, TypeOK, MainPcs
  <2>2. CASE main = "closed"
    <3>1. CASE \E t \in Threads : Leaving(t)
      BY <1>1, <2>2, <3>1, LeavingIsAlone DEF NothingLeaks, IInv, Closing
    <3>2. CASE \A t \in Threads : ~Leaving(t)
      BY <1>1, <2>2, <3>2 DEF NothingLeaks, IInv, Closing, Whole, Gone
    <3>. QED BY <3>1, <3>2
  <2>. QED BY <2>1, <2>2
<1>. QED BY <1>1, Invariant, PTL

\* The safety half of ClosedIsFreed: a stream that is closed and not freed has a thread in a
\* callback, or in a queue, unless an Enqueue failed.  That the thread gets to the end
\* is all that fairness is needed for.
THEOREM SomeoneIsLeft ==
  Spec => [](main = "closed" /\ stream # "freed" => refused \/ \E t \in Threads : Active(t))
PROOF
<1>1. ASSUME IInv, main = "closed", stream # "freed"
      PROVE  refused \/ \E t \in Threads : Active(t)
  BY <1>1 DEF IInv, Closing, Threads
<1>. QED BY <1>1, Invariant, PTL

(***************************************************************************)
(* The refinement: of the steps of DeviceLife, AndroidSound takes one or   *)
(* none.                                                                   *)
(***************************************************************************)
LEMMA LifeOfPhase ==
  ASSUME IInv
  PROVE  /\ Life = "none" <=> main = "idle"
         /\ Life = "open" <=> main # "idle" /\ main # "closed"
         /\ Life = "closing" <=> main = "closed" /\ stream = "live"
         /\ Life = "gone" <=> main = "closed" /\ stream = "freed"
PROOF
<1>1. main # "closed" /\ main # "idle" => stream = "live"
  BY DEF IInv, MemoryOfPhase, Opening, Running, Whole, TypeOK, MainPcs
<1>2. main = "idle" => stream = "none"
  BY DEF IInv, MemoryOfPhase
<1>3. main = "closed" => stream \in {"live", "freed"}
  <2>1. CASE \E t \in Threads : Leaving(t)
    BY <2>1, LeavingIsAlone DEF IInv, Closing
  <2>2. CASE \A t \in Threads : ~Leaving(t)
    BY <2>2 DEF IInv, Closing, Whole, Gone
  <2>. QED BY <2>1, <2>2
<1>. QED BY <1>1, <1>2, <1>3 DEF Life

LEMMA MainImplements ==
  ASSUME IInv, IInv', MainStep
  PROVE  [Device!Next]_<<Life, Users, refused>>
PROOF
<1>1. \A t \in Threads : pc'[t] = pc[t]
  BY DEF MainStep, Open, Create, OpenFails, Opened, StartPlay, StartRecord, SetHandler,
         SetArgument, Stop, FreeSend, Close
<1>2. CASE StartPlay \/ StartRecord
  <2>1. PICK t \in Threads : Enqueue(t) /\ ~Active(t)
    BY <1>2 DEF StartPlay, StartRecord, Threads, IInv, ThreadsOfPhase
  <2>2. Life = "open" /\ Life' = "open"
    BY <1>2, LifeOfPhase DEF StartPlay, StartRecord, Life, device
  <2>3. CASE queued' = [queued EXCEPT ![t] = TRUE] /\ UNCHANGED refused
    <3>1. Users' = Users \cup {t}
      BY <1>1, <2>3 DEF Users, Active, IInv, TypeOK
    <3>. QED BY <2>2, <2>3, <3>1 DEF Device!Next, Device!Join
  <2>4. CASE refused' = TRUE /\ UNCHANGED queued
    <3>1. Users' = Users /\ t \notin Users
      BY <1>1, <2>1, <2>4 DEF Users, Active
    <3>. QED BY <2>2, <2>4, <3>1 DEF Device!Next, Device!Lose
  <2>. QED BY <2>1, <2>3, <2>4 DEF Enqueue
<1>3. CASE ~(StartPlay \/ StartRecord)
  <2>1. Users' = Users /\ refused' = refused
    BY <1>1, <1>3 DEF Users, Active, MainStep, Open, Create, OpenFails, Opened, SetHandler,
                      SetArgument, Stop, FreeSend, Close
  <2>2. CASE Open
    <3>1. Life = "none" /\ Life' = "open"
      BY <2>2 DEF Open, Life, IInv, MemoryOfPhase
    <3>. QED BY <2>1, <3>1 DEF Device!Next, Device!Open
  <2>3. CASE OpenFails
    <3>1. Life = "open" /\ Life' = "none" /\ Users = {}
      BY <2>3 DEF OpenFails, Life, Users, IInv, MemoryOfPhase, ThreadsOfPhase, Opening
    <3>. QED BY <2>1, <3>1 DEF Device!Next, Device!GiveUp
  <2>4. CASE Close
    <3>1. Life = "open" /\ Life' = "closing" /\ (Users = Threads \/ refused)
      BY <2>4 DEF Close, Life, device, Users, IInv, MemoryOfPhase, ThreadsOfPhase, Running, Whole
    <3>. QED BY <2>1, <3>1 DEF Device!Next, Device!Close
  <2>5. CASE ~(Open \/ OpenFails \/ Close)
    <3>1. Life' = Life
      BY <1>3, <2>5, LifeOfPhase
         DEF MainStep, Create, Opened, SetHandler, SetArgument, Stop, FreeSend, device, Life, After,
             Objects
    <3>. QED BY <2>1, <3>1
  <2>. QED BY <2>2, <2>3, <2>4, <2>5
<1>. QED BY <1>2, <1>3

LEMMA ThreadImplements ==
  ASSUME IInv, IInv', NEW t \in Threads, ThreadStep(t)
  PROVE  [Device!Next]_<<Life, Users, refused>>
PROOF
<1>1. t \in Users
  BY DEF ThreadStep, Users, Active, Called, Swap, ClearCtx, Deref, Destroy, Write, ReadCtx,
         PutDone, Magic, Send, Read
<1>2. \A u \in Threads : u # t => pc'[u] = pc[u] /\ queued'[u] = queued[u]
  BY DEF ThreadStep, Called, Swap, ClearCtx, Deref, Destroy, Write, ReadCtx, PutDone, Magic,
         Send, Read, Enqueue, IInv, TypeOK
<1>3. Users' = IF Active(t)' THEN Users ELSE Users \ {t}
  BY <1>1, <1>2 DEF Users, Active
<1>4. main' = main
  BY DEF ThreadStep, Called, Swap, ClearCtx, Deref, Destroy, Write, ReadCtx, PutDone, Magic,
         Send, Read
<1>5. Life \in {"open", "closing"}
  <2>1. main # "idle"
    BY <1>1 DEF Users, IInv, ThreadsOfPhase
  <2>2. main = "closed" /\ stream = "freed" => FALSE
    BY <1>1 DEF Users, IInv, Closing, Whole
  <2>. QED BY <2>1, <2>2, LifeOfPhase DEF Life
<1>6. CASE Destroy(t)
  <2>1. Life = "closing" /\ Life' = "gone"
    BY <1>4, <1>5, <1>6, LeavingIsAlone, LifeOfPhase DEF Destroy, Leaving, Life
  <2>2. Users = {t} /\ Users' = {} /\ refused' = refused
    BY <1>1, <1>3, <1>6, LeavingIsAlone
       DEF Destroy, Leaving, Users, Active, IInv, OncePerBuffer, TypeOK
  <2>. QED BY <2>1, <2>2 DEF Device!Next, Device!Free
<1>7. CASE ~Destroy(t)
  <2>1. Life' = Life
    BY <1>4, <1>7 DEF Life, ThreadStep, Called, Swap, ClearCtx, Deref, Write, ReadCtx, PutDone,
                      Magic, Send, Read, device
  <2>2. CASE Active(t)' /\ refused' = refused
    BY <1>3, <2>1, <2>2
  <2>3. CASE refused' = TRUE /\ UNCHANGED queued /\ ~Active(t)'
    BY <1>3, <1>5, <2>1, <2>3 DEF Device!Next, Device!Lose
  <2>4. CASE Swap(t) /\ wait = 2
    <3>1. Life = "closing" /\ ~Active(t)' /\ refused' = refused
      BY <1>1, <1>5, <2>4, LifeOfPhase
         DEF Swap, AfterSwap, IInv, MemoryOfPhase, OncePerBuffer, Active, TypeOK
    <3>2. refused \/ Users \ {t} # {}
      BY <2>4, LifeOfPhase, <3>1 DEF IInv, Closing, Users, Threads
    <3>. QED BY <1>1, <1>3, <2>1, <3>1, <3>2 DEF Device!Next, Device!Leave
  <2>5. \/ Active(t)' /\ refused' = refused
        \/ refused' = TRUE /\ UNCHANGED queued /\ ~Active(t)'
        \/ Swap(t) /\ wait = 2
    <3>. USE DEF IInv, TypeOK, Threads, Active
    <3>1. CASE Called(t)
      BY <3>1 DEF Called
    <3>2. CASE Swap(t)
      BY <3>2 DEF Swap, AfterSwap
    <3>3. CASE t = "player" /\ Write
      BY <3>3 DEF Write, Enqueue, OncePerBuffer
    <3>4. CASE t = "recorder" /\ Read
      BY <3>4 DEF Read, Enqueue, OncePerBuffer
    <3>5. CASE t = "recorder" /\ (ReadCtx \/ PutDone \/ Magic \/ Send)
      BY <3>5 DEF ReadCtx, PutDone, Magic, Send
    <3>6. CASE ClearCtx(t) \/ Deref(t)
      BY <3>6 DEF ClearCtx, Deref
    <3>. QED BY <1>7, <3>1, <3>2, <3>3, <3>4, <3>5, <3>6 DEF ThreadStep
  <2>. QED BY <2>2, <2>3, <2>4, <2>5
<1>. QED BY <1>6, <1>7

\* Of event loop and callbacks, only the last thread to use a stream frees it; nobody comes
\* to it once it is closing, and none leaves it to a thread that is not there.
THEOREM FreedByLast == Spec => ImplementsDevice
PROOF
<1>1. Init => Device!Init
  BY DEF Init, Device!Init, Life, Users, Active, Threads
<1>2. IInv /\ IInv' /\ [Next]_vars => [Device!Next]_(Device!vars)
  <2>. SUFFICES ASSUME IInv, IInv', [Next]_vars PROVE [Device!Next]_(Device!vars)
    OBVIOUS
  <2>1. CASE UNCHANGED vars
    BY <2>1 DEF vars, device, Device!vars, Life, Users, Active
  <2>2. CASE Next
    BY <2>2, Steps, MainImplements, ThreadImplements DEF Device!vars, Users
  <2>. QED BY <2>1, <2>2
<1>. QED BY <1>1, <1>2, Invariant, PTL DEF ImplementsDevice, Spec, Device!Spec
=============================================================================
