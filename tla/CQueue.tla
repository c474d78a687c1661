------------------------------ MODULE CQueue ------------------------------
(***************************************************************************)
(* The ring buffer of com_queue.cpp, at the grain of its lock, semaphore   *)
(* and shared-counter accesses.  One thread pushes and one thread takes    *)
(* frames out, which is how both queues of cRTPClient are used: pQueNet    *)
(* between read_thread and parse_thread, pQueH264 between parse_thread and *)
(* the application.  A frame is its serial number: the n-th completed push *)
(* writes n into data and into datalen of its slot.                        *)
(***************************************************************************)
EXTENDS Integers, FiniteSets

CONSTANTS
  maxFrames,  \* number of slots
  MaxPush,    \* bound on the number of pushes
  MaxHeld,    \* frames the consumer keeps between getbuffer and releasebuffer
  Calls       \* which of getbuffer and pop the consumer thread makes

ASSUME QueueAssumption ==
  /\ maxFrames \in Nat \ {0}
  /\ MaxPush \in Nat
  /\ MaxHeld \in Nat \ {0}
  /\ Calls \subseteq {"getbuffer", "pop"}

Slot == 0 .. maxFrames - 1

\* Owners of a slot's mutex.
Free == "free"
P == "producer"
C == "consumer"

VARIABLES
  data, datalen, mlock,     \* que[i].data, que[i].datalen, que[i].mlock
  mInindex, mOutindex,      \* where the next push and the next take go
  mEffectives,              \* frames counted in the ring
  mSem,                     \* value of the semaphore mSem
  ppc, iIn,                 \* the pushing thread: next step, its iIn
  cpc, call, iout,          \* the taking thread: next step, its call, its iout
  held,                     \* slots handed out by getbuffer, not yet released
  plen,                     \* plen[i]: the length handed out with slot i
  pushed,                   \* history: pushes that advanced mInindex
  last,                     \* history: serial of the last frame handed out
  overflowed                \* history: some push has covered old data

slotVars == <<data, datalen, mlock>>
prodVars == <<ppc, iIn>>
consVars == <<cpc, call, iout, held, plen>>
hist     == <<pushed, last, overflowed>>
vars == <<slotVars, mInindex, mOutindex, mEffectives, mSem, prodVars, consVars, hist>>

\* The LOOP_ADD macro with r = maxFrames.
LoopAdd(i) == IF i + 1 >= maxFrames THEN 0 ELSE i + 1

Init ==
  /\ data = [i \in Slot |-> 0]
  /\ datalen = [i \in Slot |-> 0]
  /\ mlock = [i \in Slot |-> Free]
  /\ mInindex = 0 /\ mOutindex = 0
  /\ mEffectives = 0 /\ mSem = 0
  /\ ppc = "idle" /\ iIn = 0
  /\ cpc = "idle" /\ call = "getbuffer" /\ iout = 0
  /\ held = {} /\ plen = [i \in Slot |-> 0]
  /\ pushed = 0 /\ last = 0 /\ overflowed = FALSE

\* The consumer may call again while it still holds fewer than MaxHeld frames.
MayCall(c) == cpc = "idle" /\ c \in Calls /\ Cardinality(held) < MaxHeld

---------------------------------------------------------------------------
(* Slips a change of com_queue.cpp could make, one per definition below;   *)
(* each is a mutated form of the action it names.                          *)

\* IncreaseEffectives without its clamp.
IncreaseUnclamped ==
  /\ ppc = "incr"
  /\ mEffectives' = mEffectives + 1
  /\ overflowed' = (overflowed \/ mEffectives = maxFrames)
  /\ ppc' = IF mEffectives = maxFrames THEN "cover" ELSE "unlock"
  /\ UNCHANGED <<slotVars, mInindex, mOutindex, mSem, iIn, consVars, pushed, last>>

\* push covers when the count after the increment reaches maxFrames.
IncreaseCoversEarly ==
  /\ ppc = "incr"
  /\ mEffectives' = IF mEffectives < maxFrames THEN mEffectives + 1 ELSE mEffectives
  /\ overflowed' = (overflowed \/ mEffectives + 1 >= maxFrames)
  /\ ppc' = IF mEffectives + 1 >= maxFrames THEN "cover" ELSE "unlock"
  /\ UNCHANGED <<slotVars, mInindex, mOutindex, mSem, iIn, consVars, pushed, last>>

\* push forgets sem_post.
PostForgotten ==
  /\ ppc = "post"
  /\ ppc' = "incr"
  /\ UNCHANGED <<slotVars, mInindex, mOutindex, mEffectives, mSem, iIn, consVars, hist>>

\* Covering takes the token but leaves mOutindex on the covered frame.
CoverKeepsOut ==
  /\ ppc = "coverOut"
  /\ ppc' = "unlock"
  /\ UNCHANGED <<slotVars, mInindex, mOutindex, mEffectives, mSem, iIn, consVars, hist>>

\* push returns with the slot locked.
PushKeepsLock ==
  /\ ppc = "unlock"
  /\ ppc' = "idle"
  /\ UNCHANGED <<slotVars, mInindex, mOutindex, mEffectives, mSem, iIn, consVars, hist>>

\* getbuffer unlocks the slot before it returns (the call com_queue.cpp:157
\* keeps commented out).
TakeUnlocksEarly ==
  /\ cpc = "take"
  /\ last' = data[iout]
  /\ mOutindex' = LoopAdd(mOutindex)
  /\ plen' = [plen EXCEPT ![iout] = datalen[iout]]
  /\ mlock' = [mlock EXCEPT ![iout] = Free]
  /\ held' = IF call = "getbuffer" THEN held \cup {iout} ELSE held
  /\ cpc' = "idle"
  /\ UNCHANGED <<data, datalen, mInindex, mEffectives, mSem, prodVars, call, iout, pushed, overflowed>>

\* getbuffer and pop return from an early exit with the slot locked.
TakeKeepsLock ==
  /\ cpc = "unlock"
  /\ cpc' = "idle"
  /\ UNCHANGED <<slotVars, mInindex, mOutindex, mEffectives, mSem, prodVars, call, iout, held, plen, hist>>

\* getbuffer uses sem_trywait, as pop does, and ignores its result.
GetDoesNotWait ==
  /\ cpc = "wait"
  /\ mSem' = IF mSem > 0 THEN mSem - 1 ELSE 0
  /\ cpc' = "read"
  /\ UNCHANGED <<slotVars, mInindex, mOutindex, mEffectives, prodVars, call, iout, held, plen, hist>>

---------------------------------------------------------------------------
(* push *)

PGoto(l) == ppc' = l

PushBegin ==
  /\ ppc = "idle"
  /\ pushed < MaxPush
  /\ iIn' = mInindex
  /\ PGoto("lock")
  /\ UNCHANGED <<slotVars, mInindex, mOutindex, mEffectives, mSem, consVars, hist>>

PushLock ==
  /\ ppc = "lock"
  /\ mlock[iIn] = Free
  /\ mlock' = [mlock EXCEPT ![iIn] = P]
  /\ PGoto("copy")
  /\ UNCHANGED <<data, datalen, mInindex, mOutindex, mEffectives, mSem, iIn, consVars, hist>>

PushCopy ==
  /\ ppc = "copy"
  /\ data' = [data EXCEPT ![iIn] = pushed + 1]
  /\ PGoto("len")
  /\ UNCHANGED <<datalen, mlock, mInindex, mOutindex, mEffectives, mSem, iIn, consVars, hist>>

PushLen ==
  /\ ppc = "len"
  /\ datalen' = [datalen EXCEPT ![iIn] = pushed + 1]
  /\ PGoto("in")
  /\ UNCHANGED <<data, mlock, mInindex, mOutindex, mEffectives, mSem, iIn, consVars, hist>>

\* addInindex()
PushAddIn ==
  /\ ppc = "in"
  /\ mInindex' = LoopAdd(mInindex)
  /\ pushed' = pushed + 1
  /\ PGoto("post")
  /\ UNCHANGED <<slotVars, mOutindex, mEffectives, mSem, iIn, consVars, last, overflowed>>

PushPost ==
  /\ ppc = "post"
  /\ mSem' = mSem + 1
  /\ PGoto("incr")
  /\ UNCHANGED <<slotVars, mInindex, mOutindex, mEffectives, iIn, consVars, hist>>

\* IncreaseEffectives() == maxFrames decides whether old data is covered.
PushIncrease ==
  /\ ppc = "incr"
  /\ \/ /\ mEffectives = maxFrames
        /\ overflowed' = TRUE
        /\ PGoto("cover")
        /\ UNCHANGED mEffectives
     \/ /\ mEffectives < maxFrames
        /\ mEffectives' = mEffectives + 1
        /\ PGoto("unlock")
        /\ UNCHANGED overflowed
  /\ UNCHANGED <<slotVars, mInindex, mOutindex, mSem, iIn, consVars, pushed, last>>

\* sem_trywait takes a token if there is one and never blocks.
PushCover ==
  /\ ppc = "cover"
  /\ mSem' = IF mSem > 0 THEN mSem - 1 ELSE 0
  /\ PGoto("coverOut")
  /\ UNCHANGED <<slotVars, mInindex, mOutindex, mEffectives, iIn, consVars, hist>>

PushCoverOut ==
  /\ ppc = "coverOut"
  /\ mOutindex' = LoopAdd(mOutindex)
  /\ PGoto("unlock")
  /\ UNCHANGED <<slotVars, mInindex, mEffectives, mSem, iIn, consVars, hist>>

PushUnlock ==
  /\ ppc = "unlock"
  /\ mlock' = [mlock EXCEPT ![iIn] = Free]
  /\ PGoto("idle")
  /\ UNCHANGED <<data, datalen, mInindex, mOutindex, mEffectives, mSem, iIn, consVars, hist>>

Producer ==
  \/ PushBegin \/ PushLock \/ PushCopy \/ PushLen \/ PushAddIn
  \/ PushPost \/ PushIncrease \/ PushCover \/ PushCoverOut \/ PushUnlock

---------------------------------------------------------------------------
(* getbuffer, pop and releasebuffer *)

CGoto(l) == cpc' = l

\* getbuffer is called; from here to its return the thread releases nothing.
GetCall ==
  /\ MayCall("getbuffer")
  /\ call' = "getbuffer"
  /\ CGoto("wait")
  /\ UNCHANGED <<slotVars, mInindex, mOutindex, mEffectives, mSem, prodVars, iout, held, plen, hist>>

\* sem_wait: getbuffer sleeps here until a token is posted.
GetWait ==
  /\ cpc = "wait"
  /\ mSem > 0
  /\ mSem' = mSem - 1
  /\ CGoto("read")
  /\ UNCHANGED <<slotVars, mInindex, mOutindex, mEffectives, prodVars, call, iout, held, plen, hist>>

\* pop ignores the result of sem_trywait.
PopTry ==
  /\ MayCall("pop")
  /\ mSem' = IF mSem > 0 THEN mSem - 1 ELSE 0
  /\ call' = "pop"
  /\ CGoto("read")
  /\ UNCHANGED <<slotVars, mInindex, mOutindex, mEffectives, prodVars, iout, held, plen, hist>>

\* iout = mOutindex is read before the slot is locked.
TakeRead ==
  /\ cpc = "read"
  /\ iout' = mOutindex
  /\ CGoto("lock")
  /\ UNCHANGED <<slotVars, mInindex, mOutindex, mEffectives, mSem, prodVars, call, held, plen, hist>>

TakeLock ==
  /\ cpc = "lock"
  /\ mlock[iout] = Free
  /\ mlock' = [mlock EXCEPT ![iout] = C]
  /\ CGoto("reduce")
  /\ UNCHANGED <<data, datalen, mInindex, mOutindex, mEffectives, mSem, prodVars, call, iout, held, plen, hist>>

\* reduceEffectives() == 0 decides whether there is a frame.
TakeReduce ==
  /\ cpc = "reduce"
  /\ \/ /\ mEffectives = 0
        /\ CGoto("empty")
        /\ UNCHANGED mEffectives
     \/ /\ mEffectives > 0
        /\ mEffectives' = mEffectives - 1
        /\ CGoto("take")
  /\ UNCHANGED <<slotVars, mInindex, mOutindex, mSem, prodVars, call, iout, held, plen, hist>>

\* No data: getbuffer returns -1; pop first writes mEffectives without mIndexlock.
TakeEmpty ==
  /\ cpc = "empty"
  /\ mEffectives' = IF call = "pop" THEN 0 ELSE mEffectives
  /\ CGoto("unlock")
  /\ UNCHANGED <<slotVars, mInindex, mOutindex, mSem, prodVars, call, iout, held, plen, hist>>

\* The frame is handed out and addOutindex() is called; getbuffer keeps the lock.
Take ==
  /\ cpc = "take"
  /\ last' = data[iout]
  /\ mOutindex' = LoopAdd(mOutindex)
  /\ plen' = [plen EXCEPT ![iout] = datalen[iout]]
  /\ \/ /\ call = "getbuffer"
        /\ held' = held \cup {iout}
        /\ CGoto("idle")
     \/ /\ call = "pop"
        /\ CGoto("unlock")
        /\ UNCHANGED held
  /\ UNCHANGED <<slotVars, mInindex, mEffectives, mSem, prodVars, call, iout, pushed, overflowed>>

TakeUnlock ==
  /\ cpc = "unlock"
  /\ mlock' = [mlock EXCEPT ![iout] = Free]
  /\ CGoto("idle")
  /\ UNCHANGED <<data, datalen, mInindex, mOutindex, mEffectives, mSem, prodVars, call, iout, held, plen, hist>>

releasebuffer(i) ==
  /\ cpc = "idle"
  /\ i \in held
  /\ mlock' = [mlock EXCEPT ![i] = Free]
  /\ held' = held \ {i}
  /\ UNCHANGED <<data, datalen, mInindex, mOutindex, mEffectives, mSem, prodVars, cpc, call, iout, plen, hist>>

Consumer ==
  \/ GetCall \/ GetWait \/ PopTry \/ TakeRead \/ TakeLock \/ TakeReduce
  \/ TakeEmpty \/ Take \/ TakeUnlock
Release == \E i \in held : releasebuffer(i)

---------------------------------------------------------------------------
Next == Producer \/ Consumer \/ Release

Spec == Init /\ [][Next]_vars

\* Both threads keep running; the consumer, when it is in no call, keeps asking
\* for frames and giving them back.
FairSpec == Spec /\ WF_vars(Producer) /\ WF_vars(Consumer) /\ WF_vars(Release)

---------------------------------------------------------------------------
(* Properties *)

ProducerSteps == {"idle", "lock", "copy", "len", "in", "post", "incr", "cover", "coverOut", "unlock"}
ConsumerSteps == {"idle", "wait", "read", "lock", "reduce", "empty", "take", "unlock"}

\* Every variable keeps its range; the counter never exceeds the number of
\* slots (the clamps of IncreaseEffectives and reduceEffectives).
TypeOK ==
  /\ data \in [Slot -> Nat] /\ datalen \in [Slot -> Nat] /\ plen \in [Slot -> Nat]
  /\ mlock \in [Slot -> {Free, P, C}]
  /\ mInindex \in Slot /\ mOutindex \in Slot /\ iIn \in Slot /\ iout \in Slot
  /\ mEffectives \in 0 .. maxFrames /\ mSem \in Nat
  /\ ppc \in ProducerSteps /\ cpc \in ConsumerSteps /\ call \in {"getbuffer", "pop"}
  /\ held \subseteq Slot
  /\ pushed \in Nat /\ last \in Nat /\ overflowed \in BOOLEAN

\* A frame handed out by getbuffer is whole (its data and its length come from
\* one push) and push does not touch it before releasebuffer.
FrameKept == \A i \in held : data[i] = plen[i] /\ datalen[i] = plen[i]

\* While neither index is being moved, the distance from mOutindex to mInindex
\* is the number of frames counted.
CountMatchesIndices ==
  (ppc \in {"idle", "lock", "copy", "len", "in", "unlock"} /\ cpc # "take")
    => (mInindex - mOutindex - mEffectives) % maxFrames = 0

\* No lost wakeup: between two pushes a counted frame has a token in the
\* semaphore, so a consumer asleep in getbuffer sleeps on an empty queue.
NoLostWakeup == (ppc \in {"idle", "lock"} /\ cpc \in {"idle", "wait"}) => mSem >= mEffectives

\* The consumer waits for a mutex that it has locked itself.
SelfLocked == cpc = "lock" /\ mlock[iout] = C

\* push waits for the mutex of its slot; the consumer is in a call and waits for
\* a mutex, or sleeps in sem_wait.
PushWaits == ppc = "lock" /\ mlock[iIn] # Free
ConsumerWaits == (cpc = "lock" /\ mlock[iout] # Free) \/ (cpc = "wait" /\ mSem = 0)

\* A consumer that holds a frame and asks getbuffer for another one locks itself
\* out only after old data was covered.
NoSelfLock == SelfLocked => overflowed

\* When both threads wait, it is for the frame the consumer kept when it asked
\* for another: push came round to its slot, and only push could wake the consumer.
BlockedByKeptFrame ==
  PushWaits /\ ConsumerWaits => SelfLocked \/ (cpc = "wait" /\ iIn \in held)

\* What a consumer risks that keeps a frame over a call of getbuffer, and all it risks.
NeverBlocked == NoSelfLock /\ BlockedByKeptFrame

\* A consumer that gives each frame back before it asks for the next (MaxHeld = 1,
\* as parse_thread and test_main do) never waits at the same time as push.
NeverBothBlocked == ~(PushWaits /\ ConsumerWaits)

\* The queue implements the lossy channel: FIFO until it overflows, recent
\* frames afterwards.
Channel == INSTANCE LossyChannel WITH
             maxFrames <- maxFrames, pushed <- pushed, last <- last, overflowed <- overflowed
ImplementsChannel == Channel!Spec

\* Covering drops the oldest frames, so frames come out in the order they were pushed.
DeliveredInOrder == [][last' > last]_last

\* push returns, whatever slot it waits for, to a producer whose consumer gives
\* each frame back before it asks for the next and waits for it in getbuffer.  One
\* that polls with pop may take an empty slot's mutex again each time it is free.
PushReturns == (ppc = "lock") ~> (ppc = "idle" \/ call = "pop")

\* pop does not wait for data: a caller that holds no frame gets its answer even
\* if the ring is empty.
PopReturns == (cpc # "idle" /\ call = "pop" /\ held = {}) ~> (cpc = "idle")

\* Nothing is left stranded: when the pushes stop, the consumer drains the ring
\* and the indices meet.
Drained == <>[](SelfLocked \/ (mEffectives = 0 /\ mInindex = mOutindex))
=============================================================================
