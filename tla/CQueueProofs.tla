--------------------------- MODULE CQueueProofs ---------------------------
(***************************************************************************)
(* Proofs about CQueue for every number of slots, every number of pushes   *)
(* and every mix of calls: its types, the stability of a frame handed out  *)
(* by getbuffer, and that it implements LossyChannel; then, for consumers  *)
(* that use getbuffer alone, its counters and who waits for whom.          *)
(***************************************************************************)
EXTENDS CQueue, FiniteSetTheorems, TLAPS

\* The steps at which the pushing thread holds the mutex of slot iIn, and the
\* steps of a call at which the taking thread holds the mutex of slot iout.
PushHolds == {"copy", "len", "in", "post", "incr", "cover", "coverOut", "unlock"}
TakeHolds == {"reduce", "empty", "take", "unlock"}

\* Who owns a slot's mutex, from the steps of the two threads.
LockInv ==
  /\ \A i \in Slot : mlock[i] = P <=> (i = iIn /\ ppc \in PushHolds)
  /\ \A i \in held : mlock[i] = C
  /\ cpc \in TakeHolds => mlock[iout] = C /\ iout \notin held

\* A slot the producer is not in the middle of writing holds one frame.
WholeInv ==
  /\ \A i \in Slot : (ppc = "len" /\ i = iIn) \/ datalen[i] = data[i]
  /\ ppc = "len" => data[iIn] = pushed + 1

\* Pushes completed since slot k was last filled, for the current mInindex.
Age(k) == IF k < mInindex THEN mInindex - 1 - k ELSE mInindex - 1 - k + maxFrames
Serial(n) == IF n > 0 THEN n ELSE 0

\* The slots are filled in turn, so a slot's content follows from its position.
RingInv ==
  /\ ppc \in {"lock", "copy", "len", "in"} => iIn = mInindex
  /\ ppc \in {"post", "incr", "cover", "coverOut", "unlock"} => mInindex = LoopAdd(iIn)
  /\ \A k \in Slot :
       data[k] = IF ppc \in {"len", "in"} /\ k = iIn
                 THEN pushed + 1 ELSE Serial(pushed - Age(k))

\* Before the first overflow the frames waiting are exactly those between the
\* indices, and the consumer works on the slot mOutindex points to.
Waiting == pushed - last
FifoCore ==
  /\ Waiting = mEffectives + (IF ppc \in {"post", "incr"} THEN 1 ELSE 0)
                           + (IF cpc = "take" THEN 1 ELSE 0)
  /\ \/ Waiting = mInindex - mOutindex
     \/ Waiting = mInindex - mOutindex + maxFrames
     \/ Waiting = mInindex - mOutindex + maxFrames + maxFrames
  /\ Waiting > maxFrames => ppc \in {"post", "incr"} /\ iIn = mOutindex
  /\ Waiting <= maxFrames + 1
  /\ cpc \in {"lock", "reduce", "empty", "take"} => iout = mOutindex
  /\ ppc \notin {"cover", "coverOut"}
  /\ cpc = "empty" => mEffectives = 0
FifoInv == ~overflowed => FifoCore

\* Once data has been covered every slot has been filled.
FilledInv == overflowed => pushed >= maxFrames

IInv == /\ TypeOK /\ LockInv /\ WholeInv /\ FrameKept
        /\ RingInv /\ FifoInv /\ FilledInv

---------------------------------------------------------------------------
(* The two sides of every step: the producer's ten actions and the         *)
(* consumer's ten.                                                         *)

LEMMA SlotFacts ==
  /\ 0 \in Slot
  /\ \A i \in Slot : LoopAdd(i) \in Slot
BY QueueAssumption DEF Slot, LoopAdd

\* The provers treat the one Boolean apart from the arithmetic.
TypeRest ==
  /\ data \in [Slot -> Nat] /\ datalen \in [Slot -> Nat] /\ plen \in [Slot -> Nat]
  /\ mlock \in [Slot -> {Free, P, C}]
  /\ mInindex \in Slot /\ mOutindex \in Slot /\ iIn \in Slot /\ iout \in Slot
  /\ mEffectives \in 0 .. maxFrames /\ mSem \in Nat
  /\ ppc \in ProducerSteps /\ cpc \in ConsumerSteps /\ call \in {"getbuffer", "pop"}
  /\ held \subseteq Slot
  /\ pushed \in Nat /\ last \in Nat

LEMMA TypeSplit == TypeOK <=> (TypeRest /\ overflowed \in BOOLEAN)
BY DEF TypeOK, TypeRest

LEMMA TypeInit == Init => TypeOK
<1> SUFFICES ASSUME Init PROVE TypeRest /\ overflowed \in BOOLEAN
  BY TypeSplit
<1>1. TypeRest
  BY QueueAssumption, SlotFacts DEF Init, TypeRest, Free, P, C, ProducerSteps, ConsumerSteps
<1>2. overflowed \in BOOLEAN
  BY DEF Init
<1> QED BY <1>1, <1>2

LEMMA TypeStep == TypeOK /\ [Next]_vars => TypeOK'
<1> SUFFICES ASSUME TypeOK, [Next]_vars PROVE TypeOK'
  OBVIOUS
<1> USE SlotFacts, QueueAssumption DEF TypeOK, ProducerSteps, ConsumerSteps,
        slotVars, prodVars, consVars, hist, PGoto, CGoto
<1>1. CASE Producer
  <2>1. CASE PushBegin    BY <2>1 DEF PushBegin
  <2>2. CASE PushLock     BY <2>2 DEF PushLock
  <2>3. CASE PushCopy     BY <2>3 DEF PushCopy
  <2>4. CASE PushLen      BY <2>4 DEF PushLen
  <2>5. CASE PushAddIn    BY <2>5 DEF PushAddIn
  <2>6. CASE PushPost     BY <2>6 DEF PushPost
  <2>7. CASE PushIncrease
    <3>1. TypeRest'
      BY <2>7 DEF PushIncrease, TypeRest
    <3>2. overflowed' \in BOOLEAN
      BY ZenonT(30), <2>7 DEF PushIncrease
    <3> QED BY <3>1, <3>2 DEF TypeRest
  <2>8. CASE PushCover    BY <2>8 DEF PushCover
  <2>9. CASE PushCoverOut BY <2>9 DEF PushCoverOut
  <2>10. CASE PushUnlock  BY <2>10 DEF PushUnlock
  <2> QED BY <1>1, <2>1, <2>2, <2>3, <2>4, <2>5, <2>6, <2>7, <2>8, <2>9, <2>10 DEF Producer
<1>2. CASE Consumer
  <2>0. CASE GetCall      BY <2>0 DEF GetCall
  <2>1. CASE GetWait      BY <2>1 DEF GetWait
  <2>2. CASE PopTry       BY <2>2 DEF PopTry
  <2>3. CASE TakeRead     BY <2>3 DEF TakeRead
  <2>4. CASE TakeLock     BY <2>4 DEF TakeLock
  <2>5. CASE TakeReduce   BY <2>5 DEF TakeReduce
  <2>6. CASE TakeEmpty    BY <2>6 DEF TakeEmpty
  <2>7. CASE Take         BY <2>7 DEF Take
  <2>8. CASE TakeUnlock   BY <2>8 DEF TakeUnlock
  <2> QED BY <1>2, <2>0, <2>1, <2>2, <2>3, <2>4, <2>5, <2>6, <2>7, <2>8 DEF Consumer
<1>3. CASE Release
  <2> PICK i \in held : releasebuffer(i)
    BY <1>3 DEF Release
  <2> QED BY DEF releasebuffer
<1>4. CASE UNCHANGED vars
  BY <1>4 DEF vars
<1> QED BY <1>1, <1>2, <1>3, <1>4 DEF Next


\* Each thread unlocks what it locked, and only that.
LEMMA LockStep == TypeRest /\ LockInv /\ [Next]_vars => LockInv'
<1> SUFFICES ASSUME TypeRest, LockInv, [Next]_vars PROVE LockInv'
  OBVIOUS
<1> USE SlotFacts, QueueAssumption DEF TypeRest, LockInv, PushHolds, TakeHolds, Free, P, C,
        slotVars, prodVars, consVars, hist, PGoto, CGoto
<1>1. CASE Producer
  <2>1. CASE PushBegin    BY <2>1 DEF PushBegin
  <2>2. CASE PushLock     BY <2>2 DEF PushLock
  <2>3. CASE PushCopy     BY <2>3 DEF PushCopy
  <2>4. CASE PushLen      BY <2>4 DEF PushLen
  <2>5. CASE PushAddIn    BY <2>5 DEF PushAddIn
  <2>6. CASE PushPost     BY <2>6 DEF PushPost
  <2>7. CASE PushIncrease BY <2>7 DEF PushIncrease
  <2>8. CASE PushCover    BY <2>8 DEF PushCover
  <2>9. CASE PushCoverOut BY <2>9 DEF PushCoverOut
  <2>10. CASE PushUnlock   BY <2>10 DEF PushUnlock
  <2> QED BY <1>1, <2>1, <2>2, <2>3, <2>4, <2>5, <2>6, <2>7, <2>8, <2>9, <2>10 DEF Producer
<1>2. CASE Consumer
  <2>0. CASE GetCall      BY <2>0 DEF GetCall
  <2>1. CASE GetWait      BY <2>1 DEF GetWait
  <2>2. CASE PopTry       BY <2>2 DEF PopTry
  <2>3. CASE TakeRead     BY <2>3 DEF TakeRead
  <2>4. CASE TakeLock     BY <2>4 DEF TakeLock
  <2>5. CASE TakeReduce   BY <2>5 DEF TakeReduce
  <2>6. CASE TakeEmpty    BY <2>6 DEF TakeEmpty
  <2>7. CASE Take         BY <2>7 DEF Take
  <2>8. CASE TakeUnlock   BY <2>8 DEF TakeUnlock
  <2> QED BY <1>2, <2>0, <2>1, <2>2, <2>3, <2>4, <2>5, <2>6, <2>7, <2>8 DEF Consumer
<1>3. CASE Release
  <2> PICK i \in held : releasebuffer(i)
    BY <1>3 DEF Release
  <2> QED BY DEF releasebuffer
<1>4. CASE UNCHANGED vars
  BY <1>4 DEF vars
<1> QED BY <1>1, <1>2, <1>3, <1>4 DEF Next

\* push finishes a slot before it leaves it.
LEMMA WholeStep == TypeRest /\ LockInv /\ WholeInv /\ [Next]_vars => WholeInv'
<1> SUFFICES ASSUME TypeRest, LockInv, WholeInv, [Next]_vars PROVE WholeInv'
  OBVIOUS
<1> USE SlotFacts, QueueAssumption DEF TypeRest, WholeInv,
        slotVars, prodVars, consVars, hist, PGoto, CGoto
<1>1. CASE Producer
  <2>1. CASE PushBegin    BY <2>1 DEF PushBegin
  <2>2. CASE PushLock     BY <2>2 DEF PushLock
  <2>3. CASE PushCopy     BY <2>3 DEF PushCopy
  <2>4. CASE PushLen      BY <2>4 DEF PushLen
  <2>5. CASE PushAddIn    BY <2>5 DEF PushAddIn
  <2>6. CASE PushPost     BY <2>6 DEF PushPost
  <2>7. CASE PushIncrease BY <2>7 DEF PushIncrease
  <2>8. CASE PushCover    BY <2>8 DEF PushCover
  <2>9. CASE PushCoverOut BY <2>9 DEF PushCoverOut
  <2>10. CASE PushUnlock   BY <2>10 DEF PushUnlock
  <2> QED BY <1>1, <2>1, <2>2, <2>3, <2>4, <2>5, <2>6, <2>7, <2>8, <2>9, <2>10 DEF Producer
<1>2. CASE Consumer
  <2>0. CASE GetCall      BY <2>0 DEF GetCall
  <2>1. CASE GetWait      BY <2>1 DEF GetWait
  <2>2. CASE PopTry       BY <2>2 DEF PopTry
  <2>3. CASE TakeRead     BY <2>3 DEF TakeRead
  <2>4. CASE TakeLock     BY <2>4 DEF TakeLock
  <2>5. CASE TakeReduce   BY <2>5 DEF TakeReduce
  <2>6. CASE TakeEmpty    BY <2>6 DEF TakeEmpty
  <2>7. CASE Take         BY <2>7 DEF Take
  <2>8. CASE TakeUnlock   BY <2>8 DEF TakeUnlock
  <2> QED BY <1>2, <2>0, <2>1, <2>2, <2>3, <2>4, <2>5, <2>6, <2>7, <2>8 DEF Consumer
<1>3. CASE Release
  <2> PICK i \in held : releasebuffer(i)
    BY <1>3 DEF Release
  <2> QED BY DEF releasebuffer
<1>4. CASE UNCHANGED vars
  BY <1>4 DEF vars
<1> QED BY <1>1, <1>2, <1>3, <1>4 DEF Next

\* No step touches a slot that is out with the consumer.
LEMMA KeptStep == TypeRest /\ LockInv /\ WholeInv /\ FrameKept /\ [Next]_vars => FrameKept'
<1> SUFFICES ASSUME TypeRest, LockInv, WholeInv, FrameKept, [Next]_vars PROVE FrameKept'
  OBVIOUS
<1> USE SlotFacts, QueueAssumption DEF TypeRest, LockInv, WholeInv, FrameKept, PushHolds, TakeHolds, Free, P, C,
        slotVars, prodVars, consVars, hist, PGoto, CGoto
<1>1. CASE Producer
  <2>1. CASE PushBegin    BY <2>1 DEF PushBegin
  <2>2. CASE PushLock     BY <2>2 DEF PushLock
  <2>3. CASE PushCopy     BY <2>3 DEF PushCopy
  <2>4. CASE PushLen      BY <2>4 DEF PushLen
  <2>5. CASE PushAddIn    BY <2>5 DEF PushAddIn
  <2>6. CASE PushPost     BY <2>6 DEF PushPost
  <2>7. CASE PushIncrease BY <2>7 DEF PushIncrease
  <2>8. CASE PushCover    BY <2>8 DEF PushCover
  <2>9. CASE PushCoverOut BY <2>9 DEF PushCoverOut
  <2>10. CASE PushUnlock   BY <2>10 DEF PushUnlock
  <2> QED BY <1>1, <2>1, <2>2, <2>3, <2>4, <2>5, <2>6, <2>7, <2>8, <2>9, <2>10 DEF Producer
<1>2. CASE Consumer
  <2>0. CASE GetCall      BY <2>0 DEF GetCall
  <2>1. CASE GetWait      BY <2>1 DEF GetWait
  <2>2. CASE PopTry       BY <2>2 DEF PopTry
  <2>3. CASE TakeRead     BY <2>3 DEF TakeRead
  <2>4. CASE TakeLock     BY <2>4 DEF TakeLock
  <2>5. CASE TakeReduce   BY <2>5 DEF TakeReduce
  <2>6. CASE TakeEmpty    BY <2>6 DEF TakeEmpty
  <2>7. CASE Take         BY <2>7 DEF Take
  <2>8. CASE TakeUnlock   BY <2>8 DEF TakeUnlock
  <2> QED BY <1>2, <2>0, <2>1, <2>2, <2>3, <2>4, <2>5, <2>6, <2>7, <2>8 DEF Consumer
<1>3. CASE Release
  <2> PICK i \in held : releasebuffer(i)
    BY <1>3 DEF Release
  <2> QED BY DEF releasebuffer
<1>4. CASE UNCHANGED vars
  BY <1>4 DEF vars
<1> QED BY <1>1, <1>2, <1>3, <1>4 DEF Next

\* Filling the slots in turn keeps their ages.
LEMMA RingStep == TypeRest /\ RingInv /\ [Next]_vars => RingInv'
<1> SUFFICES ASSUME TypeRest, RingInv, [Next]_vars PROVE RingInv'
  OBVIOUS
<1> USE SlotFacts, QueueAssumption DEF TypeRest, RingInv, Age, Serial, LoopAdd, Slot,
        slotVars, prodVars, consVars, hist, PGoto, CGoto
<1>1. CASE Producer
  <2>1. CASE PushBegin    BY <2>1 DEF PushBegin
  <2>2. CASE PushLock     BY <2>2 DEF PushLock
  <2>3. CASE PushCopy     BY <2>3 DEF PushCopy
  <2>4. CASE PushLen      BY <2>4 DEF PushLen
  <2>5. CASE PushAddIn
    <3>1. mInindex' = LoopAdd(mInindex) /\ pushed' = pushed + 1 /\ ppc' = "post" /\ data' = data /\ iIn' = iIn
      BY <2>5 DEF PushAddIn
    <3>2. ASSUME NEW k \in Slot
          PROVE  Age(k)' = IF k = mInindex THEN 0 ELSE Age(k) + 1
      BY <3>1
    <3>3. ASSUME NEW k \in Slot
          PROVE  data'[k] = Serial(pushed' - Age(k)')
      <4>1. CASE k = mInindex
        BY <4>1, <2>5, <3>1, <3>2 DEF PushAddIn
      <4>2. CASE k # mInindex
        BY <4>2, <2>5, <3>1, <3>2 DEF PushAddIn
      <4> QED BY <4>1, <4>2
    <3> QED BY <3>1, <3>3, <2>5 DEF PushAddIn
  <2>6. CASE PushPost     BY <2>6 DEF PushPost
  <2>7. CASE PushIncrease BY <2>7 DEF PushIncrease
  <2>8. CASE PushCover    BY <2>8 DEF PushCover
  <2>9. CASE PushCoverOut BY <2>9 DEF PushCoverOut
  <2>10. CASE PushUnlock  BY <2>10 DEF PushUnlock
  <2> QED BY <1>1, <2>1, <2>2, <2>3, <2>4, <2>5, <2>6, <2>7, <2>8, <2>9, <2>10 DEF Producer
<1>2. CASE Consumer
  <2>0. CASE GetCall      BY <2>0 DEF GetCall
  <2>1. CASE GetWait      BY <2>1 DEF GetWait
  <2>2. CASE PopTry       BY <2>2 DEF PopTry
  <2>3. CASE TakeRead     BY <2>3 DEF TakeRead
  <2>4. CASE TakeLock     BY <2>4 DEF TakeLock
  <2>5. CASE TakeReduce   BY <2>5 DEF TakeReduce
  <2>6. CASE TakeEmpty    BY <2>6 DEF TakeEmpty
  <2>7. CASE Take         BY <2>7 DEF Take
  <2>8. CASE TakeUnlock   BY <2>8 DEF TakeUnlock
  <2> QED BY <1>2, <2>0, <2>1, <2>2, <2>3, <2>4, <2>5, <2>6, <2>7, <2>8 DEF Consumer
<1>3. CASE Release
  <2> PICK i \in held : releasebuffer(i)
    BY <1>3 DEF Release
  <2> QED BY DEF releasebuffer
<1>4. CASE UNCHANGED vars
  BY <1>4 DEF vars
<1> QED BY <1>1, <1>2, <1>3, <1>4 DEF Next

\* overflowed is never reset.
LEMMA OverflowStays == [Next]_vars /\ ~overflowed' => ~overflowed
<1> SUFFICES ASSUME [Next]_vars, ~overflowed' PROVE ~overflowed
  OBVIOUS
<1> USE DEF hist
<1>1. CASE Producer
  BY <1>1 DEF Producer, PushBegin, PushLock, PushCopy, PushLen, PushAddIn,
              PushPost, PushIncrease, PushCover, PushCoverOut, PushUnlock
<1>2. CASE Consumer
  BY <1>2 DEF Consumer, GetCall, GetWait, PopTry, TakeRead, TakeLock, TakeReduce,
              TakeEmpty, Take, TakeUnlock
<1>3. CASE Release
  BY <1>3 DEF Release, releasebuffer
<1>4. CASE UNCHANGED vars
  BY <1>4 DEF vars
<1> QED BY <1>1, <1>2, <1>3, <1>4 DEF Next

\* Before the first overflow the slot being handed out holds the frame after
\* the last one delivered.
LEMMA TakesNext ==
  ASSUME TypeRest, LockInv, RingInv, FifoCore, cpc = "take"
  PROVE  Waiting \in 1 .. maxFrames /\ data[iout] = last + 1
<1> USE QueueAssumption DEF TypeRest, Waiting, Slot
<1>1. mlock[mOutindex] = C /\ iout = mOutindex
  BY DEF LockInv, TakeHolds, FifoCore
<1>2. ~(ppc \in PushHolds /\ iIn = mOutindex)
  BY <1>1 DEF LockInv, C, P
<1>3. Waiting \in 1 .. maxFrames
  BY <1>2 DEF PushHolds, FifoCore
<1>4. Age(mOutindex) = Waiting - 1
  BY <1>3 DEF Age, FifoCore
<1>5. data[mOutindex] = last + 1
  BY <1>2, <1>3, <1>4, SMTT(30) DEF RingInv, PushHolds, Serial
<1> QED BY <1>1, <1>3, <1>5

\* Until data is covered every frame pushed is waiting or handed out.
LEMMA FifoStep == TypeRest /\ LockInv /\ RingInv /\ FifoInv /\ [Next]_vars => FifoInv'
<1> SUFFICES ASSUME TypeRest, LockInv, RingInv, FifoInv, [Next]_vars, ~overflowed' PROVE FifoCore'
  BY DEF FifoInv
<1> FifoCore /\ ~overflowed
  BY OverflowStays DEF FifoInv
<1> USE SlotFacts, QueueAssumption DEF TypeRest, FifoCore, Waiting, LoopAdd, Slot, MayCall,
        slotVars, prodVars, consVars, hist, PGoto, CGoto
<1>1. CASE Producer
  <2>1. CASE PushBegin    BY <2>1 DEF PushBegin
  <2>2. CASE PushLock     BY <2>2 DEF PushLock
  <2>3. CASE PushCopy     BY <2>3 DEF PushCopy
  <2>4. CASE PushLen      BY <2>4 DEF PushLen
  <2>5. CASE PushAddIn    BY <2>5 DEF PushAddIn, RingInv
  <2>6. CASE PushPost     BY <2>6 DEF PushPost
  <2>7. CASE PushIncrease
    <3>1. mEffectives < maxFrames /\ mEffectives' = mEffectives + 1 /\ ppc' = "unlock"
      BY <2>7 DEF PushIncrease
    <3>2. ~(cpc = "take" /\ iIn = mOutindex)
      BY <2>7 DEF PushIncrease, LockInv, PushHolds, TakeHolds, C, P
    <3>3. Waiting <= maxFrames
      BY <2>7, <3>1, <3>2 DEF PushIncrease
    <3>4. UNCHANGED <<pushed, last, mInindex, mOutindex, cpc, iout>>
      BY <2>7 DEF PushIncrease
    <3>5. ASSUME cpc = "empty" PROVE FALSE
      <4>1. Waiting = 1
        BY <2>7, <3>5 DEF PushIncrease
      <4>2. iIn = mOutindex
        BY <2>7, <4>1 DEF PushIncrease, RingInv
      <4> QED BY <2>7, <3>5, <4>2 DEF PushIncrease, LockInv, PushHolds, TakeHolds, C, P
    <3> QED BY <2>7, <3>1, <3>3, <3>4, <3>5 DEF PushIncrease
  <2>8. CASE PushCover    BY <2>8 DEF PushCover
  <2>9. CASE PushCoverOut BY <2>9 DEF PushCoverOut
  <2>10. CASE PushUnlock  BY <2>10 DEF PushUnlock
  <2> QED BY <1>1, <2>1, <2>2, <2>3, <2>4, <2>5, <2>6, <2>7, <2>8, <2>9, <2>10 DEF Producer
<1>2. CASE Consumer
  <2>0. CASE GetCall      BY <2>0 DEF GetCall
  <2>1. CASE GetWait      BY <2>1 DEF GetWait
  <2>2. CASE PopTry       BY <2>2 DEF PopTry
  <2>3. CASE TakeRead     BY <2>3 DEF TakeRead
  <2>4. CASE TakeLock     BY <2>4 DEF TakeLock
  <2>5. CASE TakeReduce
    <3>1. CASE mEffectives = 0
      BY <2>5, <3>1 DEF TakeReduce
    <3>2. CASE mEffectives > 0
      BY <2>5, <3>2 DEF TakeReduce
    <3> QED BY <3>1, <3>2
  <2>6. CASE TakeEmpty    BY <2>6 DEF TakeEmpty
  <2>7. CASE Take
    <3>1. Waiting \in 1 .. maxFrames /\ last' = last + 1
      BY <2>7, TakesNext DEF Take
    <3> QED BY <2>7, <3>1 DEF Take
  <2>8. CASE TakeUnlock   BY <2>8 DEF TakeUnlock
  <2> QED BY <1>2, <2>0, <2>1, <2>2, <2>3, <2>4, <2>5, <2>6, <2>7, <2>8 DEF Consumer
<1>3. CASE Release
  <2> PICK i \in held : releasebuffer(i)
    BY <1>3 DEF Release
  <2> QED BY DEF releasebuffer
<1>4. CASE UNCHANGED vars
  BY <1>4 DEF vars
<1> QED BY <1>1, <1>2, <1>3, <1>4 DEF Next

\* Data is only covered in a full ring.
LEMMA FilledStep == TypeRest /\ FifoInv /\ FilledInv /\ [Next]_vars => FilledInv'
<1> SUFFICES ASSUME TypeRest, FifoInv, FilledInv, [Next]_vars PROVE FilledInv'
  OBVIOUS
<1> USE SlotFacts, QueueAssumption DEF TypeRest, FifoInv, FilledInv, FifoCore, Waiting,
        slotVars, prodVars, consVars, hist, PGoto, CGoto
<1>1. CASE Producer
  <2>1. CASE PushBegin    BY <2>1 DEF PushBegin
  <2>2. CASE PushLock     BY <2>2 DEF PushLock
  <2>3. CASE PushCopy     BY <2>3 DEF PushCopy
  <2>4. CASE PushLen      BY <2>4 DEF PushLen
  <2>5. CASE PushAddIn    BY <2>5 DEF PushAddIn
  <2>6. CASE PushPost     BY <2>6 DEF PushPost
  <2>7. CASE PushIncrease
    <3>1. CASE mEffectives = maxFrames
      <4>1. pushed >= maxFrames
        BY <2>7, <3>1 DEF PushIncrease
      <4> QED BY <2>7, <4>1 DEF PushIncrease
    <3>2. CASE mEffectives < maxFrames
      <4>1. overflowed' = overflowed /\ pushed' = pushed
        BY <2>7, <3>2 DEF PushIncrease
      <4> QED BY Zenon, <4>1
    <3> QED BY <2>7, <3>1, <3>2
  <2>8. CASE PushCover    BY <2>8 DEF PushCover
  <2>9. CASE PushCoverOut BY <2>9 DEF PushCoverOut
  <2>10. CASE PushUnlock  BY <2>10 DEF PushUnlock
  <2> QED BY <1>1, <2>1, <2>2, <2>3, <2>4, <2>5, <2>6, <2>7, <2>8, <2>9, <2>10 DEF Producer
<1>2. CASE Consumer
  <2>0. CASE GetCall      BY <2>0 DEF GetCall
  <2>1. CASE GetWait      BY <2>1 DEF GetWait
  <2>2. CASE PopTry       BY <2>2 DEF PopTry
  <2>3. CASE TakeRead     BY <2>3 DEF TakeRead
  <2>4. CASE TakeLock     BY <2>4 DEF TakeLock
  <2>5. CASE TakeReduce   BY <2>5 DEF TakeReduce
  <2>6. CASE TakeEmpty    BY <2>6 DEF TakeEmpty
  <2>7. CASE Take         BY <2>7 DEF Take
  <2>8. CASE TakeUnlock   BY <2>8 DEF TakeUnlock
  <2> QED BY <1>2, <2>0, <2>1, <2>2, <2>3, <2>4, <2>5, <2>6, <2>7, <2>8 DEF Consumer
<1>3. CASE Release
  <2> PICK i \in held : releasebuffer(i)
    BY <1>3 DEF Release
  <2> QED BY DEF releasebuffer
<1>4. CASE UNCHANGED vars
  BY <1>4 DEF vars
<1> QED BY <1>1, <1>2, <1>3, <1>4 DEF Next

---------------------------------------------------------------------------
(* The theorems *)

LEMMA InitInv == Init => IInv
<1> SUFFICES ASSUME Init PROVE IInv
  OBVIOUS
<1> USE QueueAssumption DEF Init
<1>1. TypeOK
  BY TypeInit
<1>2. LockInv /\ WholeInv /\ FrameKept
  BY DEF LockInv, WholeInv, FrameKept, PushHolds, TakeHolds, Free, P, C, Slot
<1>3. RingInv
  BY DEF RingInv, Age, Serial, Slot
<1>4. FifoInv
  BY DEF FifoInv, FifoCore, Waiting
<1>5. FilledInv
  BY DEF FilledInv
<1> QED BY <1>1, <1>2, <1>3, <1>4, <1>5 DEF IInv

LEMMA Inductive == IInv /\ [Next]_vars => IInv'
<1> SUFFICES ASSUME IInv, [Next]_vars PROVE IInv'
  OBVIOUS
<1>0. TypeRest
  BY TypeSplit DEF IInv
<1> QED
  BY <1>0, TypeStep, LockStep, WholeStep, KeptStep, RingStep, FifoStep, FilledStep DEF IInv

LEMMA Invariant == Spec => []IInv
<1> QED BY InitInv, Inductive, PTL DEF Spec

\* Every variable of the queue keeps its range; in particular the counter stays
\* within the number of slots and the indices within the ring.
THEOREM TypeCorrect == Spec => []TypeOK
<1> QED BY TypeInit, TypeStep, PTL DEF Spec

\* A frame handed out by getbuffer stays whole and untouched until
\* releasebuffer, however the pushing thread runs and overflows.
THEOREM HeldFramesKept == Spec => []FrameKept
<1>1. IInv => FrameKept
  BY DEF IInv
<1> QED BY <1>1, Invariant, PTL

LEMMA RefineInit == Init => Channel!Init
BY DEF Init, Channel!Init

LEMMA RefineStep == IInv /\ [Next]_vars => [Channel!Next]_(Channel!vars)
<1> SUFFICES ASSUME IInv, [Next]_vars PROVE [Channel!Next]_(Channel!vars)
  OBVIOUS
<1>0. TypeRest
  BY TypeSplit DEF IInv
<1> USE DEF hist, Channel!vars
<1>1. CASE PushAddIn
  BY <1>1 DEF PushAddIn, Channel!Next, Channel!Push
<1>2. CASE PushIncrease
  <2>1. CASE mEffectives = maxFrames
    <3>1. overflowed \/ pushed - last > maxFrames
      BY <1>0, <1>2, <2>1, QueueAssumption
         DEF PushIncrease, IInv, FifoInv, FifoCore, Waiting, TypeRest
    <3>2. overflowed' = TRUE /\ UNCHANGED <<pushed, last>>
      BY <1>0, <1>2, <2>1, QueueAssumption DEF PushIncrease, TypeRest
    <3> QED BY <3>1, <3>2 DEF Channel!Next, Channel!Overflow
  <2>2. CASE mEffectives # maxFrames
    BY <1>2, <2>2 DEF PushIncrease
  <2> QED BY <2>1, <2>2
<1>3. CASE Take
  <2>1. ~overflowed => Waiting \in 1 .. maxFrames /\ data[iout] = last + 1
    BY <1>0, <1>3, TakesNext DEF IInv, FifoInv, Take
  <2>2. data[iout] \in Channel!Recent
    <3>1. CASE overflowed
      <4>1. ~(ppc \in {"len", "in"} /\ iout = iIn)
        BY <1>0, <1>3 DEF Take, IInv, LockInv, TakeHolds, PushHolds, TypeRest, C, P
      <4>2. pushed >= maxFrames /\ data[iout] = Serial(pushed - Age(iout))
        BY <1>0, <3>1, <4>1 DEF IInv, FilledInv, RingInv, TypeRest
      <4>3. Age(iout) \in 0 .. maxFrames - 1
        BY <1>0, QueueAssumption DEF Age, TypeRest, Slot
      <4> QED BY <1>0, <4>2, <4>3, QueueAssumption DEF Serial, Channel!Recent, TypeRest
    <3>2. CASE ~overflowed
      BY <1>0, <2>1, <3>2, QueueAssumption DEF Waiting, Channel!Recent, TypeRest
    <3> QED BY <3>1, <3>2
  <2>3. last' = data[iout] /\ UNCHANGED <<pushed, overflowed>>
    BY <1>3 DEF Take
  <2> QED BY <2>1, <2>2, <2>3 DEF Channel!Next, Channel!Deliver
<1>4. CASE UNCHANGED vars
  BY <1>4 DEF vars
<1>5. CASE Next /\ ~PushAddIn /\ ~PushIncrease /\ ~Take
  BY <1>5 DEF Next, Producer, Consumer, Release, PushBegin, PushLock, PushCopy,
              PushLen, PushPost, PushCover, PushCoverOut, PushUnlock, GetCall, GetWait, PopTry,
              TakeRead, TakeLock, TakeReduce, TakeEmpty, TakeUnlock, releasebuffer
<1> QED BY <1>1, <1>2, <1>3, <1>4, <1>5

\* The queue implements the lossy channel: what the consumer gets is first in
\* first out until the ring covers old data, which happens only when it is
\* full, and is always one of the last maxFrames frames.
THEOREM QueueImplementsChannel == Spec => ImplementsChannel
<1> QED BY RefineInit, RefineStep, Invariant, PTL DEF Spec, ImplementsChannel, Channel!Spec

---------------------------------------------------------------------------
(* A consumer that only calls getbuffer, as parse_thread and test_main do. *)
(* pop would break these: it writes mEffectives without the lock and takes *)
(* a frame whether or not sem_trywait gave it a token.                     *)

On(b) == IF b THEN 1 ELSE 0

\* What the consumer has locked is the slot of its call or out with a frame.
OwnerInv == \A i \in Slot : mlock[i] = C => i \in held \/ (cpc \in TakeHolds /\ i = iout)

\* The count and the steps on the way make up the distance of the indices.
Unsettled == mEffectives + On(ppc \in {"post", "incr", "cover", "coverOut"}) + On(cpc = "take")
CountInv ==
  \/ Unsettled = mInindex - mOutindex
  \/ Unsettled = mInindex - mOutindex + maxFrames
  \/ Unsettled = mInindex - mOutindex + maxFrames + maxFrames
  \/ Unsettled = mInindex - mOutindex + maxFrames + maxFrames + maxFrames

\* Every frame counted, or about to be, has a token; the consumer that has taken
\* one finds a frame, unless the slot it read was covered and one is to spare.
Tokens == mSem + On(cpc \in {"read", "lock", "reduce"})
Owed == mEffectives + On(ppc \in {"incr", "cover"})
TokenInv ==
  /\ call = "getbuffer"
  /\ Tokens >= Owed
  /\ cpc \in {"lock", "reduce"} /\ mEffectives = 0 => iout = mOutindex \/ Tokens > Owed
ExactInv == ~overflowed => cpc # "empty" /\ Tokens = Owed

\* Until data is covered a frame out with the consumer is one it was given.
GivenInv == ~overflowed => \A i \in held : plen[i] <= last

GInv == OwnerInv /\ CountInv /\ TokenInv /\ ExactInv /\ GivenInv

\* A slot is locked by the consumer only for a call or a frame.
LEMMA OwnerStep == TypeRest /\ LockInv /\ OwnerInv /\ [Next]_vars => OwnerInv'
<1> SUFFICES ASSUME TypeRest, LockInv, OwnerInv, [Next]_vars PROVE OwnerInv'
  OBVIOUS
<1> USE SlotFacts, QueueAssumption DEF TypeRest, LockInv, OwnerInv, PushHolds, TakeHolds, Free, P, C,
        MayCall, slotVars, prodVars, consVars, hist, PGoto, CGoto
<1>1. CASE Producer
  <2>1. CASE PushBegin    BY <2>1 DEF PushBegin
  <2>2. CASE PushLock     BY <2>2 DEF PushLock
  <2>3. CASE PushCopy     BY <2>3 DEF PushCopy
  <2>4. CASE PushLen      BY <2>4 DEF PushLen
  <2>5. CASE PushAddIn    BY <2>5 DEF PushAddIn
  <2>6. CASE PushPost     BY <2>6 DEF PushPost
  <2>7. CASE PushIncrease BY <2>7 DEF PushIncrease
  <2>8. CASE PushCover    BY <2>8 DEF PushCover
  <2>9. CASE PushCoverOut BY <2>9 DEF PushCoverOut
  <2>10. CASE PushUnlock   BY <2>10 DEF PushUnlock
  <2> QED BY <1>1, <2>1, <2>2, <2>3, <2>4, <2>5, <2>6, <2>7, <2>8, <2>9, <2>10 DEF Producer
<1>2. CASE Consumer
  <2>0. CASE GetCall      BY <2>0 DEF GetCall
  <2>1. CASE GetWait      BY <2>1 DEF GetWait
  <2>2. CASE PopTry       BY <2>2 DEF PopTry
  <2>3. CASE TakeRead     BY <2>3 DEF TakeRead
  <2>4. CASE TakeLock     BY <2>4 DEF TakeLock
  <2>5. CASE TakeReduce   BY <2>5 DEF TakeReduce
  <2>6. CASE TakeEmpty    BY <2>6 DEF TakeEmpty
  <2>7. CASE Take         BY <2>7 DEF Take
  <2>8. CASE TakeUnlock   BY <2>8 DEF TakeUnlock
  <2> QED BY <1>2, <2>0, <2>1, <2>2, <2>3, <2>4, <2>5, <2>6, <2>7, <2>8 DEF Consumer
<1>3. CASE Release
  <2> PICK i \in held : releasebuffer(i)
    BY <1>3 DEF Release
  <2> QED BY DEF releasebuffer
<1>4. CASE UNCHANGED vars
  BY <1>4 DEF vars
<1> QED BY <1>1, <1>2, <1>3, <1>4 DEF Next

\* While the producer counts or covers the newest of one frame, the consumer
\* cannot have its slot.
LEMMA NotTheNewest ==
  ASSUME TypeRest, LockInv, RingInv, CountInv, cpc = "reduce", mEffectives = 0,
         ppc \in {"incr", "cover"}
  PROVE  iout # mOutindex
<1> USE QueueAssumption DEF TypeRest, Slot
<1>1. mInindex = LoopAdd(iIn)
  BY DEF RingInv
<1>2. iIn = mOutindex
  <2>1. Unsettled = 1
    BY DEF Unsettled, On
  <2>2. mInindex = iIn + 1 \/ (mInindex = 0 /\ iIn = maxFrames - 1)
    BY <1>1 DEF LoopAdd
  <2>3. /\ maxFrames \in Nat /\ maxFrames > 0
        /\ mOutindex \in 0 .. maxFrames - 1 /\ iIn \in 0 .. maxFrames - 1
    OBVIOUS
  <2>4. CASE mInindex = iIn + 1
    BY <2>1, <2>3, <2>4 DEF CountInv
  <2>5. CASE mInindex = 0 /\ iIn = maxFrames - 1
    BY <2>1, <2>3, <2>5 DEF CountInv
  <2> QED BY <2>2, <2>4, <2>5
<1>3. mlock[iIn] = P /\ mlock[iout] = C
  BY DEF LockInv, PushHolds, TakeHolds
<1> QED BY <1>2, <1>3 DEF P, C

\* Each index moves with the count.
LEMMA CountStep ==
  ASSUME "pop" \notin Calls, TypeRest, TokenInv, CountInv, [Next]_vars
  PROVE  CountInv'
<1> USE SlotFacts, QueueAssumption DEF TypeRest, CountInv, Unsettled, On, LoopAdd, Slot, MayCall, TokenInv,
        slotVars, prodVars, consVars, hist, PGoto, CGoto
<1>1. CASE Producer
  <2>1. CASE PushBegin    BY <2>1 DEF PushBegin
  <2>2. CASE PushLock     BY <2>2 DEF PushLock
  <2>3. CASE PushCopy     BY <2>3 DEF PushCopy
  <2>4. CASE PushLen      BY <2>4 DEF PushLen
  <2>5. CASE PushAddIn    BY <2>5 DEF PushAddIn
  <2>6. CASE PushPost     BY <2>6 DEF PushPost
  <2>7. CASE PushIncrease
    <3>1. Unsettled' = Unsettled
      BY <2>7, SMTT(30) DEF PushIncrease
    <3> QED BY <2>7, <3>1 DEF PushIncrease
  <2>8. CASE PushCover    BY <2>8 DEF PushCover
  <2>9. CASE PushCoverOut BY <2>9 DEF PushCoverOut
  <2>10. CASE PushUnlock   BY <2>10 DEF PushUnlock
  <2> QED BY <1>1, <2>1, <2>2, <2>3, <2>4, <2>5, <2>6, <2>7, <2>8, <2>9, <2>10 DEF Producer
<1>2. CASE Consumer
  <2>0. CASE GetCall      BY <2>0 DEF GetCall
  <2>1. CASE GetWait      BY <2>1 DEF GetWait
  <2>2. CASE PopTry       BY <2>2 DEF PopTry
  <2>3. CASE TakeRead     BY <2>3 DEF TakeRead
  <2>4. CASE TakeLock     BY <2>4 DEF TakeLock
  <2>5. CASE TakeReduce
    <3>1. Unsettled' = Unsettled
      <4>1. CASE mEffectives = 0
        BY <2>5, <4>1 DEF TakeReduce
      <4>2. CASE mEffectives > 0
        BY <2>5, <4>2 DEF TakeReduce
      <4> QED BY <4>1, <4>2
    <3> QED BY <2>5, <3>1 DEF TakeReduce
  <2>6. CASE TakeEmpty    BY <2>6 DEF TakeEmpty
  <2>7. CASE Take         BY <2>7 DEF Take
  <2>8. CASE TakeUnlock   BY <2>8 DEF TakeUnlock
  <2> QED BY <1>2, <2>0, <2>1, <2>2, <2>3, <2>4, <2>5, <2>6, <2>7, <2>8 DEF Consumer
<1>3. CASE Release
  <2> PICK i \in held : releasebuffer(i)
    BY <1>3 DEF Release
  <2> QED BY DEF releasebuffer
<1>4. CASE UNCHANGED vars
  BY <1>4 DEF vars
<1> QED BY <1>1, <1>2, <1>3, <1>4 DEF Next

\* Every token that goes is one of a frame that goes.
LEMMA TokenStep ==
  ASSUME "pop" \notin Calls, TypeRest, LockInv, RingInv, CountInv, TokenInv, [Next]_vars
  PROVE  TokenInv'
<1> USE SlotFacts, QueueAssumption DEF TypeRest, TokenInv, Tokens, Owed, On, MayCall,
        slotVars, prodVars, consVars, hist, PGoto, CGoto
<1>1. CASE Producer
  <2>1. CASE PushBegin    BY <2>1 DEF PushBegin
  <2>2. CASE PushLock     BY <2>2 DEF PushLock
  <2>3. CASE PushCopy     BY <2>3 DEF PushCopy
  <2>4. CASE PushLen      BY <2>4 DEF PushLen
  <2>5. CASE PushAddIn    BY <2>5 DEF PushAddIn
  <2>6. CASE PushPost     BY <2>6 DEF PushPost
  <2>7. CASE PushIncrease BY <2>7 DEF PushIncrease
  <2>8. CASE PushCover    BY <2>8 DEF PushCover
  <2>9. CASE PushCoverOut BY <2>9 DEF PushCoverOut
  <2>10. CASE PushUnlock   BY <2>10 DEF PushUnlock
  <2> QED BY <1>1, <2>1, <2>2, <2>3, <2>4, <2>5, <2>6, <2>7, <2>8, <2>9, <2>10 DEF Producer
<1>2. CASE Consumer
  <2>0. CASE GetCall      BY <2>0 DEF GetCall
  <2>1. CASE GetWait      BY <2>1 DEF GetWait
  <2>2. CASE PopTry       BY <2>2 DEF PopTry
  <2>3. CASE TakeRead     BY <2>3 DEF TakeRead
  <2>4. CASE TakeLock     BY <2>4 DEF TakeLock
  <2>5. CASE TakeReduce   BY <2>5, NotTheNewest DEF TakeReduce
  <2>6. CASE TakeEmpty    BY <2>6 DEF TakeEmpty
  <2>7. CASE Take         BY <2>7 DEF Take
  <2>8. CASE TakeUnlock   BY <2>8 DEF TakeUnlock
  <2> QED BY <1>2, <2>0, <2>1, <2>2, <2>3, <2>4, <2>5, <2>6, <2>7, <2>8 DEF Consumer
<1>3. CASE Release
  <2> PICK i \in held : releasebuffer(i)
    BY <1>3 DEF Release
  <2> QED BY DEF releasebuffer
<1>4. CASE UNCHANGED vars
  BY <1>4 DEF vars
<1> QED BY <1>1, <1>2, <1>3, <1>4 DEF Next

\* Until data is covered no token is to spare.
LEMMA ExactStep ==
  ASSUME "pop" \notin Calls, TypeRest, LockInv, RingInv, FifoInv, CountInv, TokenInv, ExactInv, [Next]_vars
  PROVE  ExactInv'
<1> SUFFICES ASSUME ~overflowed' PROVE cpc' # "empty" /\ Tokens' = Owed'
  BY DEF ExactInv
<1> FifoCore /\ ~overflowed /\ cpc # "empty" /\ Tokens = Owed
  BY OverflowStays DEF FifoInv, ExactInv
<1> USE SlotFacts, QueueAssumption DEF TypeRest, TokenInv, Tokens, Owed, On, MayCall, FifoCore,
        slotVars, prodVars, consVars, hist, PGoto, CGoto
<1>1. CASE Producer
  <2>1. CASE PushBegin    BY <2>1 DEF PushBegin
  <2>2. CASE PushLock     BY <2>2 DEF PushLock
  <2>3. CASE PushCopy     BY <2>3 DEF PushCopy
  <2>4. CASE PushLen      BY <2>4 DEF PushLen
  <2>5. CASE PushAddIn    BY <2>5 DEF PushAddIn
  <2>6. CASE PushPost     BY <2>6 DEF PushPost
  <2>7. CASE PushIncrease BY <2>7 DEF PushIncrease
  <2>8. CASE PushCover    BY <2>8 DEF PushCover
  <2>9. CASE PushCoverOut BY <2>9 DEF PushCoverOut
  <2>10. CASE PushUnlock   BY <2>10 DEF PushUnlock
  <2> QED BY <1>1, <2>1, <2>2, <2>3, <2>4, <2>5, <2>6, <2>7, <2>8, <2>9, <2>10 DEF Producer
<1>2. CASE Consumer
  <2>0. CASE GetCall      BY <2>0 DEF GetCall
  <2>1. CASE GetWait      BY <2>1 DEF GetWait
  <2>2. CASE PopTry       BY <2>2 DEF PopTry
  <2>3. CASE TakeRead     BY <2>3 DEF TakeRead
  <2>4. CASE TakeLock     BY <2>4 DEF TakeLock
  <2>5. CASE TakeReduce   BY <2>5, NotTheNewest DEF TakeReduce
  <2>6. CASE TakeEmpty    BY <2>6 DEF TakeEmpty
  <2>7. CASE Take         BY <2>7 DEF Take
  <2>8. CASE TakeUnlock   BY <2>8 DEF TakeUnlock
  <2> QED BY <1>2, <2>0, <2>1, <2>2, <2>3, <2>4, <2>5, <2>6, <2>7, <2>8 DEF Consumer
<1>3. CASE Release
  <2> PICK i \in held : releasebuffer(i)
    BY <1>3 DEF Release
  <2> QED BY DEF releasebuffer
<1>4. CASE UNCHANGED vars
  BY <1>4 DEF vars
<1> QED BY <1>1, <1>2, <1>3, <1>4 DEF Next

\* The frames are given out in the order of their serials.
LEMMA GivenStep ==
  ASSUME TypeRest, LockInv, WholeInv, RingInv, FifoInv, GivenInv, [Next]_vars
  PROVE  GivenInv'
<1> SUFFICES ASSUME ~overflowed', NEW i \in held' PROVE plen'[i] <= last'
  BY DEF GivenInv
<1> FifoCore /\ ~overflowed /\ \A j \in held : plen[j] <= last
  BY OverflowStays DEF FifoInv, GivenInv
<1> USE SlotFacts, QueueAssumption DEF TypeRest, slotVars, prodVars, consVars, hist, PGoto, CGoto
<1>1. CASE Producer
  <2>1. CASE PushBegin    BY <2>1 DEF PushBegin
  <2>2. CASE PushLock     BY <2>2 DEF PushLock
  <2>3. CASE PushCopy     BY <2>3 DEF PushCopy
  <2>4. CASE PushLen      BY <2>4 DEF PushLen
  <2>5. CASE PushAddIn    BY <2>5 DEF PushAddIn
  <2>6. CASE PushPost     BY <2>6 DEF PushPost
  <2>7. CASE PushIncrease BY <2>7 DEF PushIncrease
  <2>8. CASE PushCover    BY <2>8 DEF PushCover
  <2>9. CASE PushCoverOut BY <2>9 DEF PushCoverOut
  <2>10. CASE PushUnlock   BY <2>10 DEF PushUnlock
  <2> QED BY <1>1, <2>1, <2>2, <2>3, <2>4, <2>5, <2>6, <2>7, <2>8, <2>9, <2>10 DEF Producer
<1>2. CASE Consumer
  <2>0. CASE GetCall      BY <2>0 DEF GetCall
  <2>1. CASE GetWait      BY <2>1 DEF GetWait
  <2>2. CASE PopTry       BY <2>2 DEF PopTry
  <2>3. CASE TakeRead     BY <2>3 DEF TakeRead
  <2>4. CASE TakeLock     BY <2>4 DEF TakeLock
  <2>5. CASE TakeReduce   BY <2>5 DEF TakeReduce
  <2>6. CASE TakeEmpty    BY <2>6 DEF TakeEmpty
  <2>7. CASE Take
    <3>1. data[iout] = last + 1 /\ last' = last + 1
      BY <2>7, TakesNext DEF Take
    <3>2. datalen[iout] = data[iout]
      BY <2>7 DEF Take, WholeInv, LockInv, PushHolds, TakeHolds, P, C
    <3> QED BY <2>7, <3>1, <3>2 DEF Take
  <2>8. CASE TakeUnlock   BY <2>8 DEF TakeUnlock
  <2> QED BY <1>2, <2>0, <2>1, <2>2, <2>3, <2>4, <2>5, <2>6, <2>7, <2>8 DEF Consumer
<1>3. CASE Release
  <2> PICK k \in held : releasebuffer(k)
    BY <1>3 DEF Release
  <2> QED BY DEF releasebuffer
<1>4. CASE UNCHANGED vars
  BY <1>4 DEF vars
<1> QED BY <1>1, <1>2, <1>3, <1>4 DEF Next

LEMMA GetOnlyInvariant ==
  ASSUME "pop" \notin Calls
  PROVE  Spec => [](IInv /\ GInv)
<1>1. Init => GInv
  BY QueueAssumption DEF Init, GInv, OwnerInv, CountInv, Unsettled, TokenInv, ExactInv, Tokens, Owed,
                         On, GivenInv, Free, C
<1>2. IInv /\ GInv /\ [Next]_vars => GInv'
  <2> SUFFICES ASSUME IInv, GInv, [Next]_vars PROVE GInv'
    OBVIOUS
  <2>1. TypeRest
    BY TypeSplit DEF IInv
  <2> QED
    BY <2>1, OwnerStep, CountStep, TokenStep, ExactStep, GivenStep DEF IInv, GInv
<1> QED BY <1>1, <1>2, InitInv, Inductive, PTL DEF Spec

LEMMA Multiples ==
  ASSUME NEW n \in Nat \ {0}
  PROVE  /\ 0 % n = 0 /\ (-n) % n = 0 /\ (-(n + n)) % n = 0
         /\ (-(n + n + n)) % n = 0
OBVIOUS

\* Between the moves of the indices their distance is the number of frames
\* counted, whatever was covered and whatever the consumer had read before.
THEOREM IndicesAgree ==
  ASSUME "pop" \notin Calls
  PROVE  Spec => []CountMatchesIndices
<1>1. IInv /\ GInv => CountMatchesIndices
  <2> SUFFICES ASSUME TypeRest, CountInv,
                      ppc \in {"idle", "lock", "copy", "len", "in", "unlock"}, cpc # "take"
               PROVE  (mInindex - mOutindex - mEffectives) % maxFrames = 0
    BY TypeSplit DEF IInv, GInv, CountMatchesIndices
  <2> DEFINE d == mInindex - mOutindex - mEffectives
  <2>1. \/ d = 0 \/ d = -maxFrames \/ d = -(maxFrames + maxFrames)
        \/ d = -(maxFrames + maxFrames + maxFrames)
    BY QueueAssumption DEF TypeRest, CountInv, Unsettled, On, Slot
  <2> QED BY <2>1, Multiples, QueueAssumption
<1> QED BY <1>1, GetOnlyInvariant, PTL

\* A counted frame always has its token: getbuffer never sleeps on a frame.
THEOREM WakeupKept ==
  ASSUME "pop" \notin Calls
  PROVE  Spec => []NoLostWakeup
<1>1. IInv /\ GInv => NoLostWakeup
  BY TypeSplit DEF IInv, GInv, TypeRest, TokenInv, Tokens, Owed, On, NoLostWakeup
<1> QED BY <1>1, GetOnlyInvariant, PTL

\* While push waits it owns no slot, so who else waits, waits for the consumer.
LEMMA WhoWaits ==
  ASSUME TypeRest, LockInv, OwnerInv, PushWaits, ConsumerWaits
  PROVE  SelfLocked \/ (cpc = "wait" /\ iIn \in held)
<1>1. \A i \in Slot : mlock[i] # P
  BY DEF LockInv, PushHolds, PushWaits
<1>2. CASE cpc = "lock" /\ mlock[iout] # Free
  BY <1>1, <1>2 DEF SelfLocked, TypeRest, Free, P, C
<1>3. CASE cpc = "wait"
  BY <1>1, <1>3 DEF PushWaits, OwnerInv, TakeHolds, TypeRest, Free, P, C
<1> QED BY <1>2, <1>3 DEF ConsumerWaits

\* What a consumer risks that asks getbuffer for a frame while it keeps one: it
\* locks itself out only when a whole turn of the ring has covered its frame; and
\* when it and push both wait, then either it has locked itself out or it sleeps
\* in sem_wait and push waits for a frame it keeps.
THEOREM NeverStuck ==
  ASSUME "pop" \notin Calls
  PROVE  Spec => []NeverBlocked
<1>1. IInv /\ GInv => NoSelfLock
  <2> SUFFICES ASSUME IInv, GInv, SelfLocked, ~overflowed PROVE FALSE
    BY DEF NoSelfLock
  <2> TypeRest /\ FifoCore
    BY TypeSplit DEF IInv, FifoInv
  <2> USE QueueAssumption DEF TypeRest
  <2>1. cpc = "lock" /\ mlock[iout] = C /\ iout = mOutindex
    BY DEF SelfLocked, FifoCore
  <2>2. iout \in held
    BY <2>1 DEF GInv, OwnerInv, TakeHolds
  <2>3. plen[iout] <= last /\ data[iout] = plen[iout]
    BY <2>2 DEF GInv, GivenInv, IInv, FrameKept
  <2>4. Waiting >= 1
    BY <2>1 DEF GInv, ExactInv, Tokens, Owed, On, FifoCore, Waiting
  <2>5. ~(ppc \in PushHolds /\ iIn = mOutindex)
    BY <2>1 DEF IInv, LockInv, C, P
  <2>6. Waiting \in 1 .. maxFrames
    BY <2>4, <2>5 DEF PushHolds, FifoCore, Waiting
  <2>7. Age(mOutindex) = Waiting - 1
    BY <2>6 DEF Age, FifoCore, Slot, Waiting
  <2>8. data[mOutindex] = last + 1
    BY <2>5, <2>6, <2>7 DEF IInv, RingInv, PushHolds, Serial, Waiting
  <2> QED BY <2>1, <2>3, <2>8
<1>2. IInv /\ GInv => BlockedByKeptFrame
  BY TypeSplit, WhoWaits DEF IInv, GInv, BlockedByKeptFrame
<1> QED BY <1>1, <1>2, GetOnlyInvariant, PTL DEF NeverBlocked

\* A consumer that keeps no frame over a call asks for one with empty hands.
HandsEmpty == cpc # "idle" => held = {}

LEMMA NoneHeld ==
  ASSUME TypeRest, MaxHeld = 1, NEW c \in {"getbuffer", "pop"}, MayCall(c)
  PROVE  held = {}
<1>1. IsFiniteSet(held)
  <2>1. maxFrames - 1 \in Int /\ 0 \in Int
    BY QueueAssumption
  <2>2. IsFiniteSet(Slot)
    BY <2>1, FS_Interval, Zenon DEF Slot
  <2> QED BY <2>2, FS_Subset DEF TypeRest
<1>2. Cardinality(held) \in Nat /\ (Cardinality(held) = 0 <=> held = {})
  BY <1>1, FS_CardinalityType, FS_EmptySet
<1> QED BY <1>2 DEF MayCall

LEMMA HandsStep ==
  ASSUME MaxHeld = 1, TypeRest, HandsEmpty, [Next]_vars
  PROVE  HandsEmpty'
<1> USE DEF HandsEmpty, slotVars, prodVars, consVars, hist, PGoto, CGoto
<1>1. CASE Producer
  BY <1>1 DEF Producer, PushBegin, PushLock, PushCopy, PushLen, PushAddIn, PushPost,
              PushIncrease, PushCover, PushCoverOut, PushUnlock
<1>2. CASE Consumer
  <2>1. CASE GetCall
    BY <2>1, NoneHeld DEF GetCall
  <2>2. CASE PopTry
    BY <2>2, NoneHeld DEF PopTry
  <2>3. CASE Take
    BY <2>3 DEF Take
  <2>4. CASE Consumer /\ ~GetCall /\ ~PopTry /\ ~Take
    BY <2>4 DEF Consumer, GetWait, TakeRead, TakeLock, TakeReduce, TakeEmpty, TakeUnlock
  <2> QED BY <1>2, <2>1, <2>2, <2>3, <2>4
<1>3. CASE Release
  BY <1>3 DEF Release, releasebuffer
<1>4. CASE UNCHANGED vars
  BY <1>4 DEF vars
<1> QED BY <1>1, <1>2, <1>3, <1>4 DEF Next

\* A consumer that gives each frame back before it asks for the next, with
\* getbuffer or pop, never waits at the same time as push.
THEOREM OneFrameNeverBlocks ==
  ASSUME MaxHeld = 1
  PROVE  Spec => []NeverBothBlocked
<1> DEFINE Inv == IInv /\ OwnerInv /\ HandsEmpty
<1>1. Init => Inv
  BY InitInv DEF Init, OwnerInv, HandsEmpty, Free, C
<1>2. Inv /\ [Next]_vars => Inv'
  BY TypeSplit, Inductive, OwnerStep, HandsStep DEF IInv
<1>3. Inv => NeverBothBlocked
  <2> SUFFICES ASSUME IInv, OwnerInv, HandsEmpty, PushWaits, ConsumerWaits PROVE FALSE
    BY DEF NeverBothBlocked
  <2>1. TypeRest /\ held = {}
    BY TypeSplit DEF IInv, HandsEmpty, ConsumerWaits
  <2>2. (cpc = "wait" /\ iIn \in held) \/ SelfLocked
    BY <2>1, WhoWaits DEF IInv
  <2>3. CASE SelfLocked
    BY <2>1, <2>3 DEF SelfLocked, OwnerInv, TakeHolds, TypeRest
  <2> QED BY <2>1, <2>2, <2>3
<1> QED BY <1>1, <1>2, <1>3, PTL DEF Spec
=============================================================================
