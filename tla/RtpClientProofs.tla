-------------------------- MODULE RtpClientProofs --------------------------
(***************************************************************************)
(* Proofs about RtpClient for every size of the two queues and every       *)
(* number of requests: its types, that the shutdown never takes anything   *)
(* away from a running thread, and that the waits never close to a circle. *)
(***************************************************************************)
EXTENDS RtpClient, TLAPS

\* A slot is out only while its thread is between getbuffer and releasebuffer.
HeldInv ==
  /\ pQueNet.held # None => ppc \in {"push", "release"}
  /\ pQueH264.held # None => apc = "write"

Deleting == {"delete", "close", "deleteNet", "deleteH264", "done"}

\* How far the application has come tells which threads may still run, and
\* nothing is deleted while one does.
StageInv ==
  /\ apc = "setup" => created = {}
  /\ "read" \notin created => rpc = "none"
  /\ "parse" \notin created => ppc = "none"
  /\ apc = "joinParse" => rpc = "exit"
  /\ apc \in Deleting => rpc = "exit" /\ ppc = "exit"
  /\ apc \notin Deleting => {"socket", "pQueNet", "pQueH264"} \subseteq alive
  /\ apc \notin Deleting /\ ppc = "push" => "pRTPParse" \in alive

\* The provers treat the two Booleans apart from the rest.
FlagType == mbRead \in BOOLEAN /\ mbParse \in BOOLEAN
RestType ==
  /\ pQueNet \in Ring(NetFrames) /\ pQueH264 \in Ring(H264Frames)
  /\ socket \in Arrivals
  /\ rpc \in {"none", "check", "recv", "push", "exit"}
  /\ ppc \in {"none", "check", "wait", "push", "release", "exit"}
  /\ apc \in AppSteps
  /\ created \subseteq {"read", "parse"} /\ alive \subseteq Objects
  /\ requests \in 0 .. MaxRequests

LEMMA TypeSplit == TypeOK <=> FlagType /\ RestType
BY DEF TypeOK, FlagType, RestType

CInv == TypeOK /\ HeldInv /\ StageInv

LEMMA RingFacts ==
  ASSUME NEW n \in Nat \ {0}, NEW q \in Ring(n)
  PROVE  /\ Pushed(q, n) \in Ring(n)
         /\ CanGet(q) => Got(q, n) \in Ring(n)
         /\ Released(q) \in Ring(n)
         /\ EmptyRing \in Ring(n)
<1>1. \A i \in 0 .. n - 1 : Add(i, n) \in 0 .. n - 1
  BY DEF Add
<1>2. /\ q.in \in 0 .. n - 1 /\ q.out \in 0 .. n - 1
      /\ q.count \in 0 .. n /\ q.held \in (0 .. n - 1) \cup {None}
  BY DEF Ring
<1>3. Pushed(q, n) \in Ring(n)
  <2>1. (IF q.count = n THEN n ELSE q.count + 1) \in 0 .. n
    BY <1>2
  <2>2. (IF q.count = n THEN Add(q.out, n) ELSE q.out) \in 0 .. n - 1
    BY <1>1, <1>2
  <2>3. Add(q.in, n) \in 0 .. n - 1
    BY <1>1, <1>2
  <2> QED BY <2>1, <2>2, <2>3 DEF Pushed, Ring
<1>4. CanGet(q) => Got(q, n) \in Ring(n)
  <2> SUFFICES ASSUME CanGet(q) PROVE Got(q, n) \in Ring(n)
    OBVIOUS
  <2>1. q.count - 1 \in 0 .. n
    BY <1>2 DEF CanGet
  <2>2. Add(q.out, n) \in 0 .. n - 1
    BY <1>1, <1>2
  <2> QED BY <1>2, <2>1, <2>2 DEF Got, Ring
<1>5. Released(q) \in Ring(n)
  BY DEF Released, Ring
<1>6. EmptyRing \in Ring(n)
  BY DEF EmptyRing, Ring
<1> QED BY <1>3, <1>4, <1>5, <1>6

LEMMA RingHeld ==
  ASSUME NEW n \in Nat \ {0}, NEW q \in Ring(n)
  PROVE  Pushed(q, n).held = q.held /\ Released(q).held = None
BY DEF Ring, Pushed, Released

LEMMA ClientInit == Init => CInv
<1> SUFFICES ASSUME Init PROVE CInv
  OBVIOUS
<1> USE ClientAssumption DEF Init
<1>1. TypeOK
  <2>1. RestType
    BY DEF RestType, Ring, EmptyRing, AppSteps, Objects, Arrivals
  <2>2. FlagType
    BY DEF FlagType
  <2> QED BY <2>1, <2>2, TypeSplit
<1>2. HeldInv /\ StageInv
  BY DEF HeldInv, StageInv, EmptyRing, Deleting, Objects
<1> QED BY <1>1, <1>2 DEF CInv

LEMMA ClientFlags == FlagType /\ [Next]_vars => FlagType'
<1> SUFFICES ASSUME FlagType, [Next]_vars PROVE FlagType'
  OBVIOUS
<1> USE DEF FlagType, flags
<1>1. CASE Reader \/ Parser \/ Packet \/ Void
  BY <1>1 DEF Reader, ReadCheck, ReadRecv, ReadPush, Parser, ParseCheck, ParseGet,
              ParsePush, ParseRelease, Packet, Void, Arrive
<1>2. CASE Application
  BY <1>2 DEF Application, InitFails, rtp_start, rtp_requestFrameBuffer, rtp_releaseBuffer,
              LoopEnds, StopParse, StopRead, JoinRead, JoinParse, Deletes, Delete
<1>3. CASE UNCHANGED vars
  BY <1>3 DEF vars
<1> QED BY <1>1, <1>2, <1>3 DEF Next

LEMMA ClientTypes == RestType /\ [Next]_vars => RestType'
<1> SUFFICES ASSUME RestType, [Next]_vars PROVE RestType'
  OBVIOUS
<1> USE ClientAssumption, RingFacts DEF RestType, flags, AppSteps, Objects, Arrivals
<1>1. CASE Reader
  <2>1. CASE ReadCheck BY <2>1 DEF ReadCheck
  <2>2. CASE ReadRecv  BY <2>2 DEF ReadRecv
  <2>3. CASE ReadPush
    <3>1. pQueNet' \in Ring(NetFrames)
      BY <2>3 DEF ReadPush
    <3> QED BY <2>3, <3>1 DEF ReadPush
  <2> QED BY <1>1, <2>1, <2>2, <2>3 DEF Reader
<1>2. CASE Parser
  <2>1. CASE ParseCheck   BY <2>1 DEF ParseCheck
  <2>2. CASE ParseGet     BY <2>2 DEF ParseGet
  <2>3. CASE ParsePush    BY <2>3 DEF ParsePush
  <2>4. CASE ParseRelease BY <2>4 DEF ParseRelease
  <2> QED BY <1>2, <2>1, <2>2, <2>3, <2>4 DEF Parser
<1>3. CASE Application
  <2>1. CASE InitFails              BY <2>1 DEF InitFails
  <2>2. CASE rtp_start              BY <2>2 DEF rtp_start
  <2>3. CASE rtp_requestFrameBuffer BY <2>3 DEF rtp_requestFrameBuffer
  <2>4. CASE rtp_releaseBuffer      BY <2>4 DEF rtp_releaseBuffer
  <2>5. CASE LoopEnds               BY <2>5 DEF LoopEnds
  <2>6. CASE StopParse \/ StopRead  BY <2>6 DEF StopParse, StopRead
  <2>7. CASE JoinRead \/ JoinParse  BY <2>7 DEF JoinRead, JoinParse
  <2>8. CASE Deletes                BY <2>8 DEF Deletes, Delete
  <2> QED BY <1>3, <2>1, <2>2, <2>3, <2>4, <2>5, <2>6, <2>7, <2>8 DEF Application
<1>4. CASE Packet \/ Void
  BY <1>4 DEF Packet, Void, Arrive
<1>5. CASE UNCHANGED vars
  BY <1>5 DEF vars
<1> QED BY <1>1, <1>2, <1>3, <1>4, <1>5 DEF Next

LEMMA ClientHeld == RestType /\ HeldInv /\ StageInv /\ [Next]_vars => HeldInv'
<1> SUFFICES ASSUME RestType, HeldInv, StageInv, [Next]_vars PROVE HeldInv'
  OBVIOUS
<1> USE ClientAssumption, RingHeld DEF RestType, HeldInv, flags
<1>1. CASE Reader
  BY <1>1 DEF Reader, ReadCheck, ReadRecv, ReadPush
<1>2. CASE Parser
  BY <1>2 DEF Parser, ParseCheck, ParseGet, ParsePush, ParseRelease
<1>3. CASE Application
  <2>1. CASE InitFails              BY <2>1 DEF InitFails
  <2>2. CASE rtp_start              BY <2>2 DEF rtp_start, StageInv
  <2>3. CASE rtp_requestFrameBuffer BY <2>3 DEF rtp_requestFrameBuffer
  <2>4. CASE rtp_releaseBuffer      BY <2>4 DEF rtp_releaseBuffer
  <2>5. CASE LoopEnds               BY <2>5 DEF LoopEnds
  <2>6. CASE StopParse \/ StopRead  BY <2>6 DEF StopParse, StopRead
  <2>7. CASE JoinRead \/ JoinParse  BY <2>7 DEF JoinRead, JoinParse
  <2>8. CASE Deletes                BY <2>8 DEF Deletes, Delete
  <2> QED BY <1>3, <2>1, <2>2, <2>3, <2>4, <2>5, <2>6, <2>7, <2>8 DEF Application
<1>4. CASE Packet \/ Void
  BY <1>4 DEF Packet, Void, Arrive
<1>5. CASE UNCHANGED vars
  BY <1>5 DEF vars
<1> QED BY <1>1, <1>2, <1>3, <1>4, <1>5 DEF Next

LEMMA ClientStage == RestType /\ StageInv /\ [Next]_vars => StageInv'
<1> SUFFICES ASSUME RestType, StageInv, [Next]_vars PROVE StageInv'
  OBVIOUS
<1> USE DEF RestType, StageInv, Deleting, flags
<1>1. CASE Reader
  BY <1>1 DEF Reader, ReadCheck, ReadRecv, ReadPush
<1>2. CASE Parser
  BY <1>2 DEF Parser, ParseCheck, ParseGet, ParsePush, ParseRelease
<1>3. CASE Application
  <2>1. CASE InitFails              BY <2>1 DEF InitFails
  <2>2. CASE rtp_start              BY <2>2 DEF rtp_start
  <2>3. CASE rtp_requestFrameBuffer BY <2>3 DEF rtp_requestFrameBuffer
  <2>4. CASE rtp_releaseBuffer      BY <2>4 DEF rtp_releaseBuffer
  <2>5. CASE LoopEnds               BY <2>5 DEF LoopEnds
  <2>6. CASE StopParse \/ StopRead  BY <2>6 DEF StopParse, StopRead
  <2>7. CASE JoinRead \/ JoinParse  BY <2>7 DEF JoinRead, JoinParse
  <2>8. CASE Deletes                BY <2>8 DEF Deletes, Delete
  <2> QED BY <1>3, <2>1, <2>2, <2>3, <2>4, <2>5, <2>6, <2>7, <2>8 DEF Application
<1>4. CASE Packet \/ Void
  BY <1>4 DEF Packet, Void, Arrive
<1>5. CASE UNCHANGED vars
  BY <1>5 DEF vars
<1> QED BY <1>1, <1>2, <1>3, <1>4, <1>5 DEF Next

LEMMA ClientInvariant == Spec => []CInv
<1>1. CInv /\ [Next]_vars => CInv'
  <2> SUFFICES ASSUME CInv, [Next]_vars PROVE CInv'
    OBVIOUS
  <2>1. FlagType /\ RestType
    BY TypeSplit DEF CInv
  <2>2. FlagType' /\ RestType'
    BY <2>1, ClientFlags, ClientTypes
  <2>3. TypeOK'
    BY <2>2 DEF TypeOK, FlagType, RestType
  <2>4. HeldInv' /\ StageInv'
    BY <2>1, ClientHeld, ClientStage DEF CInv
  <2> QED BY <2>3, <2>4 DEF CInv
<1> QED BY <1>1, ClientInit, PTL DEF Spec

\* rtp_deinit deletes nothing a thread still uses.
THEOREM NothingUsedAfterDelete == Spec => []NoUseAfterDelete
<1>1. CInv => NoUseAfterDelete
  BY DEF CInv, TypeOK, HeldInv, StageInv, Deleting, NoUseAfterDelete
<1> QED BY <1>1, ClientInvariant, PTL

\* A thread held up by a full ring waits for a thread that is on its way to give
\* the slot back: no circle of waits.
THEOREM WaitsNeverClose == Spec => []NoCircularWait
<1>1. CInv => NoCircularWait
  <2> SUFFICES ASSUME CInv PROVE NoCircularWait
    OBVIOUS
  <2>1. pQueNet.in # None /\ pQueH264.in # None
    BY DEF CInv, TypeOK, Ring, None
  <2> QED BY <2>1 DEF CInv, HeldInv, NoCircularWait, CanPush
<1> QED BY <1>1, ClientInvariant, PTL
=============================================================================
