----------------------- MODULE ClientLifecycleProofs -----------------------
(***************************************************************************)
(* Proofs about ClientLifecycle for every set of descriptors, every number *)
(* of calls and every buffer size: used as its comments say, the client    *)
(* closes only what it opened, meets nothing undefined before its          *)
(* destructor, and holds exactly what its session needs.                   *)
(***************************************************************************)
EXTENDS ClientLifecycle, FiniteSetTheorems, TLAPS

Both == {"read", "parse"}

\* How far api_init has come, and whether it succeeded or gave up harmlessly.
SessionSteps == {"options", "describe", "rtp_init", "recvbuf", "getport", "setup", "play"}
BufferSteps == {"url", "connect"} \cup SessionSteps
InitSteps == {"log", "buffer"} \cup BufferSteps
StopSteps == {"fclose", "join", "rtp_deinit"}
RtpSteps == {"recvbuf", "getport", "setup", "play", "rtp_deinit"}
Between == pc = "idle" /\ open

\* A descriptor opened as who is the one the client keeps for it.
Keeps(who, fd) == \A f \in Fds : owner[f] = who <=> f = fd

\* The control steps a client used as intended can be at.
StepInv ==
  /\ pc \in InitSteps => open
  /\ pc \in StopSteps \cup {"deleted", "undefined", "blocked"} => ~open
  /\ pc # "killed"
  /\ pc = "undefined" => fControlPath = "unset"

\* Nothing was lost but tracks, and nothing of another owner was closed.
HistoryInv == ~foreign /\ leaked \subseteq {"fControlPath"}

\* The log is open from the first step of api_init to fclose.
LogInv ==
  /\ Keeps("log", fp_prot_log)
  /\ fp_prot_log # None <=> pc \in {"buffer"} \cup BufferSteps \cup {"fclose"} \/ Between

\* m_socket is a socket of the client from connect to api_deinit; before and
\* after that it may be a number of old.
TcpInv ==
  /\ IF pc \in SessionSteps \/ Between THEN Keeps("tcp", m_socket) ELSE Keeps("tcp", None)
  /\ pc \in SessionSteps \/ (Between /\ created # {}) => m_socket # None

\* Both threads run between calls and until they are joined, or none does.
ThreadInv ==
  /\ created = {} \/ created = Both
  /\ created # {} => Between \/ pc \in {"fclose", "join", "blocked"}
  /\ pc \in {"join", "blocked"} => created # {}

\* The UDP socket belongs to the cRTPClient, which exists while it is being set
\* up, while its threads run, and while it is taken down.
RtpHeld == pc \in RtpSteps \/ created # {}
UdpInv ==
  /\ Keeps("udp", udp)
  /\ udp # None => RtpHeld
  /\ pc \in {"setup", "play"} \/ created # {} => udp # None

HeapInv ==
  /\ "mSendbuf" \in heap \/ pc \in {"deleted", "undefined"}
  /\ "m_rtsp_buffer" \in heap <=> pc \in BufferSteps \cup {"fclose"} \/ Between
  /\ \A x \in RtpHeap : x \in heap <=> RtpHeld

CleanInv == StepInv /\ HistoryInv /\ LogInv /\ TcpInv /\ ThreadInv /\ UdpInv /\ HeapInv

IInv == TypeOK /\ (clean => CleanInv)

---------------------------------------------------------------------------
(* What the provers need to know of the operators.                         *)

\* A set of descriptors has a lowest one.
LEMMA MinOfSome ==
  ASSUME NEW S \in SUBSET Nat, S # {}
  PROVE  Min(S) \in S
<1>1. PICK a \in S : TRUE
  OBVIOUS
<1> DEFINE T == {0 .. x : x \in S \cap 0 .. a}
           R == StrictSubsetOrdering(0 .. a)
<1>2. IsWellFoundedOn(R, SUBSET (0 .. a))
  <2>1. IsFiniteSet(0 .. a)
    BY <1>1, FS_Interval
  <2>2. FiniteSubsetsOf(0 .. a) = SUBSET (0 .. a)
    BY <2>1, FS_FiniteSubsetsOfFinite
  <2> QED BY <2>2, FS_StrictSubsetOrderingWellFounded
<1>3. T # {} /\ T \subseteq SUBSET (0 .. a)
  BY <1>1
<1>4. PICK t \in T : \A u \in T : ~(<<u, t>> \in R)
  <2> HIDE DEF T, R
  <2> QED BY <1>2, <1>3, WFMin
<1>5. PICK x \in S \cap 0 .. a : t = 0 .. x
  BY <1>4
<1>6. \A y \in S : x =< y
  <2> SUFFICES ASSUME NEW y \in S, y < x PROVE FALSE
    BY <1>1, <1>5
  <2>1. 0 .. y \in T /\ 0 .. y \subseteq 0 .. x /\ 0 .. y # 0 .. x
    BY <1>1, <1>5
  <2>2. 0 .. y \subseteq 0 .. a /\ 0 .. x \subseteq 0 .. a
    BY <1>1, <1>5
  <2> QED BY <1>4, <1>5, <2>1, <2>2 DEF StrictSubsetOrdering
<1> QED BY <1>5, <1>6 DEF Min

\* The number open returns is one nobody has.
LEMMA LowestFree ==
  ASSUME Free # {}
  PROVE  Min(Free) \in Fds /\ owner[Min(Free)] = "free"
<1>1. Free \in SUBSET Nat
  BY LifecycleAssumption DEF Free
<1> QED BY <1>1, MinOfSome DEF Free

LEMMA NoneIsNoFd == None \notin Fds
BY LifecycleAssumption DEF None

\* Once the client was misused it stays so.
LEMMA CleanStays == [Next]_vars /\ clean' => clean
<1> SUFFICES ASSUME [Next]_vars, clean' PROVE clean
  OBVIOUS
<1> USE DEF hist, Fail
<1>1. CASE InCall
  <2>1. CASE OpenLog     BY <2>1 DEF OpenLog
  <2>2. CASE AllocBuffer BY <2>2 DEF AllocBuffer
  <2>3. CASE ParseUrl    BY <2>3 DEF ParseUrl
  <2>4. CASE Connect     BY <2>4 DEF Connect
  <2>5. CASE Options     BY <2>5 DEF Options
  <2>6. CASE Describe    BY <2>6 DEF Describe
  <2>7. CASE RtpInit     BY <2>7 DEF RtpInit
  <2>8. CASE Ask         BY <2>8 DEF Ask
  <2>9. CASE AskedEnough BY <2>9 DEF AskedEnough
  <2>10. CASE GetPort     BY <2>10 DEF GetPort
  <2>11. CASE Setup       BY <2>11 DEF Setup
  <2>12. CASE Play        BY <2>12 DEF Play
  <2>13. CASE CloseLog    BY <2>13 DEF CloseLog
  <2>14. CASE Join        BY <2>14 DEF Join
  <2>15. CASE RtpDeinit   BY <2>15 DEF RtpDeinit
  <2> QED BY <1>1, <2>1, <2>2, <2>3, <2>4, <2>5, <2>6, <2>7, <2>8,
            <2>9, <2>10, <2>11, <2>12, <2>13, <2>14, <2>15 DEF InCall
<1>2. CASE api_init     BY <1>2 DEF api_init
<1>3. CASE api_deinit   BY <1>3 DEF api_deinit
<1>4. CASE RequestFrame BY <1>4 DEF RequestFrame
<1>5. CASE Delete       BY <1>5 DEF Delete
<1>6. CASE AppOpens     BY <1>6 DEF AppOpens
<1>7. CASE AppCloses    BY <1>7 DEF AppCloses
<1>8. CASE Killed       BY <1>8 DEF Killed
<1>9. CASE UNCHANGED vars BY <1>9 DEF vars
<1> QED BY <1>1, <1>2, <1>3, <1>4, <1>5, <1>6, <1>7, <1>8, <1>9 DEF Next

---------------------------------------------------------------------------
(* Types *)

\* The provers treat the numbers and the one Boolean apart from the rest.
LoopType == requestedSize \in Nat /\ curSize \in Nat
CleanType == clean \in BOOLEAN
RestType ==
  /\ owner \in [Fds -> {"free", "tcp", "udp", "log", "app"}]
  /\ {m_socket, fp_prot_log, udp} \subseteq Fds \cup {None}
  /\ heap \subseteq {"mSendbuf", "m_rtsp_buffer"} \cup RtpHeap
  /\ created \subseteq {"read", "parse"}
  /\ fControlPath \in {"unset", "NULL", "track"}

LEMMA TypeSplit == TypeOK <=> LoopType /\ CleanType /\ RestType
BY DEF TypeOK, LoopType, CleanType, RestType

LEMMA LoopTypeStep == LoopType /\ [Next]_vars => LoopType'
<1> SUFFICES ASSUME LoopType, [Next]_vars PROVE LoopType'
  OBVIOUS
<1> USE LifecycleAssumption DEF LoopType, loop
<1>1. CASE InCall
  <2>1. CASE OpenLog     BY <2>1 DEF OpenLog
  <2>2. CASE AllocBuffer BY <2>2 DEF AllocBuffer
  <2>3. CASE ParseUrl    BY <2>3 DEF ParseUrl
  <2>4. CASE Connect     BY <2>4 DEF Connect
  <2>5. CASE Options     BY <2>5 DEF Options
  <2>6. CASE Describe    BY <2>6 DEF Describe
  <2>7. CASE RtpInit
    <3>1. requestedSize' = Requested /\ curSize' \in KernelSizes \cup {0}
      BY <2>7 DEF RtpInit
    <3> QED BY <3>1
  <2>8. CASE Ask         BY <2>8 DEF Ask
  <2>9. CASE AskedEnough BY <2>9 DEF AskedEnough
  <2>10. CASE GetPort     BY <2>10 DEF GetPort
  <2>11. CASE Setup       BY <2>11 DEF Setup
  <2>12. CASE Play        BY <2>12 DEF Play
  <2>13. CASE CloseLog    BY <2>13 DEF CloseLog
  <2>14. CASE Join        BY <2>14 DEF Join
  <2>15. CASE RtpDeinit   BY <2>15 DEF RtpDeinit
  <2> QED BY <1>1, <2>1, <2>2, <2>3, <2>4, <2>5, <2>6, <2>7, <2>8,
            <2>9, <2>10, <2>11, <2>12, <2>13, <2>14, <2>15 DEF InCall
<1>2. CASE api_init     BY <1>2 DEF api_init
<1>3. CASE api_deinit   BY <1>3 DEF api_deinit
<1>4. CASE RequestFrame BY <1>4 DEF RequestFrame
<1>5. CASE Delete       BY <1>5 DEF Delete
<1>6. CASE AppOpens     BY <1>6 DEF AppOpens
<1>7. CASE AppCloses    BY <1>7 DEF AppCloses
<1>8. CASE Killed       BY <1>8 DEF Killed
<1>9. CASE UNCHANGED vars BY <1>9 DEF vars
<1> QED BY <1>1, <1>2, <1>3, <1>4, <1>5, <1>6, <1>7, <1>8, <1>9 DEF Next

LEMMA CleanTypeStep == CleanType /\ [Next]_vars => CleanType'
<1> SUFFICES ASSUME CleanType, [Next]_vars PROVE CleanType'
  OBVIOUS
<1> USE DEF CleanType, hist, Fail
<1>1. CASE InCall
  <2>1. CASE OpenLog     BY <2>1 DEF OpenLog
  <2>2. CASE AllocBuffer BY <2>2 DEF AllocBuffer
  <2>3. CASE ParseUrl    BY <2>3 DEF ParseUrl
  <2>4. CASE Connect     BY <2>4 DEF Connect
  <2>5. CASE Options     BY <2>5 DEF Options
  <2>6. CASE Describe    BY <2>6 DEF Describe
  <2>7. CASE RtpInit     BY <2>7 DEF RtpInit
  <2>8. CASE Ask         BY <2>8 DEF Ask
  <2>9. CASE AskedEnough BY <2>9 DEF AskedEnough
  <2>10. CASE GetPort     BY <2>10 DEF GetPort
  <2>11. CASE Setup       BY <2>11 DEF Setup
  <2>12. CASE Play        BY <2>12 DEF Play
  <2>13. CASE CloseLog    BY <2>13 DEF CloseLog
  <2>14. CASE Join        BY <2>14 DEF Join
  <2>15. CASE RtpDeinit   BY <2>15 DEF RtpDeinit
  <2> QED BY <1>1, <2>1, <2>2, <2>3, <2>4, <2>5, <2>6, <2>7, <2>8,
            <2>9, <2>10, <2>11, <2>12, <2>13, <2>14, <2>15 DEF InCall
<1>2. CASE api_init     BY <1>2 DEF api_init
<1>3. CASE api_deinit   BY <1>3 DEF api_deinit
<1>4. CASE RequestFrame BY <1>4 DEF RequestFrame
<1>5. CASE Delete       BY <1>5 DEF Delete
<1>6. CASE AppOpens     BY <1>6 DEF AppOpens
<1>7. CASE AppCloses    BY <1>7 DEF AppCloses
<1>8. CASE Killed       BY <1>8 DEF Killed
<1>9. CASE UNCHANGED vars BY <1>9 DEF vars
<1> QED BY <1>1, <1>2, <1>3, <1>4, <1>5, <1>6, <1>7, <1>8, <1>9 DEF Next

LEMMA RestTypeStep == RestType /\ [Next]_vars => RestType'
<1> SUFFICES ASSUME RestType, [Next]_vars PROVE RestType'
  OBVIOUS
<1> USE LowestFree DEF RestType, RtpHeap, fdVars, Goto, Fail, Opened, Close
<1>1. CASE InCall
  <2>1. CASE OpenLog     BY <2>1 DEF OpenLog
  <2>2. CASE AllocBuffer BY <2>2 DEF AllocBuffer
  <2>3. CASE ParseUrl    BY <2>3 DEF ParseUrl
  <2>4. CASE Connect     BY <2>4 DEF Connect
  <2>5. CASE Options     BY <2>5 DEF Options
  <2>6. CASE Describe    BY <2>6 DEF Describe
  <2>7. CASE RtpInit     BY <2>7 DEF RtpInit
  <2>8. CASE Ask         BY <2>8 DEF Ask
  <2>9. CASE AskedEnough BY <2>9 DEF AskedEnough
  <2>10. CASE GetPort     BY <2>10 DEF GetPort
  <2>11. CASE Setup       BY <2>11 DEF Setup
  <2>12. CASE Play        BY <2>12 DEF Play
  <2>13. CASE CloseLog    BY <2>13 DEF CloseLog
  <2>14. CASE Join        BY <2>14 DEF Join
  <2>15. CASE RtpDeinit   BY <2>15 DEF RtpDeinit
  <2> QED BY <1>1, <2>1, <2>2, <2>3, <2>4, <2>5, <2>6, <2>7, <2>8,
            <2>9, <2>10, <2>11, <2>12, <2>13, <2>14, <2>15 DEF InCall
<1>2. CASE api_init     BY <1>2 DEF api_init
<1>3. CASE api_deinit   BY <1>3 DEF api_deinit
<1>4. CASE RequestFrame BY <1>4 DEF RequestFrame
<1>5. CASE Delete       BY <1>5 DEF Delete
<1>6. CASE AppOpens     BY <1>6 DEF AppOpens
<1>7. CASE AppCloses    BY <1>7 DEF AppCloses
<1>8. CASE Killed       BY <1>8 DEF Killed
<1>9. CASE UNCHANGED vars BY <1>9 DEF vars
<1> QED BY <1>1, <1>2, <1>3, <1>4, <1>5, <1>6, <1>7, <1>8, <1>9 DEF Next

---------------------------------------------------------------------------
(* One lemma for each part of the invariant. *)

\* Undefined behaviour waits only for the destructor.
LEMMA StepInvStep == RestType /\ StepInv /\ LogInv /\ ThreadInv /\ HeapInv /\ [Next]_vars /\ clean' => StepInv'
<1> SUFFICES ASSUME RestType, StepInv, LogInv, ThreadInv, HeapInv, [Next]_vars, clean' PROVE StepInv'
  OBVIOUS
<1> clean
  BY CleanStays
<1> USE DEF StepInv, LogInv, ThreadInv, HeapInv, RtpHeld, RtpHeap, Both, Between,
        InitSteps, BufferSteps, SessionSteps, StopSteps, RtpSteps,
        fdVars, loop, hist, Goto, Fail, Opened, Close, Allocate
<1>1. CASE InCall
  <2>1. CASE OpenLog     BY <2>1 DEF OpenLog
  <2>2. CASE AllocBuffer BY <2>2 DEF AllocBuffer
  <2>3. CASE ParseUrl    BY <2>3 DEF ParseUrl
  <2>4. CASE Connect     BY <2>4 DEF Connect
  <2>5. CASE Options     BY <2>5 DEF Options
  <2>6. CASE Describe    BY <2>6 DEF Describe
  <2>7. CASE RtpInit     BY <2>7 DEF RtpInit
  <2>8. CASE Ask         BY <2>8 DEF Ask
  <2>9. CASE AskedEnough BY <2>9 DEF AskedEnough
  <2>10. CASE GetPort     BY <2>10 DEF GetPort
  <2>11. CASE Setup       BY <2>11 DEF Setup
  <2>12. CASE Play        BY <2>12 DEF Play
  <2>13. CASE CloseLog    BY <2>13 DEF CloseLog
  <2>14. CASE Join        BY <2>14 DEF Join
  <2>15. CASE RtpDeinit   BY <2>15 DEF RtpDeinit
  <2> QED BY <1>1, <2>1, <2>2, <2>3, <2>4, <2>5, <2>6, <2>7, <2>8,
            <2>9, <2>10, <2>11, <2>12, <2>13, <2>14, <2>15 DEF InCall
<1>2. CASE api_init     BY <1>2 DEF api_init
<1>3. CASE api_deinit   BY <1>3 DEF api_deinit
<1>4. CASE RequestFrame BY <1>4 DEF RequestFrame
<1>5. CASE Delete       BY <1>5 DEF Delete
<1>6. CASE AppOpens     BY <1>6 DEF AppOpens
<1>7. CASE AppCloses    BY <1>7 DEF AppCloses
<1>8. CASE Killed       BY <1>8 DEF Killed
<1>9. CASE UNCHANGED vars BY <1>9 DEF vars
<1> QED BY <1>1, <1>2, <1>3, <1>4, <1>5, <1>6, <1>7, <1>8, <1>9 DEF Next

\* What is closed is owned, and what is overwritten is empty.
LEMMA HistoryInvStep == RestType /\ HistoryInv /\ StepInv /\ LogInv /\ TcpInv /\ ThreadInv /\ UdpInv /\ HeapInv /\ [Next]_vars /\ clean' => HistoryInv'
<1> SUFFICES ASSUME RestType, HistoryInv, StepInv, LogInv, TcpInv, ThreadInv, UdpInv, HeapInv, [Next]_vars, clean' PROVE HistoryInv'
  OBVIOUS
<1> clean
  BY CleanStays
<1> USE NoneIsNoFd DEF RestType, HistoryInv, StepInv, LogInv, TcpInv, ThreadInv, UdpInv, HeapInv, Keeps, RtpHeld, RtpHeap,
        Both, Between, InitSteps, BufferSteps, SessionSteps, StopSteps, RtpSteps,
        fdVars, loop, hist, Goto, Fail, Opened, Close, Allocate
<1>1. CASE InCall
  <2>1. CASE OpenLog     BY <2>1 DEF OpenLog
  <2>2. CASE AllocBuffer BY <2>2 DEF AllocBuffer
  <2>3. CASE ParseUrl    BY <2>3 DEF ParseUrl
  <2>4. CASE Connect     BY <2>4 DEF Connect
  <2>5. CASE Options     BY <2>5 DEF Options
  <2>6. CASE Describe    BY <2>6 DEF Describe
  <2>7. CASE RtpInit     BY <2>7 DEF RtpInit
  <2>8. CASE Ask         BY <2>8 DEF Ask
  <2>9. CASE AskedEnough BY <2>9 DEF AskedEnough
  <2>10. CASE GetPort     BY <2>10 DEF GetPort
  <2>11. CASE Setup
    <3>1. UNCHANGED <<foreign, leaked>>
      BY <2>11 DEF Setup
    <3> QED BY <3>1
  <2>12. CASE Play        BY <2>12 DEF Play
  <2>13. CASE CloseLog    BY <2>13 DEF CloseLog
  <2>14. CASE Join        BY <2>14 DEF Join
  <2>15. CASE RtpDeinit   BY <2>15 DEF RtpDeinit
  <2> QED BY <1>1, <2>1, <2>2, <2>3, <2>4, <2>5, <2>6, <2>7, <2>8,
            <2>9, <2>10, <2>11, <2>12, <2>13, <2>14, <2>15 DEF InCall
<1>2. CASE api_init     BY <1>2 DEF api_init
<1>3. CASE api_deinit   BY <1>3 DEF api_deinit
<1>4. CASE RequestFrame BY <1>4 DEF RequestFrame
<1>5. CASE Delete       BY <1>5 DEF Delete
<1>6. CASE AppOpens     BY <1>6 DEF AppOpens
<1>7. CASE AppCloses    BY <1>7 DEF AppCloses
<1>8. CASE Killed       BY <1>8 DEF Killed
<1>9. CASE UNCHANGED vars BY <1>9 DEF vars
<1> QED BY <1>1, <1>2, <1>3, <1>4, <1>5, <1>6, <1>7, <1>8, <1>9 DEF Next

\* The log is opened once and closed once.
LEMMA LogInvStep == RestType /\ StepInv /\ LogInv /\ TcpInv /\ ThreadInv /\ UdpInv /\ HeapInv /\ [Next]_vars /\ clean' => LogInv'
<1> SUFFICES ASSUME RestType, StepInv, LogInv, TcpInv, ThreadInv, UdpInv, HeapInv, [Next]_vars, clean' PROVE LogInv'
  OBVIOUS
<1> clean
  BY CleanStays
<1> USE NoneIsNoFd, LowestFree DEF RestType, StepInv, LogInv, TcpInv, ThreadInv, UdpInv, HeapInv, Keeps, RtpHeld, RtpHeap, Both, Between,
        InitSteps, BufferSteps, SessionSteps, StopSteps, RtpSteps,
        fdVars, loop, hist, Goto, Fail, Opened, Close, Allocate
<1>1. CASE InCall
  <2>1. CASE OpenLog     BY <2>1, ZenonT(60) DEF OpenLog
  <2>2. CASE AllocBuffer BY <2>2 DEF AllocBuffer
  <2>3. CASE ParseUrl    BY <2>3 DEF ParseUrl
  <2>4. CASE Connect     BY <2>4 DEF Connect
  <2>5. CASE Options     BY <2>5 DEF Options
  <2>6. CASE Describe    BY <2>6 DEF Describe
  <2>7. CASE RtpInit     BY <2>7 DEF RtpInit
  <2>8. CASE Ask         BY <2>8 DEF Ask
  <2>9. CASE AskedEnough BY <2>9 DEF AskedEnough
  <2>10. CASE GetPort     BY <2>10 DEF GetPort
  <2>11. CASE Setup       BY <2>11 DEF Setup
  <2>12. CASE Play        BY <2>12 DEF Play
  <2>13. CASE CloseLog    BY <2>13 DEF CloseLog
  <2>14. CASE Join        BY <2>14 DEF Join
  <2>15. CASE RtpDeinit   BY <2>15 DEF RtpDeinit
  <2> QED BY <1>1, <2>1, <2>2, <2>3, <2>4, <2>5, <2>6, <2>7, <2>8,
            <2>9, <2>10, <2>11, <2>12, <2>13, <2>14, <2>15 DEF InCall
<1>2. CASE api_init     BY <1>2 DEF api_init
<1>3. CASE api_deinit   BY <1>3 DEF api_deinit
<1>4. CASE RequestFrame BY <1>4 DEF RequestFrame
<1>5. CASE Delete       BY <1>5 DEF Delete
<1>6. CASE AppOpens     BY <1>6 DEF AppOpens
<1>7. CASE AppCloses    BY <1>7 DEF AppCloses
<1>8. CASE Killed       BY <1>8 DEF Killed
<1>9. CASE UNCHANGED vars BY <1>9 DEF vars
<1> QED BY <1>1, <1>2, <1>3, <1>4, <1>5, <1>6, <1>7, <1>8, <1>9 DEF Next

\* A new connection takes the place of none.
LEMMA TcpInvStep == RestType /\ StepInv /\ LogInv /\ TcpInv /\ ThreadInv /\ UdpInv /\ HeapInv /\ [Next]_vars /\ clean' => TcpInv'
<1> SUFFICES ASSUME RestType, StepInv, LogInv, TcpInv, ThreadInv, UdpInv, HeapInv, [Next]_vars, clean' PROVE TcpInv'
  OBVIOUS
<1> clean
  BY CleanStays
<1> USE NoneIsNoFd, LowestFree DEF RestType, StepInv, LogInv, TcpInv, ThreadInv, UdpInv, HeapInv, Keeps, RtpHeld, RtpHeap, Both, Between,
        InitSteps, BufferSteps, SessionSteps, StopSteps, RtpSteps,
        fdVars, loop, hist, Goto, Fail, Opened, Close, Allocate
<1>1. CASE InCall
  <2>1. CASE OpenLog     BY <2>1 DEF OpenLog
  <2>2. CASE AllocBuffer BY <2>2 DEF AllocBuffer
  <2>3. CASE ParseUrl    BY <2>3 DEF ParseUrl
  <2>4. CASE Connect     BY <2>4, ZenonT(60) DEF Connect
  <2>5. CASE Options     BY <2>5 DEF Options
  <2>6. CASE Describe    BY <2>6 DEF Describe
  <2>7. CASE RtpInit     BY <2>7 DEF RtpInit
  <2>8. CASE Ask         BY <2>8 DEF Ask
  <2>9. CASE AskedEnough BY <2>9 DEF AskedEnough
  <2>10. CASE GetPort     BY <2>10 DEF GetPort
  <2>11. CASE Setup       BY <2>11 DEF Setup
  <2>12. CASE Play        BY <2>12 DEF Play
  <2>13. CASE CloseLog    BY <2>13 DEF CloseLog
  <2>14. CASE Join        BY <2>14 DEF Join
  <2>15. CASE RtpDeinit   BY <2>15 DEF RtpDeinit
  <2> QED BY <1>1, <2>1, <2>2, <2>3, <2>4, <2>5, <2>6, <2>7, <2>8,
            <2>9, <2>10, <2>11, <2>12, <2>13, <2>14, <2>15 DEF InCall
<1>2. CASE api_init     BY <1>2 DEF api_init
<1>3. CASE api_deinit   BY <1>3 DEF api_deinit
<1>4. CASE RequestFrame BY <1>4 DEF RequestFrame
<1>5. CASE Delete       BY <1>5 DEF Delete
<1>6. CASE AppOpens     BY <1>6 DEF AppOpens
<1>7. CASE AppCloses    BY <1>7 DEF AppCloses
<1>8. CASE Killed       BY <1>8 DEF Killed
<1>9. CASE UNCHANGED vars BY <1>9 DEF vars
<1> QED BY <1>1, <1>2, <1>3, <1>4, <1>5, <1>6, <1>7, <1>8, <1>9 DEF Next

\* A harmless failure comes before the threads.
LEMMA ThreadInvStep == RestType /\ StepInv /\ LogInv /\ TcpInv /\ ThreadInv /\ UdpInv /\ HeapInv /\ [Next]_vars /\ clean' => ThreadInv'
<1> SUFFICES ASSUME RestType, StepInv, LogInv, TcpInv, ThreadInv, UdpInv, HeapInv, [Next]_vars, clean' PROVE ThreadInv'
  OBVIOUS
<1> clean
  BY CleanStays
<1> USE DEF RestType, StepInv, LogInv, TcpInv, ThreadInv, UdpInv, HeapInv, Keeps, RtpHeld, RtpHeap, Both, Between,
        InitSteps, BufferSteps, SessionSteps, StopSteps, RtpSteps,
        fdVars, loop, hist, Goto, Fail, Opened, Close, Allocate
<1>1. CASE InCall
  <2>1. CASE OpenLog     BY <2>1 DEF OpenLog
  <2>2. CASE AllocBuffer BY <2>2 DEF AllocBuffer
  <2>3. CASE ParseUrl    BY <2>3 DEF ParseUrl
  <2>4. CASE Connect     BY <2>4 DEF Connect
  <2>5. CASE Options     BY <2>5 DEF Options
  <2>6. CASE Describe    BY <2>6 DEF Describe
  <2>7. CASE RtpInit     BY <2>7 DEF RtpInit
  <2>8. CASE Ask         BY <2>8 DEF Ask
  <2>9. CASE AskedEnough BY <2>9 DEF AskedEnough
  <2>10. CASE GetPort     BY <2>10 DEF GetPort
  <2>11. CASE Setup       BY <2>11 DEF Setup
  <2>12. CASE Play        BY <2>12 DEF Play
  <2>13. CASE CloseLog    BY <2>13 DEF CloseLog
  <2>14. CASE Join        BY <2>14 DEF Join
  <2>15. CASE RtpDeinit   BY <2>15 DEF RtpDeinit
  <2> QED BY <1>1, <2>1, <2>2, <2>3, <2>4, <2>5, <2>6, <2>7, <2>8,
            <2>9, <2>10, <2>11, <2>12, <2>13, <2>14, <2>15 DEF InCall
<1>2. CASE api_init     BY <1>2 DEF api_init
<1>3. CASE api_deinit   BY <1>3 DEF api_deinit
<1>4. CASE RequestFrame BY <1>4 DEF RequestFrame
<1>5. CASE Delete       BY <1>5 DEF Delete
<1>6. CASE AppOpens     BY <1>6 DEF AppOpens
<1>7. CASE AppCloses    BY <1>7 DEF AppCloses
<1>8. CASE Killed       BY <1>8 DEF Killed
<1>9. CASE UNCHANGED vars BY <1>9 DEF vars
<1> QED BY <1>1, <1>2, <1>3, <1>4, <1>5, <1>6, <1>7, <1>8, <1>9 DEF Next

\* The UDP socket goes with the cRTPClient.
LEMMA UdpInvStep == RestType /\ StepInv /\ LogInv /\ TcpInv /\ ThreadInv /\ UdpInv /\ HeapInv /\ [Next]_vars /\ clean' => UdpInv'
<1> SUFFICES ASSUME RestType, StepInv, LogInv, TcpInv, ThreadInv, UdpInv, HeapInv, [Next]_vars, clean' PROVE UdpInv'
  OBVIOUS
<1> clean
  BY CleanStays
<1> USE NoneIsNoFd, LowestFree DEF RestType, StepInv, LogInv, TcpInv, ThreadInv, UdpInv, HeapInv, Keeps, RtpHeld, RtpHeap, Both, Between,
        InitSteps, BufferSteps, SessionSteps, StopSteps, RtpSteps,
        fdVars, loop, hist, Goto, Fail, Opened, Close, Allocate
<1>1. CASE InCall
  <2>1. CASE OpenLog     BY <2>1 DEF OpenLog
  <2>2. CASE AllocBuffer BY <2>2 DEF AllocBuffer
  <2>3. CASE ParseUrl    BY <2>3 DEF ParseUrl
  <2>4. CASE Connect     BY <2>4 DEF Connect
  <2>5. CASE Options     BY <2>5 DEF Options
  <2>6. CASE Describe    BY <2>6 DEF Describe
  <2>7. CASE RtpInit     BY <2>7 DEF RtpInit
  <2>8. CASE Ask         BY <2>8 DEF Ask
  <2>9. CASE AskedEnough BY <2>9 DEF AskedEnough
  <2>10. CASE GetPort     BY <2>10 DEF GetPort
  <2>11. CASE Setup       BY <2>11 DEF Setup
  <2>12. CASE Play        BY <2>12 DEF Play
  <2>13. CASE CloseLog    BY <2>13 DEF CloseLog
  <2>14. CASE Join        BY <2>14 DEF Join
  <2>15. CASE RtpDeinit   BY <2>15 DEF RtpDeinit
  <2> QED BY <1>1, <2>1, <2>2, <2>3, <2>4, <2>5, <2>6, <2>7, <2>8,
            <2>9, <2>10, <2>11, <2>12, <2>13, <2>14, <2>15 DEF InCall
<1>2. CASE api_init     BY <1>2 DEF api_init
<1>3. CASE api_deinit   BY <1>3 DEF api_deinit
<1>4. CASE RequestFrame BY <1>4 DEF RequestFrame
<1>5. CASE Delete       BY <1>5 DEF Delete
<1>6. CASE AppOpens     BY <1>6 DEF AppOpens
<1>7. CASE AppCloses    BY <1>7 DEF AppCloses
<1>8. CASE Killed       BY <1>8 DEF Killed
<1>9. CASE UNCHANGED vars BY <1>9 DEF vars
<1> QED BY <1>1, <1>2, <1>3, <1>4, <1>5, <1>6, <1>7, <1>8, <1>9 DEF Next

\* What api_init and rtp_init allocate is freed by api_deinit.
LEMMA HeapInvStep == RestType /\ StepInv /\ LogInv /\ TcpInv /\ ThreadInv /\ UdpInv /\ HeapInv /\ [Next]_vars /\ clean' => HeapInv'
<1> SUFFICES ASSUME RestType, StepInv, LogInv, TcpInv, ThreadInv, UdpInv, HeapInv, [Next]_vars, clean' PROVE HeapInv'
  OBVIOUS
<1> clean
  BY CleanStays
<1> USE DEF RestType, StepInv, LogInv, TcpInv, ThreadInv, UdpInv, HeapInv, Keeps, RtpHeld, RtpHeap, Both, Between,
        InitSteps, BufferSteps, SessionSteps, StopSteps, RtpSteps,
        fdVars, loop, hist, Goto, Fail, Opened, Close, Allocate
<1>1. CASE InCall
  <2>1. CASE OpenLog     BY <2>1 DEF OpenLog
  <2>2. CASE AllocBuffer BY <2>2 DEF AllocBuffer
  <2>3. CASE ParseUrl    BY <2>3 DEF ParseUrl
  <2>4. CASE Connect     BY <2>4 DEF Connect
  <2>5. CASE Options     BY <2>5 DEF Options
  <2>6. CASE Describe    BY <2>6 DEF Describe
  <2>7. CASE RtpInit     BY <2>7 DEF RtpInit
  <2>8. CASE Ask         BY <2>8 DEF Ask
  <2>9. CASE AskedEnough BY <2>9 DEF AskedEnough
  <2>10. CASE GetPort     BY <2>10 DEF GetPort
  <2>11. CASE Setup       BY <2>11 DEF Setup
  <2>12. CASE Play        BY <2>12 DEF Play
  <2>13. CASE CloseLog    BY <2>13 DEF CloseLog
  <2>14. CASE Join        BY <2>14 DEF Join
  <2>15. CASE RtpDeinit   BY <2>15 DEF RtpDeinit
  <2> QED BY <1>1, <2>1, <2>2, <2>3, <2>4, <2>5, <2>6, <2>7, <2>8,
            <2>9, <2>10, <2>11, <2>12, <2>13, <2>14, <2>15 DEF InCall
<1>2. CASE api_init     BY <1>2 DEF api_init
<1>3. CASE api_deinit   BY <1>3 DEF api_deinit
<1>4. CASE RequestFrame BY <1>4 DEF RequestFrame
<1>5. CASE Delete       BY <1>5 DEF Delete
<1>6. CASE AppOpens     BY <1>6 DEF AppOpens
<1>7. CASE AppCloses    BY <1>7 DEF AppCloses
<1>8. CASE Killed       BY <1>8 DEF Killed
<1>9. CASE UNCHANGED vars BY <1>9 DEF vars
<1> QED BY <1>1, <1>2, <1>3, <1>4, <1>5, <1>6, <1>7, <1>8, <1>9 DEF Next

---------------------------------------------------------------------------
(* The theorems *)

LEMMA InitInv == Init => IInv
<1> SUFFICES ASSUME Init PROVE IInv
  OBVIOUS
<1> USE NoneIsNoFd DEF Init
<1>1. TypeOK
  <2>1. RestType
    BY DEF RestType
  <2> QED BY <2>1, TypeSplit DEF LoopType, CleanType
<1>2. StepInv /\ HistoryInv /\ LogInv
  BY DEF StepInv, HistoryInv, LogInv, Keeps, InitSteps, BufferSteps, SessionSteps, StopSteps, Between
<1>3. TcpInv /\ ThreadInv /\ UdpInv /\ HeapInv
  BY DEF TcpInv, ThreadInv, UdpInv, HeapInv, Keeps, RtpHeld, RtpHeap, BufferSteps, SessionSteps,
         RtpSteps, Between
<1> QED BY <1>1, <1>2, <1>3 DEF IInv, CleanInv

LEMMA Inductive == IInv /\ [Next]_vars => IInv'
<1> SUFFICES ASSUME IInv, [Next]_vars PROVE IInv'
  OBVIOUS
<1>1. LoopType /\ CleanType /\ RestType
  BY TypeSplit DEF IInv
<1>2. TypeOK'
  BY <1>1, LoopTypeStep, CleanTypeStep, RestTypeStep DEF TypeOK, LoopType, CleanType, RestType
<1>3. ASSUME clean' PROVE CleanInv'
  <2>1. CleanInv
    BY <1>3, CleanStays DEF IInv
  <2>2. StepInv' /\ HistoryInv' /\ LogInv'
    BY <1>1, <1>3, <2>1, StepInvStep, HistoryInvStep, LogInvStep DEF CleanInv
  <2>3. TcpInv' /\ ThreadInv' /\ UdpInv' /\ HeapInv'
    BY <1>1, <1>3, <2>1, TcpInvStep, ThreadInvStep, UdpInvStep, HeapInvStep DEF CleanInv
  <2> QED BY <2>2, <2>3 DEF CleanInv
<1> QED BY <1>2, <1>3 DEF IInv

LEMMA Invariant == Spec => []IInv
BY InitInv, Inductive, PTL DEF Spec

\* A client used as intended never closes a descriptor that is not its own,
\* although it keeps numbers of descriptors closed long ago and the rest of the
\* process opens them anew.
THEOREM ClosesOnlyItsOwn == Spec => []ClosesOwn
<1>1. IInv => ClosesOwn
  BY DEF IInv, CleanInv, HistoryInv, ClosesOwn
<1> QED BY <1>1, Invariant, PTL

\* Such a client reaches no undefined step before its destructor, and there only
\* without a DESCRIBE reply; and of its calls only the api_deinit of a session with
\* both threads running may wait for good.
THEOREM DefinedBehaviour == Spec => []DefinedWhenClean
<1>1. IInv => DefinedWhenClean
  BY DEF IInv, CleanInv, StepInv, ThreadInv, Both, DefinedWhenClean
<1> QED BY <1>1, Invariant, PTL

\* Between calls such a client holds the two sockets, the log and the threads of
\* its session under three different numbers, and after api_deinit nothing; only
\* the tracks of earlier sessions are lost.
THEOREM ClientHoldsItsOwn == Spec => []HoldsItsOwn
<1>1. IInv => TypeOK /\ OnlyTracksLeak
  BY DEF IInv, CleanInv, HistoryInv, OnlyTracksLeak
<1>2. IInv => AllReleased
  <2> SUFFICES ASSUME IInv, clean, pc = "idle", ~open
               PROVE  /\ \A f \in Fds : owner[f] \in {"free", "app"}
                      /\ heap = {"mSendbuf"} /\ created = {}
    BY DEF AllReleased
  <2> RestType /\ CleanInv
    BY TypeSplit DEF IInv
  <2>1. created = {} /\ ~RtpHeld
    BY DEF CleanInv, ThreadInv, RtpHeld, Between, RtpSteps
  <2>2. heap = {"mSendbuf"}
    BY <2>1 DEF RestType, CleanInv, HeapInv, Between, BufferSteps, SessionSteps
  <2>3. fp_prot_log = None /\ udp = None
    BY <2>1 DEF CleanInv, LogInv, UdpInv, Between, BufferSteps, SessionSteps
  <2>4. \A f \in Fds : owner[f] \in {"free", "app"}
    BY <2>3, NoneIsNoFd
       DEF RestType, CleanInv, LogInv, TcpInv, UdpInv, Keeps, Between, SessionSteps
  <2> QED BY <2>1, <2>2, <2>4
<1>3. IInv => SessionSound
  <2> SUFFICES ASSUME IInv, clean, pc = "idle", created # {}
               PROVE  /\ created = {"read", "parse"}
                      /\ owner[m_socket] = "tcp" /\ owner[udp] = "udp" /\ owner[fp_prot_log] = "log"
    BY DEF SessionSound
  <2> RestType /\ CleanInv
    BY TypeSplit DEF IInv
  <2>1. Between /\ created = Both
    BY DEF CleanInv, ThreadInv, Between
  <2>2. m_socket \in Fds /\ udp \in Fds /\ fp_prot_log \in Fds
    BY <2>1 DEF RestType, CleanInv, LogInv, TcpInv, UdpInv
  <2> QED BY <2>1, <2>2 DEF CleanInv, LogInv, TcpInv, UdpInv, Keeps, Both
<1>4. IInv => HoldsItsOwn
  BY <1>1, <1>2, <1>3 DEF HoldsItsOwn
<1> QED BY <1>4, Invariant, PTL
=============================================================================
