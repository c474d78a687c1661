------------------------- MODULE RtspSessionProofs -------------------------
(***************************************************************************)
(* Proofs about RtspSession for every number of reads, every set of ports  *)
(* and every number of sessions: no reply is taken for that of another     *)
(* request, however late replies arrive, nothing of an earlier session is  *)
(* sent, and api_init fails only for a reason.                             *)
(***************************************************************************)
EXTENDS RtspSession, SequenceTheorems, TLAPS

Request == [method : Methods \cup {"none"}, cseq : Nat, path : 0 .. MaxInits,
            port : Int, session : 0 .. MaxInits]
Item == [part : {"status", "cseq", "fields", "body"}, cseq : Nat, code : {200, 404}]

\* The rest of the reply stream: what the request in progress has read and may
\* still read.
Stream == IF reading THEN m_rtsp_buffer \o (inbox \o wire) ELSE inbox \o wire

\* The number of the last request written.
Newest == IF reading THEN m_cseq ELSE m_cseq - 1

SeqInv ==
  /\ requests \in Seq(Request) /\ sent \in Request
  /\ wire \in Seq(Item) /\ inbox \in Seq(Item) /\ m_rtsp_buffer \in Seq(Item)

StageInv ==
  /\ inits \in 0 .. MaxInits
  /\ stage # "idle" => inits # 0
  /\ reading => stage \in Methods /\ sent.method = stage /\ sent.cseq = m_cseq
  /\ stage = "idle" => pRTP = "NULL"

\* What the next request names was set in this session or is empty.
FreshInv ==
  /\ stage = "SETUP" => fControlPath \in {0, inits}
  /\ stage = "PLAY" => fSessionId \in {0, inits}

\* The parts of a reply follow each other, and a reply is written whole.
Follows(a, b) ==
  /\ a.part = "status" => b.part = "cseq"
  /\ a.part = "cseq" => b.part = "fields"
  /\ a.part \in {"status", "cseq"} => b.cseq = a.cseq /\ b.code = a.code
InHeader(a) == a.part \in {"status", "cseq"}
EndsWhole(s) == s # <<>> => ~InHeader(s[Len(s)])
Chained(s) == \A k \in 1 .. Len(s) - 1 : Follows(s[k], s[k + 1])
Shaped(s) == Chained(s) /\ EndsWhole(s)

\* Only a reset loses the end of a reply, and nothing is written after it.
ShapeInv == Chained(Stream) /\ (link \in {"up", "closed"} => EndsWhole(Stream))
LinkInv == link # "up" => requests = <<>>

\* A reset connection is a reason to fail.
ResetInv == link \in {"reset", "broken"} => excused

\* Requests are numbered in turn and answered in turn.
Ordered(s, r, n) ==
  /\ \A i \in 1 .. Len(r) : r[i].cseq <= n
  /\ \A k \in 1 .. Len(s) : s[k].cseq <= n
  /\ \A i, j \in 1 .. Len(r) : i < j => r[i].cseq < r[j].cseq
  /\ \A i \in 1 .. Len(r), k \in 1 .. Len(s) : s[k].cseq < r[i].cseq
  /\ \A j, k \in 1 .. Len(s) : j < k /\ s[k].part = "status" => s[j].cseq < s[k].cseq
OrderInv ==
  /\ Ordered(Stream, requests, Newest)
  /\ reading => \A i \in 1 .. Len(requests) : requests[i].cseq = m_cseq => requests[i] = sent

\* As long as headers come whole, what was read ends outside a header.
WholeInv == ~cut => EndsWhole(inbox) /\ (reading => EndsWhole(m_rtsp_buffer))

\* As long as headers come whole, SETUP returned a session.
SessionInv == ~cut /\ stage = "PLAY" => fSessionId = inits

\* While nothing went wrong the stream holds the reply in progress and no other.
Clear(s, r) == r = <<>> /\ s = <<>>
Exact(s, r) == (r = <<sent>> /\ s = <<>>) \/ (r = <<>> /\ s = Reply(sent, 200))
ExactInv ==
  ~excused =>
    /\ stage \in Methods => IF reading THEN Exact(Stream, requests) ELSE Clear(Stream, requests)
    /\ stage = "SETUP" => fControlPath = inits

\* After SETUP was answered no other status line is to come but that of PLAY; if
\* only the status line of SETUP was read, the stream goes on in a header.
PlayInv ==
  stage = "PLAY" =>
    \/ Len(Stream) > 0 /\ Stream[1].part = "cseq"
    \/ /\ \A k \in 1 .. Len(Stream) : Stream[k].part = "status" => reading /\ Stream[k].cseq = m_cseq
       /\ requests # <<>> => reading /\ requests = <<sent>>

\* A server that has answered PLAY plays.
ServedInv ==
  stage = "PLAY" /\ reading =>
    \A k \in 1 .. Len(Stream) : Stream[k].cseq = m_cseq /\ Stream[k].code = 200 => server = "playing"
StartedInv == pRTP = "started" => stage \in {"ok", "failed"} /\ server = "playing" /\ requests = <<>>

IInv == /\ TypeOK /\ SeqInv /\ StageInv /\ FreshInv /\ NothingStale /\ LinkInv /\ ShapeInv /\ OrderInv
        /\ WholeInv /\ SessionInv /\ OwnReplyAccepted /\ PlayHasSession
        /\ ExactInv /\ SetupHasTrack /\ FailureExcused /\ ResetInv /\ PlayInv /\ ServedInv /\ StartedInv

---------------------------------------------------------------------------
(* Replies and streams                                                     *)

\* A reply is a status line, a CSeq line, the fields and, for a description,
\* the body, all of one number and one code.
LEMMA ReplyFacts ==
  ASSUME NEW r \in Request, NEW code \in {200, 404}
  PROVE  LET R == Reply(r, code) IN
           /\ R \in Seq(Item)
           /\ Len(R) = IF r.method = "DESCRIBE" /\ code = 200 THEN 4 ELSE 3
           /\ R[1].part = "status" /\ R[2].part = "cseq" /\ R[3].part = "fields"
           /\ Len(R) = 4 => R[4].part = "body"
           /\ \A k \in 1 .. Len(R) : R[k].cseq = r.cseq /\ R[k].code = code
<1> DEFINE Part(p) == [part |-> p, cseq |-> r.cseq, code |-> code]
           H == <<Part("status"), Part("cseq"), Part("fields")>>
           B == IF r.method = "DESCRIBE" /\ code = 200 THEN <<Part("body")>> ELSE <<>>
           R == Reply(r, code)
<1>1. R = H \o B
  BY DEF Reply
<1>2. r.cseq \in Nat
  BY DEF Request
<1>3. \A p \in {"status", "cseq", "fields", "body"} :
        Part(p) \in Item /\ Part(p).part = p /\ Part(p).cseq = r.cseq /\ Part(p).code = code
  BY <1>2 DEF Item
<1> HIDE DEF Part
<1>4. H \in Seq(Item) /\ Len(H) = 3 /\ H[1] = Part("status") /\ H[2] = Part("cseq") /\ H[3] = Part("fields")
  BY <1>3
<1>5. /\ B \in Seq(Item)
      /\ Len(B) = IF r.method = "DESCRIBE" /\ code = 200 THEN 1 ELSE 0
      /\ Len(B) = 1 => B[1] = Part("body")
  BY <1>3
<1> HIDE DEF H, B, R
<1>6. /\ R \in Seq(Item) /\ Len(R) = Len(H) + Len(B)
      /\ \A i \in 1 .. Len(H) + Len(B) : R[i] = IF i <= Len(H) THEN H[i] ELSE B[i - Len(H)]
  <2>1. H \in Seq(Item) /\ B \in Seq(Item)
    BY <1>4, <1>5
  <2> QED BY <1>1, <2>1, ConcatProperties
<1>7. R[1] = Part("status") /\ R[2] = Part("cseq") /\ R[3] = Part("fields")
      /\ (Len(R) = 4 => R[4] = Part("body"))
  BY <1>4, <1>5, <1>6
<1>8. \A k \in 1 .. Len(R) : k \in {1, 2, 3} \/ (k = 4 /\ Len(R) = 4)
  BY <1>4, <1>5, <1>6
<1>9. \A k \in 1 .. Len(R) : R[k].cseq = r.cseq /\ R[k].code = code
  BY <1>3, <1>7, <1>8
<1>10. Len(R) = IF r.method = "DESCRIBE" /\ code = 200 THEN 4 ELSE 3
  BY <1>4, <1>5, <1>6
<1> QED BY <1>3, <1>6, <1>7, <1>9, <1>10 DEF R

LEMMA ReplyShaped ==
  ASSUME NEW r \in Request, NEW code \in {200, 404}
  PROVE  Shaped(Reply(r, code))
<1> DEFINE R == Reply(r, code)
<1> HIDE DEF R
<1>1. /\ R \in Seq(Item) /\ Len(R) \in {3, 4}
      /\ R[1].part = "status" /\ R[2].part = "cseq" /\ R[3].part = "fields"
      /\ Len(R) = 4 => R[4].part = "body"
      /\ \A k \in 1 .. Len(R) : R[k].cseq = r.cseq /\ R[k].code = code
  BY ReplyFacts DEF R
<1>2. \A k \in 1 .. Len(R) - 1 : Follows(R[k], R[k + 1])
  <2> SUFFICES ASSUME NEW k \in 1 .. Len(R) - 1 PROVE Follows(R[k], R[k + 1])
    OBVIOUS
  <2>1. k \in {1, 2, 3}
    BY <1>1
  <2>2. R[k].cseq = R[k + 1].cseq /\ R[k].code = R[k + 1].code
    BY <1>1
  <2> QED BY <1>1, <2>1, <2>2 DEF Follows
<1>3. EndsWhole(R)
  BY <1>1 DEF EndsWhole, InHeader
<1> QED BY <1>2, <1>3 DEF Shaped, Chained, R

\* Replies that follow each other keep their shape, and so does what is left
\* when some of it was read.
LEMMA ShapedConcat ==
  ASSUME NEW s \in Seq(Item), NEW t \in Seq(Item), Shaped(s), Shaped(t)
  PROVE  Shaped(s \o t)
<1> DEFINE u == s \o t
<1>1. /\ u \in Seq(Item) /\ Len(u) = Len(s) + Len(t)
      /\ \A i \in 1 .. Len(s) + Len(t) : u[i] = IF i <= Len(s) THEN s[i] ELSE t[i - Len(s)]
  BY ConcatProperties
<1> HIDE DEF u
<1>2. Len(s) \in Nat /\ Len(t) \in Nat
  BY LenProperties
<1>3. \A k \in 1 .. Len(u) - 1 : Follows(u[k], u[k + 1])
  <2> SUFFICES ASSUME NEW k \in 1 .. Len(u) - 1 PROVE Follows(u[k], u[k + 1])
    OBVIOUS
  <2>1. CASE k < Len(s)
    <3>1. u[k] = s[k] /\ u[k + 1] = s[k + 1] /\ k \in 1 .. Len(s) - 1
      BY <1>1, <1>2, <2>1
    <3> QED BY <3>1 DEF Shaped, Chained
  <2>2. CASE k = Len(s)
    <3>1. ~InHeader(u[k])
      BY <1>1, <1>2, <2>2 DEF Shaped, EndsWhole
    <3> QED BY <3>1 DEF Follows, InHeader
  <2>3. CASE k > Len(s)
    <3>1. u[k] = t[k - Len(s)] /\ u[k + 1] = t[(k - Len(s)) + 1] /\ k - Len(s) \in 1 .. Len(t) - 1
      BY <1>1, <1>2, <2>3
    <3> QED BY <3>1 DEF Shaped, Chained
  <2> QED BY <1>2, <2>1, <2>2, <2>3
<1>4. EndsWhole(u)
  <2>1. CASE t = <<>>
    <3>1. Len(t) = 0
      BY <2>1
    <3>2. u # <<>> => Len(s) > 0 /\ u[Len(u)] = s[Len(s)] /\ s # <<>>
      BY <1>1, <1>2, <3>1
    <3> QED BY <3>2 DEF Shaped, EndsWhole
  <2>2. CASE t # <<>>
    <3>1. Len(t) > 0
      BY <1>2, <2>2
    <3>2. u[Len(u)] = t[Len(t)]
      BY <1>1, <1>2, <3>1
    <3> QED BY <2>2, <3>2 DEF Shaped, EndsWhole
  <2> QED BY <2>1, <2>2
<1> QED BY <1>3, <1>4 DEF Shaped, Chained, u

LEMMA ShapedSuffix ==
  ASSUME NEW s \in Seq(Item), NEW t \in Seq(Item), Chained(s \o t)
  PROVE  Chained(t) /\ (EndsWhole(s \o t) => EndsWhole(t))
<1> DEFINE u == s \o t
<1>1. /\ u \in Seq(Item) /\ Len(u) = Len(s) + Len(t)
      /\ \A i \in 1 .. Len(s) + Len(t) : u[i] = IF i <= Len(s) THEN s[i] ELSE t[i - Len(s)]
  BY ConcatProperties
<1>2. Chained(u)
  OBVIOUS
<1> SUFFICES Chained(t) /\ (EndsWhole(u) => EndsWhole(t))
  OBVIOUS
<1> HIDE DEF u
<1>3. Len(s) \in Nat /\ Len(t) \in Nat
  BY LenProperties
<1>4. ASSUME NEW i \in 1 .. Len(t) PROVE t[i] = u[Len(s) + i]
  BY <1>1, <1>3
<1>5. \A k \in 1 .. Len(t) - 1 : Follows(t[k], t[k + 1])
  <2> SUFFICES ASSUME NEW k \in 1 .. Len(t) - 1 PROVE Follows(t[k], t[k + 1])
    OBVIOUS
  <2>1. t[k] = u[Len(s) + k] /\ t[k + 1] = u[(Len(s) + k) + 1] /\ Len(s) + k \in 1 .. Len(u) - 1
    BY <1>1, <1>3, <1>4
  <2> QED BY <1>2, <2>1 DEF Chained
<1>6. EndsWhole(u) => EndsWhole(t)
  <2> SUFFICES ASSUME EndsWhole(u), t # <<>> PROVE ~InHeader(t[Len(t)])
    BY DEF EndsWhole
  <2>1. Len(t) > 0
    BY <1>3
  <2>2. u # <<>> /\ t[Len(t)] = u[Len(u)]
    BY <1>1, <1>3, <1>4, <2>1
  <2> QED BY <2>2 DEF EndsWhole
<1> QED BY <1>5, <1>6 DEF Chained

---------------------------------------------------------------------------
(* What a step does to the sequences, to the stream and to the stage.      *)

EndRequest == EndOptions \/ EndDescribe \/ EndSetup \/ EndPlay

LEMMA EndFacts ==
  ASSUME EndRequest
  PROVE  /\ reading /\ reading' = FALSE /\ m_cseq' = m_cseq + 1
         /\ stage \in Methods /\ (stage' = NextStage(stage) \/ stage' = "failed")
         /\ UNCHANGED <<m_rtsp_buffer, inits, link, requests, server, wire, inbox, sent, cut>>
BY DEF EndRequest, EndOptions, EndDescribe, EndSetup, EndPlay, ReplyRead, Proceed, net, Methods

\* The steps that leave the stream alone, and those that change it.
LEMMA StepKinds ==
  ASSUME [Next]_vars
  PROVE  \/ api_init \/ WriteRequest \/ Sigpipe \/ ReadReply \/ EndRequest \/ api_deinit
         \/ \E code \in {200, 404} : Serve(code)
         \/ \E n \in 1 .. Len(wire) : Arrive(n)
         \/ Close \/ Reset
         \/ UNCHANGED vars
BY DEF Next, Client, Network, EndRequest

\* Every number sent is one the code can produce.
TypeRest ==
  /\ stage \in Methods \cup {"idle", "ok", "failed", "killed"}
  /\ m_cseq \in Nat /\ reads \in 0 .. Reads
  /\ fControlPath \in 0 .. MaxInits /\ fSessionId \in 0 .. MaxInits
  /\ serverPortNum \in {0, 1}
  /\ pRTP \in {"NULL", "init", "connected", "started"}
  /\ link \in Links /\ server \in {"init", "ready", "playing"}
PortType == m_port \in Int16 /\ udpPort \in Ports \cup {0}
FlagType == reading \in BOOLEAN /\ cut \in BOOLEAN /\ excused \in BOOLEAN

LEMMA TypeSplit == TypeOK <=> TypeRest /\ PortType /\ FlagType
BY DEF TypeOK, TypeRest, PortType, FlagType

LEMMA Bounds == MaxInits \in Nat /\ Reads \in Nat /\ Reads > 0
BY SessionAssumption

LEMMA Stages ==
  /\ NextStage("OPTIONS") = "DESCRIBE" /\ NextStage("DESCRIBE") = "SETUP"
  /\ NextStage("SETUP") = "PLAY" /\ NextStage("PLAY") = "ok"
BY Zenon DEF NextStage

LEMMA StageStep == TypeRest /\ StageInv /\ [Next]_vars => StageInv'
<1> SUFFICES ASSUME TypeRest, StageInv, [Next]_vars PROVE StageInv'
  OBVIOUS
<1> USE Bounds, Stages DEF TypeRest, StageInv, Methods, reply, client, net, hist
<1>1. CASE Client
  <2>1. CASE api_init     BY <2>1 DEF api_init
  <2>2. CASE WriteRequest BY <2>2 DEF WriteRequest
  <2>3. CASE ReadReply    BY <2>3 DEF ReadReply
  <2>4. CASE EndOptions
    BY <2>4, EndFacts DEF EndRequest, EndOptions
  <2>5. CASE EndDescribe
    BY <2>5, EndFacts DEF EndRequest, EndDescribe
  <2>6. CASE EndSetup
    BY <2>6, EndFacts DEF EndRequest, EndSetup
  <2>7. CASE EndPlay
    BY <2>7, EndFacts DEF EndRequest, EndPlay
  <2>8. CASE api_deinit   BY <2>8 DEF api_deinit
  <2>9. CASE Sigpipe      BY <2>9 DEF Sigpipe
  <2> QED BY <1>1, <2>1, <2>2, <2>3, <2>4, <2>5, <2>6, <2>7, <2>8, <2>9 DEF Client
<1>2. ASSUME NEW code \in {200, 404}, Serve(code) PROVE StageInv'
  BY <1>2 DEF Serve
<1>3. ASSUME NEW n \in 1 .. Len(wire), Arrive(n) PROVE StageInv'
  BY <1>3 DEF Arrive
<1>5. CASE Close \/ Reset
  BY <1>5 DEF Close, Reset
<1>4. CASE UNCHANGED vars
  BY <1>4 DEF vars
<1> QED BY <1>1, <1>2, <1>3, <1>4, <1>5 DEF Next, Network

LEMMA FlagStep == FlagType /\ [Next]_vars => FlagType'
<1> SUFFICES ASSUME FlagType, [Next]_vars PROVE FlagType'
  OBVIOUS
<1> USE DEF FlagType, client, net, hist, Proceed, ReplyRead
<1>1. CASE Client
  <2>1. CASE api_init     BY <2>1 DEF api_init
  <2>2. CASE WriteRequest BY <2>2 DEF WriteRequest
  <2>3. CASE ReadReply    BY <2>3 DEF ReadReply
  <2>4. CASE EndOptions   BY <2>4 DEF EndOptions
  <2>5. CASE EndDescribe  BY <2>5 DEF EndDescribe
  <2>6. CASE EndSetup     BY <2>6 DEF EndSetup
  <2>7. CASE EndPlay      BY <2>7 DEF EndPlay
  <2>8. CASE api_deinit   BY <2>8 DEF api_deinit
  <2>9. CASE Sigpipe      BY <2>9 DEF Sigpipe
  <2> QED BY <1>1, <2>1, <2>2, <2>3, <2>4, <2>5, <2>6, <2>7, <2>8, <2>9 DEF Client
<1>2. ASSUME NEW code \in {200, 404}, Serve(code) PROVE FlagType'
  BY <1>2 DEF Serve
<1>3. ASSUME NEW n \in 1 .. Len(wire), Arrive(n) PROVE FlagType'
  BY <1>3 DEF Arrive
<1>5. CASE Close \/ Reset
  BY <1>5 DEF Close, Reset
<1>4. CASE UNCHANGED vars
  BY <1>4 DEF vars
<1> QED BY <1>1, <1>2, <1>3, <1>4, <1>5 DEF Next, Network

\* A port number with its bytes swapped and read as int16_t.
LEMMA NetOrderRange ==
  ASSUME NEW p \in PortNumbers
  PROVE  NetOrder(p) \in Int16
<1> DEFINE low == p % 256
           high == p \div 256
           u == low * 256 + high
<1>1. p \in Int /\ 0 <= p /\ p <= 65535
  BY DEF PortNumbers
<1>2. low \in 0 .. 255
  BY <1>1
<1>3. high \in 0 .. 255
  BY <1>1
<1>4. NetOrder(p) = IF u >= 32768 THEN u - 65536 ELSE u
  BY DEF NetOrder
<1> HIDE DEF low, high
<1>5. u \in Int /\ 0 <= u /\ u <= 65535
  BY <1>2, <1>3
<1> QED BY <1>4, <1>5 DEF Int16

LEMMA PortStep == PortType /\ [Next]_vars => PortType'
<1> SUFFICES ASSUME PortType, [Next]_vars PROVE PortType'
  OBVIOUS
<1>1. CASE UNCHANGED <<m_port, udpPort>>
  BY <1>1 DEF PortType
<1>2. CASE udpPort' \in Ports /\ m_port' = NetOrder(udpPort')
  BY <1>2, SessionAssumption, NetOrderRange DEF PortType
<1>3. UNCHANGED <<m_port, udpPort>> \/ (udpPort' \in Ports /\ m_port' = NetOrder(udpPort'))
  BY DEF Next, Client, Network, api_init, WriteRequest, ReadReply, EndOptions, EndDescribe,
         EndSetup, EndPlay, api_deinit, Sigpipe, Serve, Arrive, Close, Reset, vars, client
<1> QED BY <1>1, <1>2, <1>3

LEMMA TypeStep == TypeRest /\ StageInv /\ [Next]_vars => TypeRest'
<1> SUFFICES ASSUME TypeRest, StageInv, [Next]_vars PROVE TypeRest'
  OBVIOUS
<1> USE Bounds, Stages DEF TypeRest, Links, StageInv, Methods, reply, client, net, hist
<1>1. CASE Client
  <2>1. CASE api_init     BY <2>1 DEF api_init
  <2>2. CASE WriteRequest BY <2>2 DEF WriteRequest, ErrorReported
  <2>3. CASE ReadReply    BY <2>3 DEF ReadReply, ErrorReported
  <2>4. CASE EndOptions BY <2>4 DEF EndOptions, Proceed
  <2>5. CASE EndDescribe
    <3>1. fControlPath' \in 0 .. MaxInits /\ UNCHANGED <<fSessionId, serverPortNum>>
      BY <2>5 DEF EndDescribe, ParseDescribe
    <3>2. pRTP' \in {pRTP, "init"} /\ UNCHANGED <<reads, link, server>> /\ m_cseq' = m_cseq + 1
      BY <2>5 DEF EndDescribe, Proceed
    <3>3. stage' \in {"SETUP", "failed"}
      BY <2>5 DEF EndDescribe, Proceed
    <3> QED BY <3>1, <3>2, <3>3
  <2>6. CASE EndSetup
    <3>1. /\ serverPortNum' \in {serverPortNum, 0, 1} /\ fSessionId' \in {fSessionId, 0, inits}
          /\ UNCHANGED fControlPath
      BY <2>6 DEF EndSetup, ParseSetup
    <3>2. pRTP' \in {pRTP, "connected"} /\ UNCHANGED <<reads, link, server>>
          /\ m_cseq' = m_cseq + 1
      BY <2>6 DEF EndSetup, Proceed
    <3>3. stage' \in {"PLAY", "failed"}
      BY <2>6 DEF EndSetup, Proceed
    <3> QED BY <3>1, <3>2, <3>3
  <2>7. CASE EndPlay
    <3>1. pRTP' \in {pRTP, "started"} /\ UNCHANGED <<reads, link, server, reply>>
          /\ m_cseq' = m_cseq + 1
      BY <2>7 DEF EndPlay, Proceed
    <3>2. stage' \in {"ok", "failed"}
      BY <2>7 DEF EndPlay, Proceed
    <3> QED BY <3>1, <3>2
  <2>8. CASE api_deinit   BY <2>8 DEF api_deinit
  <2>9. CASE Sigpipe      BY <2>9 DEF Sigpipe
  <2> QED BY <1>1, <2>1, <2>2, <2>3, <2>4, <2>5, <2>6, <2>7, <2>8, <2>9 DEF Client
<1>2. ASSUME NEW code \in {200, 404}, Serve(code) PROVE TypeRest'
  BY <1>2 DEF Serve
<1>3. ASSUME NEW n \in 1 .. Len(wire), Arrive(n) PROVE TypeRest'
  BY <1>3 DEF Arrive
<1>5. CASE Close \/ Reset
  BY <1>5 DEF Close, Reset
<1>4. CASE UNCHANGED vars
  BY <1>4 DEF vars
<1> QED BY <1>1, <1>2, <1>3, <1>4, <1>5 DEF Next, Network

LEMMA SeqStep == TypeRest /\ PortType /\ StageInv /\ SeqInv /\ [Next]_vars => SeqInv'
<1> SUFFICES ASSUME TypeRest, PortType, StageInv, SeqInv, [Next]_vars PROVE SeqInv'
  OBVIOUS
<1> USE DEF SeqInv
<1>1. CASE api_init
  BY <1>1, Bounds DEF api_init, NoRequest, Request
<1>2. CASE WriteRequest
  <2>1. sent' \in Request
    <3>1. m_port \in Int
      BY DEF PortType, Int16
    <3> QED BY <1>2, <3>1, Bounds DEF WriteRequest, Request, TypeRest
  <2>2. (requests' = Append(requests, sent') \/ requests' = requests) /\ m_rtsp_buffer' = <<>> /\ UNCHANGED <<wire, inbox>>
    BY <1>2 DEF WriteRequest
  <2>3. Append(requests, sent') \in Seq(Request)
    BY <2>1, AppendProperties
  <2>4. <<>> \in Seq(Item)
    OBVIOUS
  <2>5. m_rtsp_buffer' \in Seq(Item) /\ wire' \in Seq(Item) /\ inbox' \in Seq(Item)
    BY <2>2, <2>4
  <2>6. requests' \in Seq(Request)
    <3>1. CASE requests' = requests
      BY <3>1
    <3>2. CASE requests' = Append(requests, sent')
      BY <2>3, <3>2, Zenon
    <3> QED BY <2>2, <3>1, <3>2
  <2> QED BY <2>1, <2>5, <2>6
<1>3. CASE ReadReply
  BY <1>3, ConcatProperties DEF ReadReply, hist
<1>4. CASE EndRequest
  BY <1>4, EndFacts
<1>5. CASE api_deinit
  BY <1>5 DEF api_deinit, net, hist
<1>6. ASSUME NEW code \in {200, 404}, Serve(code) PROVE SeqInv'
  <2>1. requests # <<>> /\ Head(requests) \in Request /\ Tail(requests) \in Seq(Request)
    BY <1>6, HeadTailProperties DEF Serve
  <2>2. Reply(Head(requests), code) \in Seq(Item)
    BY <2>1, ReplyFacts
  <2>3. wire \o Reply(Head(requests), code) \in Seq(Item)
    BY <2>2, ConcatProperties
  <2> QED BY <1>6, <2>1, <2>3 DEF Serve, client
<1>7. ASSUME NEW n \in 1 .. Len(wire), Arrive(n) PROVE SeqInv'
  <2>1. SubSeq(wire, 1, n) \in Seq(Item) /\ SubSeq(wire, n + 1, Len(wire)) \in Seq(Item)
    BY SubSeqProperties
  <2> QED BY <1>7, <2>1, ConcatProperties DEF Arrive, client
<1>8. CASE UNCHANGED vars
  BY <1>8 DEF vars, client, net, hist
<1>9. CASE Sigpipe
  BY <1>9 DEF Sigpipe, net, hist
<1>10. CASE Close
  BY <1>10 DEF Close, client
<1>11. CASE Reset
  BY <1>11 DEF Reset, client
<1> QED BY <1>1, <1>2, <1>3, <1>4, <1>5, <1>6, <1>7, <1>8, <1>9, <1>10, <1>11, StepKinds

LEMMA Associative == \A s, t, v \in Seq(Item) : (s \o t) \o v = s \o (t \o v)
BY ConcatAssociative

LEMMA StreamType == SeqInv => Stream \in Seq(Item)
BY ConcatProperties DEF SeqInv, Stream

\* Writing, reading and the network pass the stream on as it is.
LEMMA StreamKept ==
  ASSUME SeqInv, StageInv,
         \/ WriteRequest \/ Sigpipe \/ ReadReply \/ api_deinit \/ UNCHANGED vars
         \/ Close \/ \E n \in 1 .. Len(wire) : Arrive(n)
  PROVE  Stream' = Stream
<1> USE DEF SeqInv, Stream
<1>1. CASE WriteRequest
  <2>1. ~reading /\ reading' /\ m_rtsp_buffer' = <<>> /\ UNCHANGED <<inbox, wire>>
    BY <1>1 DEF WriteRequest
  <2>2. <<>> \o (inbox \o wire) = inbox \o wire
    BY ConcatProperties, ConcatEmptySeq
  <2> QED BY <2>1, <2>2
<1>2. CASE ReadReply
  <2>1. /\ reading /\ reading' /\ m_rtsp_buffer' = m_rtsp_buffer \o inbox /\ inbox' = <<>>
        /\ wire' = wire
    BY <1>2 DEF ReadReply
  <2>2. <<>> \o wire = wire
    BY ConcatEmptySeq
  <2>3. (m_rtsp_buffer \o inbox) \o wire = m_rtsp_buffer \o (inbox \o wire)
    BY ConcatAssociative, SMTT(30)
  <2> QED BY <2>1, <2>2, <2>3
<1>3. CASE Sigpipe \/ Close \/ api_deinit \/ UNCHANGED vars
  BY <1>3 DEF Sigpipe, Close, api_deinit, net, vars, client
<1>4. CASE \E n \in 1 .. Len(wire) : Arrive(n)
  <2> PICK n \in 1 .. Len(wire) : Arrive(n)
    BY <1>4
  <2> DEFINE u == SubSeq(wire, 1, n)
             v == SubSeq(wire, n + 1, Len(wire))
  <2>1. u \in Seq(Item) /\ v \in Seq(Item)
    BY SubSeqProperties
  <2>2. u \o v = wire
    <3>1. SubSeq(wire, 1, Len(wire)) = wire
      BY SubSeqFull
    <3>2. 1 \in 1 .. Len(wire) + 1 /\ n \in 1 - 1 .. Len(wire) /\ Len(wire) \in n .. Len(wire)
      OBVIOUS
    <3> QED BY <3>1, <3>2, ConcatAdjacentSubSeq
  <2>3. inbox' = inbox \o u /\ wire' = v /\ UNCHANGED <<reading, m_rtsp_buffer>>
    BY DEF Arrive, client
  <2> HIDE DEF u, v
  <2>4. (inbox \o u) \o v = inbox \o (u \o v)
    <3>1. inbox \in Seq(Item)
      OBVIOUS
    <3> QED BY <2>1, <3>1, Associative
  <2> QED BY <2>2, <2>3, <2>4
<1> QED BY <1>1, <1>2, <1>3, <1>4

LEMMA StreamServed ==
  ASSUME SeqInv, NEW code \in {200, 404}, Serve(code)
  PROVE  Stream' = Stream \o Reply(Head(requests), code)
<1> DEFINE R == Reply(Head(requests), code)
<1>1. R \in Seq(Item)
  BY ReplyFacts, HeadTailProperties, SMTT(30) DEF Serve, SeqInv
<1>2. wire' = wire \o R /\ UNCHANGED <<reading, m_rtsp_buffer, inbox>>
  BY DEF Serve, client
<1> HIDE DEF R
<1> DEFINE u == inbox \o wire
<1>3. wire \in Seq(Item) /\ inbox \in Seq(Item) /\ m_rtsp_buffer \in Seq(Item) /\ u \in Seq(Item)
  BY ConcatProperties DEF SeqInv
<1>4. inbox \o (wire \o R) = u \o R
  BY <1>1, <1>3, Associative, SMTT(30)
<1> HIDE DEF u
<1>5. m_rtsp_buffer \o (u \o R) = (m_rtsp_buffer \o u) \o R
  BY <1>1, <1>3, Associative, SMTT(30)
<1>6. Stream' = Stream \o R
  BY <1>2, <1>4, <1>5 DEF Stream, u
<1> QED BY <1>6 DEF R

\* A request that is over has consumed what it read.
LEMMA StreamRead ==
  ASSUME SeqInv, EndRequest
  PROVE  Stream = m_rtsp_buffer \o Stream' /\ Stream' \in Seq(Item)
<1>1. Stream' = inbox \o wire /\ Stream = m_rtsp_buffer \o (inbox \o wire)
  BY EndFacts DEF Stream
<1> QED BY <1>1, ConcatProperties DEF SeqInv

\* A reset cuts the stream behind what has arrived.
LEMMA StreamCut ==
  ASSUME SeqInv, Reset
  PROVE  /\ Stream' \in Seq(Item) /\ Len(Stream') \in Nat /\ Len(Stream) \in Nat
         /\ Len(Stream') <= Len(Stream)
         /\ \A k \in 1 .. Len(Stream') : Stream'[k] = Stream[k]
<1> DEFINE s == IF reading THEN m_rtsp_buffer \o inbox ELSE inbox
<1>1. /\ m_rtsp_buffer \in Seq(Item) /\ inbox \in Seq(Item) /\ wire \in Seq(Item)
      /\ s \in Seq(Item) /\ inbox \o <<>> = inbox
  BY ConcatProperties, ConcatEmptySeq DEF SeqInv
<1>2. Stream' = s
  BY <1>1 DEF Reset, client, Stream
<1>3. Stream = s \o wire
  BY <1>1, Associative DEF Stream
<1> HIDE DEF s
<1> QED BY <1>1, <1>2, <1>3, ConcatProperties, LenProperties

LEMMA StreamNew ==
  ASSUME StageInv, api_init
  PROVE  Stream' = <<>>
BY DEF api_init, StageInv, Methods, Stream

---------------------------------------------------------------------------
(* The parts of the invariant, step by step                                *)

LEMMA FreshStep ==
  TypeRest /\ StageInv /\ FreshInv /\ NothingStale /\ [Next]_vars => FreshInv' /\ NothingStale'
<1> SUFFICES ASSUME TypeRest, StageInv, FreshInv, NothingStale, [Next]_vars
             PROVE  FreshInv' /\ NothingStale'
  OBVIOUS
<1> USE DEF FreshInv, NothingStale, StageInv, Methods
<1>1. CASE api_init
  BY <1>1 DEF api_init, NoRequest
<1>2. CASE WriteRequest
  BY <1>2 DEF WriteRequest, reply
<1>3. CASE ReadReply
  BY <1>3 DEF ReadReply, reply, hist
<1>4. CASE EndRequest
  <2>1. stage' = "SETUP" => fControlPath' \in {0, inits'}
    <3>1. CASE EndDescribe
      BY <3>1 DEF EndDescribe, Proceed, ParseDescribe, ParseSucceeds
    <3>2. CASE ~EndDescribe
      <4>1. stage # "DESCRIBE"
        BY <1>4, <3>2 DEF EndRequest, EndOptions, EndSetup, EndPlay
      <4> QED BY <1>4, <4>1, EndFacts, Stages
    <3> QED BY <3>1, <3>2
  <2>2. stage' = "PLAY" => fSessionId' \in {0, inits'}
    <3>1. CASE EndSetup
      BY <3>1 DEF EndSetup, Proceed, ParseSetup, ParseSucceeds
    <3>2. CASE ~EndSetup
      <4>1. stage # "SETUP"
        BY <1>4, <3>2 DEF EndRequest, EndOptions, EndDescribe, EndPlay
      <4> QED BY <1>4, <4>1, EndFacts, Stages
    <3> QED BY <3>1, <3>2
  <2> QED BY <1>4, <2>1, <2>2, EndFacts
<1>5. CASE api_deinit
  BY <1>5 DEF api_deinit, hist, reply
<1>6. ASSUME NEW code \in {200, 404}, Serve(code) PROVE FreshInv' /\ NothingStale'
  BY <1>6 DEF Serve, client, reply
<1>7. ASSUME NEW n \in 1 .. Len(wire), Arrive(n) PROVE FreshInv' /\ NothingStale'
  BY <1>7 DEF Arrive, client, reply
<1>8. CASE UNCHANGED vars
  BY <1>8 DEF vars, client, net, hist, reply
<1>9. CASE Sigpipe \/ Close \/ Reset
  BY <1>9 DEF Sigpipe, Close, Reset, client, reply, hist
<1> QED BY <1>1, <1>2, <1>3, <1>4, <1>5, <1>6, <1>7, <1>8, <1>9, StepKinds

LEMMA LinkStep == LinkInv /\ [Next]_vars => LinkInv'
<1> SUFFICES ASSUME LinkInv, [Next]_vars PROVE LinkInv'
  OBVIOUS
<1> USE DEF LinkInv
<1>1. CASE api_init
  BY <1>1 DEF api_init
<1>2. CASE WriteRequest
  BY <1>2 DEF WriteRequest, ErrorReported
<1>3. CASE ReadReply
  BY <1>3 DEF ReadReply, ErrorReported
<1>4. CASE EndRequest
  BY <1>4, EndFacts
<1>5. CASE Sigpipe \/ api_deinit
  BY <1>5 DEF Sigpipe, api_deinit, net
<1>6. ASSUME NEW code \in {200, 404}, Serve(code) PROVE LinkInv'
  BY <1>6 DEF Serve
<1>7. ASSUME NEW n \in 1 .. Len(wire), Arrive(n) PROVE LinkInv'
  BY <1>7 DEF Arrive
<1>8. CASE Close \/ Reset \/ UNCHANGED vars
  BY <1>8 DEF Close, Reset, vars, net
<1> QED BY <1>1, <1>2, <1>3, <1>4, <1>5, <1>6, <1>7, <1>8, StepKinds

LEMMA ShapeStep == SeqInv /\ StageInv /\ LinkInv /\ ShapeInv /\ [Next]_vars => ShapeInv'
<1> SUFFICES ASSUME SeqInv, StageInv, LinkInv, ShapeInv, [Next]_vars PROVE ShapeInv'
  OBVIOUS
<1> USE DEF ShapeInv
<1>1. CASE \/ WriteRequest \/ Sigpipe \/ ReadReply \/ api_deinit \/ UNCHANGED vars
           \/ Close \/ \E n \in 1 .. Len(wire) : Arrive(n)
  <2>1. Stream' = Stream
    BY <1>1, StreamKept
  <2>2. link' \in {"up", "closed"} => link \in {"up", "closed"}
    BY <1>1 DEF WriteRequest, ReadReply, ErrorReported, Sigpipe, api_deinit, Close, Arrive, vars, net
  <2> QED BY <2>1, <2>2 DEF Chained, EndsWhole
<1>2. CASE api_init
  <2>1. Shaped(<<>>)
    BY DEF Shaped, Chained, EndsWhole
  <2> QED BY <1>2, <2>1, StreamNew DEF Shaped
<1>3. CASE EndRequest
  <2>1. /\ Stream = m_rtsp_buffer \o Stream' /\ Stream' \in Seq(Item) /\ m_rtsp_buffer \in Seq(Item)
        /\ link' = link
    BY <1>3, StreamRead, EndFacts DEF SeqInv
  <2>2. ASSUME NEW t \in Seq(Item), Stream = m_rtsp_buffer \o t
        PROVE  Chained(t) /\ (EndsWhole(Stream) => EndsWhole(t))
    BY <2>1, <2>2, ShapedSuffix
  <2> QED BY <2>1, <2>2
<1>4. ASSUME NEW code \in {200, 404}, Serve(code) PROVE ShapeInv'
  <2>1. Head(requests) \in Request /\ link = "up"
    BY <1>4, HeadTailProperties DEF Serve, SeqInv, LinkInv
  <2>2. Shaped(Reply(Head(requests), code)) /\ Reply(Head(requests), code) \in Seq(Item)
    BY <2>1, ReplyShaped, ReplyFacts
  <2>3. Shaped(Stream \o Reply(Head(requests), code))
    BY <2>1, <2>2, StreamType, ShapedConcat DEF Shaped
  <2>4. Stream' = Stream \o Reply(Head(requests), code)
    BY <1>4, StreamServed
  <2> QED BY <2>3, <2>4 DEF Shaped
<1>5. CASE Reset
  <2>1. link' \notin {"up", "closed"}
    BY <1>5 DEF Reset
  <2>2. Chained(Stream')
    BY <1>5, StreamCut DEF Chained
  <2> QED BY <2>1, <2>2
<1> QED BY <1>1, <1>2, <1>3, <1>4, <1>5, StepKinds

\* What was read is the beginning of the stream.
LEMMA BufferPrefix ==
  ASSUME SeqInv, reading
  PROVE  /\ Stream \in Seq(Item) /\ Len(m_rtsp_buffer) \in Nat /\ Len(Stream) \in Nat
         /\ Len(m_rtsp_buffer) <= Len(Stream)
         /\ \A k \in 1 .. Len(m_rtsp_buffer) : m_rtsp_buffer[k] = Stream[k]
<1> DEFINE t == inbox \o wire
<1>1. m_rtsp_buffer \in Seq(Item) /\ t \in Seq(Item)
  BY ConcatProperties DEF SeqInv
<1>2. Stream = m_rtsp_buffer \o t
  BY DEF Stream
<1> HIDE DEF t
<1> QED BY <1>1, <1>2, ConcatProperties, LenProperties

\* As long as headers come whole, a reply that was begun was read up to its fields.
LEMMA HeaderWhole ==
  ASSUME SeqInv, ShapeInv, WholeInv, reading, ~cut, WellFormed(m_rtsp_buffer)
  PROVE  /\ CSeqRead(m_rtsp_buffer) /\ FieldsRead(m_rtsp_buffer)
         /\ m_rtsp_buffer[2].cseq = m_rtsp_buffer[1].cseq
<1> DEFINE b == m_rtsp_buffer
<1>1. b \in Seq(Item) /\ Len(b) \in Nat /\ Len(b) > 0 /\ b[1].part = "status"
  BY BufferPrefix DEF WellFormed, SeqInv
<1>2. ~InHeader(b[Len(b)])
  BY <1>1 DEF WholeInv, EndsWhole
<1>3. Len(b) # 1
  BY <1>1, <1>2 DEF InHeader
<1>0. \A k \in 1 .. Len(b) - 1 : Follows(b[k], b[k + 1])
  <2> SUFFICES ASSUME NEW k \in 1 .. Len(b) - 1 PROVE Follows(b[k], b[k + 1])
    OBVIOUS
  <2>1. k \in 1 .. Len(Stream) - 1 /\ b[k] = Stream[k] /\ b[k + 1] = Stream[k + 1]
    BY <1>1, BufferPrefix
  <2> QED BY <2>1 DEF ShapeInv, Chained
<1> DEFINE last == Len(b)
<1>8. last \in Nat /\ last > 0 /\ last # 1
  BY <1>1, <1>3
<1> HIDE DEF b, last
<1>9. last > 1
  BY <1>8
<1>4. b[2].part = "cseq" /\ b[2].cseq = b[1].cseq
  <2>1. Follows(b[1], b[2])
    <3>1. 1 \in 1 .. Len(b) - 1 /\ 1 + 1 = 2
      BY <1>8, <1>9 DEF last
    <3> QED BY <1>0, <3>1
  <2> QED BY <1>1, <2>1 DEF Follows
<1>5. last # 2
  BY <1>2, <1>4 DEF InHeader, last
<1>7. last > 2
  BY <1>8, <1>9, <1>5
<1>6. b[3].part = "fields"
  <2>1. Follows(b[2], b[3])
    <3>1. 2 \in 1 .. Len(b) - 1 /\ 2 + 1 = 3
      BY <1>8, <1>7 DEF last
    <3> QED BY <1>0, <3>1
  <2> QED BY <1>4, <2>1 DEF Follows
<1> QED BY <1>4, <1>6, <1>7, <1>8 DEF CSeqRead, FieldsRead, b, last

LEMMA WholeConcat ==
  ASSUME NEW s \in Seq(Item), NEW t \in Seq(Item), EndsWhole(s), EndsWhole(t)
  PROVE  EndsWhole(s \o t)
<1> DEFINE u == s \o t
<1>1. /\ u \in Seq(Item) /\ Len(u) = Len(s) + Len(t)
      /\ \A i \in 1 .. Len(s) + Len(t) : u[i] = IF i <= Len(s) THEN s[i] ELSE t[i - Len(s)]
  BY ConcatProperties
<1>2. Len(s) \in Nat /\ Len(t) \in Nat
  BY LenProperties
<1> HIDE DEF u
<1>3. CASE Len(t) = 0
  <2>1. u # <<>> => s # <<>> /\ u[Len(u)] = s[Len(s)]
    BY <1>1, <1>2, <1>3
  <2> QED BY <2>1 DEF EndsWhole, u
<1>4. CASE Len(t) > 0
  <2>1. t # <<>> /\ u[Len(u)] = t[Len(t)]
    BY <1>1, <1>2, <1>4
  <2> QED BY <2>1 DEF EndsWhole, u
<1> QED BY <1>2, <1>3, <1>4

LEMMA WholeStep == SeqInv /\ StageInv /\ WholeInv /\ FlagType /\ [Next]_vars => WholeInv'
<1> SUFFICES ASSUME SeqInv, StageInv, WholeInv, FlagType, [Next]_vars PROVE WholeInv'
  OBVIOUS
<1> USE DEF WholeInv
<1>0. EndsWhole(<<>>)
  BY DEF EndsWhole
<1>1. CASE api_init
  BY <1>0, <1>1 DEF api_init, StageInv, Methods
<1>2. CASE WriteRequest
  BY <1>0, <1>2 DEF WriteRequest
<1>3. CASE ReadReply
  <2>1. cut' = cut /\ reading /\ inbox' = <<>> /\ m_rtsp_buffer' = m_rtsp_buffer \o inbox
    BY <1>3 DEF ReadReply, hist
  <2>2. ~cut => EndsWhole(m_rtsp_buffer \o inbox)
    BY <2>1, WholeConcat DEF SeqInv
  <2> QED BY <1>0, <2>1, <2>2
<1>4. CASE EndRequest
  BY <1>4, EndFacts
<1>5. CASE api_deinit
  BY <1>5 DEF api_deinit, net, hist
<1>6. ASSUME NEW code \in {200, 404}, Serve(code) PROVE WholeInv'
  BY <1>6 DEF Serve, client
<1>7. ASSUME NEW n \in 1 .. Len(wire), Arrive(n) PROVE WholeInv'
  <2>1. cut' = (cut \/ wire[n].part \in {"status", "cseq"}) /\ inbox' = inbox \o SubSeq(wire, 1, n)
        /\ UNCHANGED <<reading, m_rtsp_buffer>>
    BY <1>7 DEF Arrive, client
  <2> DEFINE u == SubSeq(wire, 1, n)
  <2>2. u \in Seq(Item) /\ Len(u) = n /\ u[n] = wire[n]
    BY SubSeqProperties DEF SeqInv
  <2> HIDE DEF u
  <2>3. ~cut' => EndsWhole(u)
    BY <2>1, <2>2 DEF EndsWhole, InHeader
  <2>4. ~cut' => EndsWhole(inbox \o u)
    BY <2>1, <2>2, <2>3, WholeConcat DEF SeqInv
  <2> QED BY <2>1, <2>4 DEF u
<1>8. CASE UNCHANGED vars
  BY <1>8 DEF vars, client, net, hist
<1>9. CASE Sigpipe \/ Close \/ Reset
  BY <1>9 DEF Sigpipe, Close, Reset, client, net, hist
<1> QED BY <1>1, <1>2, <1>3, <1>4, <1>5, <1>6, <1>7, <1>8, <1>9, StepKinds

---------------------------------------------------------------------------
(* The order of requests and replies                                       *)

LEMMA Numbers ==
  ASSUME NEW s \in Seq(Item), NEW r \in Seq(Request)
  PROVE  /\ \A i \in 1 .. Len(r) : r[i].cseq \in Nat
         /\ \A k \in 1 .. Len(s) : s[k].cseq \in Nat
<1>1. \A i \in 1 .. Len(r) : r[i] \in Request
  BY ElementOfSeq
<1>2. \A k \in 1 .. Len(s) : s[k] \in Item
  BY ElementOfSeq
<1>3. \A q \in Request : q.cseq \in Nat
  BY DEF Request
<1>4. \A p \in Item : p.cseq \in Nat
  BY DEF Item
<1> QED BY <1>1, <1>2, <1>3, <1>4

LEMMA OrderWritten ==
  ASSUME NEW s \in Seq(Item), NEW r \in Seq(Request), NEW n \in Int, Ordered(s, r, n),
         NEW q \in Request, q.cseq = n + 1
  PROVE  Ordered(s, Append(r, q), n + 1)
<1> DEFINE u == Append(r, q)
<1>1. /\ u \in Seq(Request) /\ Len(u) = Len(r) + 1
      /\ \A i \in 1 .. Len(r) : u[i] = r[i] /\ i \in 1 .. Len(u)
      /\ u[Len(r) + 1] = q
  BY AppendProperties
<1> HIDE DEF u
<1>2. Len(r) \in Nat /\ Len(s) \in Nat
  BY LenProperties
<1>3. \A i \in 1 .. Len(u) : (i \in 1 .. Len(r) /\ u[i] = r[i]) \/ (i = Len(r) + 1 /\ u[i] = q)
  BY <1>1, <1>2
<1>4. /\ \A i \in 1 .. Len(r) : r[i].cseq \in Nat /\ r[i].cseq <= n
      /\ \A k \in 1 .. Len(s) : s[k].cseq \in Nat /\ s[k].cseq <= n
  BY Numbers DEF Ordered
<1>5. \A i \in 1 .. Len(u) : u[i].cseq <= n + 1
  BY <1>3, <1>4
<1>6. \A k \in 1 .. Len(s) : s[k].cseq <= n + 1
  BY <1>4
<1>7. ASSUME NEW i \in 1 .. Len(u), NEW j \in 1 .. Len(u), i < j PROVE u[i].cseq < u[j].cseq
  <2>1. i \in 1 .. Len(r) /\ u[i] = r[i]
    BY <1>1, <1>2, <1>3, <1>7
  <2>2. CASE j \in 1 .. Len(r) /\ u[j] = r[j]
    BY <1>7, <2>1, <2>2 DEF Ordered
  <2>3. CASE u[j] = q
    BY <1>4, <2>1, <2>3
  <2> QED BY <1>3, <2>2, <2>3
<1>8. ASSUME NEW i \in 1 .. Len(u), NEW k \in 1 .. Len(s) PROVE s[k].cseq < u[i].cseq
  <2>1. CASE i \in 1 .. Len(r) /\ u[i] = r[i]
    BY <2>1 DEF Ordered
  <2>2. CASE u[i] = q
    BY <1>4, <2>2
  <2> QED BY <1>3, <2>1, <2>2
<1>9. \A j, k \in 1 .. Len(s) : j < k /\ s[k].part = "status" => s[j].cseq < s[k].cseq
  BY DEF Ordered
<1> QED BY <1>5, <1>6, <1>7, <1>8, <1>9 DEF Ordered, u

LEMMA OrderRead ==
  ASSUME NEW s \in Seq(Item), NEW t \in Seq(Item), NEW r \in Seq(Request), NEW n \in Int,
         Ordered(s \o t, r, n)
  PROVE  Ordered(t, r, n)
<1> DEFINE u == s \o t
<1>1. /\ u \in Seq(Item) /\ Len(u) = Len(s) + Len(t)
      /\ \A i \in 1 .. Len(s) + Len(t) : u[i] = IF i <= Len(s) THEN s[i] ELSE t[i - Len(s)]
  BY ConcatProperties
<1>2. Ordered(u, r, n)
  OBVIOUS
<1> HIDE DEF u
<1>3. Len(s) \in Nat /\ Len(t) \in Nat
  BY LenProperties
<1>4. ASSUME NEW k \in 1 .. Len(t)
      PROVE  Len(s) + k \in 1 .. Len(u) /\ t[k] = u[Len(s) + k]
  <2>1. Len(s) + k \in 1 .. Len(s) + Len(t) /\ ~(Len(s) + k <= Len(s)) /\ (Len(s) + k) - Len(s) = k
    BY <1>3
  <2> QED BY <1>1, <2>1
<1>5. \A k \in 1 .. Len(t) : t[k].cseq <= n
  BY <1>2, <1>4 DEF Ordered
<1>6. ASSUME NEW i \in 1 .. Len(r), NEW k \in 1 .. Len(t) PROVE t[k].cseq < r[i].cseq
  BY <1>2, <1>4 DEF Ordered
<1>7. ASSUME NEW j \in 1 .. Len(t), NEW k \in 1 .. Len(t), j < k, t[k].part = "status"
      PROVE  t[j].cseq < t[k].cseq
  <2>1. Len(s) + j < Len(s) + k
    BY <1>3, <1>7
  <2> QED BY <1>2, <1>4, <1>7, <2>1 DEF Ordered
<1>8. /\ \A i \in 1 .. Len(r) : r[i].cseq <= n
      /\ \A i, j \in 1 .. Len(r) : i < j => r[i].cseq < r[j].cseq
  BY <1>2 DEF Ordered
<1> QED BY <1>5, <1>6, <1>7, <1>8 DEF Ordered

LEMMA OrderServed ==
  ASSUME NEW s \in Seq(Item), NEW r \in Seq(Request), NEW n \in Int, Ordered(s, r, n),
         r # <<>>, NEW code \in {200, 404}
  PROVE  Ordered(s \o Reply(Head(r), code), Tail(r), n)
<1> DEFINE R == Reply(Head(r), code)
           u == s \o R
           v == Tail(r)
<1>1. Len(r) \in Nat /\ Len(r) >= 1 /\ Head(r) = r[1] /\ r[1] \in Request
  BY LenProperties, EmptySeq, HeadTailProperties, ElementOfSeq
<1>2. /\ R \in Seq(Item) /\ Len(R) \in {3, 4}
      /\ R[2].part # "status" /\ R[3].part # "status" /\ (Len(R) = 4 => R[4].part # "status")
      /\ \A k \in 1 .. Len(R) : R[k].cseq = r[1].cseq
  BY <1>1, ReplyFacts, SMTT(30)
<1>3. /\ v \in Seq(Request) /\ Len(v) = Len(r) - 1
      /\ \A i \in 1 .. Len(r) - 1 : v[i] = r[i + 1]
  BY HeadTailProperties
<1> HIDE DEF R, v
<1>4. /\ u \in Seq(Item) /\ Len(u) = Len(s) + Len(R)
      /\ \A i \in 1 .. Len(s) + Len(R) : u[i] = IF i <= Len(s) THEN s[i] ELSE R[i - Len(s)]
  BY <1>2, ConcatProperties
<1> HIDE DEF u
<1>5. Len(s) \in Nat
  BY LenProperties
<1>6. \A k \in 1 .. Len(u) :
        \/ k \in 1 .. Len(s) /\ u[k] = s[k]
        \/ k > Len(s) /\ k - Len(s) \in 1 .. Len(R) /\ u[k] = R[k - Len(s)] /\ u[k].cseq = r[1].cseq
  <2> SUFFICES ASSUME NEW k \in 1 .. Len(u)
               PROVE  \/ k \in 1 .. Len(s) /\ u[k] = s[k]
                      \/ /\ k > Len(s) /\ k - Len(s) \in 1 .. Len(R)
                         /\ u[k] = R[k - Len(s)] /\ u[k].cseq = r[1].cseq
    OBVIOUS
  <2>1. k \in 1 .. Len(s) + Len(R) /\ Len(R) \in Nat
    BY <1>2, <1>4
  <2>2. CASE k <= Len(s)
    BY <1>4, <1>5, <2>1, <2>2
  <2>3. CASE k > Len(s)
    <3>1. k - Len(s) \in 1 .. Len(R)
      BY <1>5, <2>1, <2>3
    <3>2. u[k] = R[k - Len(s)]
      BY <1>4, <1>5, <2>1, <2>3
    <3> QED BY <1>2, <2>3, <3>1, <3>2
  <2> QED BY <1>5, <2>1, <2>2, <2>3
<1>7. \A i \in 1 .. Len(v) : i + 1 \in 1 .. Len(r) /\ 1 < i + 1 /\ v[i] = r[i + 1]
  BY <1>1, <1>3
<1>8. /\ \A i \in 1 .. Len(r) : r[i].cseq \in Nat /\ r[i].cseq <= n /\ (i > 1 => r[1].cseq < r[i].cseq)
      /\ \A k \in 1 .. Len(s) : s[k].cseq \in Nat /\ s[k].cseq <= n /\ s[k].cseq < r[1].cseq
  <2>1. 1 \in 1 .. Len(r)
    BY <1>1
  <2>2. \A i \in 1 .. Len(r) : i > 1 => r[1].cseq < r[i].cseq
    BY <2>1 DEF Ordered
  <2>3. \A k \in 1 .. Len(s) : s[k].cseq < r[1].cseq
    BY <2>1 DEF Ordered
  <2> QED BY <2>2, <2>3, Numbers DEF Ordered
<1>9. 1 \in 1 .. Len(r)
  BY <1>1
<1>10. \A i \in 1 .. Len(v) : v[i].cseq <= n
  BY <1>7, <1>8
<1>11. \A k \in 1 .. Len(u) : u[k].cseq <= n
  <2>1. r[1].cseq <= n
    BY <1>8, <1>9
  <2> QED BY <1>6, <1>8, <2>1
<1>12. ASSUME NEW i \in 1 .. Len(v), NEW j \in 1 .. Len(v), i < j PROVE v[i].cseq < v[j].cseq
  <2>1. i + 1 < j + 1 /\ i + 1 \in 1 .. Len(r) /\ j + 1 \in 1 .. Len(r)
    BY <1>3, <1>7, <1>12
  <2>2. r[i + 1].cseq < r[j + 1].cseq
    BY <2>1 DEF Ordered
  <2> QED BY <1>7, <2>2
<1>13. ASSUME NEW i \in 1 .. Len(v), NEW k \in 1 .. Len(u) PROVE u[k].cseq < v[i].cseq
  <2>1. v[i] = r[i + 1] /\ i + 1 \in 1 .. Len(r) /\ r[1].cseq < r[i + 1].cseq
    BY <1>7, <1>8
  <2>2. CASE k \in 1 .. Len(s) /\ u[k] = s[k]
    BY <2>1, <2>2 DEF Ordered
  <2>3. CASE u[k].cseq = r[1].cseq
    BY <2>1, <2>3
  <2> QED BY <1>6, <2>2, <2>3
<1>14. ASSUME NEW j \in 1 .. Len(u), NEW k \in 1 .. Len(u), j < k, u[k].part = "status"
       PROVE  u[j].cseq < u[k].cseq
  <2>1. CASE k \in 1 .. Len(s) /\ u[k] = s[k]
    <3>1. j \in 1 .. Len(s) /\ u[j] = s[j]
      BY <1>5, <1>6, <1>14, <2>1
    <3> QED BY <1>14, <2>1, <3>1 DEF Ordered
  <2>2. CASE k > Len(s) /\ k - Len(s) \in 1 .. Len(R) /\ u[k] = R[k - Len(s)] /\ u[k].cseq = r[1].cseq
    <3>1. k - Len(s) = 1
      <4>1. k - Len(s) \in {1, 2, 3} \/ (k - Len(s) = 4 /\ Len(R) = 4)
        <5> DEFINE d == k - Len(s)
        <5>1. d \in 1 .. Len(R)
          BY <2>2
        <5> HIDE DEF d
        <5>2. d \in {1, 2, 3} \/ (d = 4 /\ Len(R) = 4)
          <6>1. CASE Len(R) = 3
            BY <5>1, <6>1
          <6>2. CASE Len(R) = 4
            BY <5>1, <6>2
          <6> QED BY <1>2, <6>1, <6>2
        <5> QED BY <5>2 DEF d
      <4> QED BY <1>2, <1>14, <2>2, <4>1
    <3>2. j \in 1 .. Len(s) /\ u[j] = s[j]
      <4>1. ~(j > Len(s))
        BY <1>5, <1>14, <3>1
      <4> QED BY <1>6, <4>1
    <3> QED BY <1>8, <2>2, <3>2
  <2> QED BY <1>6, <2>1, <2>2
<1> QED BY <1>10, <1>11, <1>12, <1>13, <1>14 DEF Ordered, R, u, v

LEMMA OrderStep ==
  TypeRest /\ FlagType /\ SeqInv /\ SeqInv' /\ StageInv /\ OrderInv /\ [Next]_vars => OrderInv'
<1> SUFFICES ASSUME TypeRest, FlagType, SeqInv, SeqInv', StageInv, OrderInv, [Next]_vars
             PROVE  OrderInv'
  OBVIOUS
<1>0. /\ m_cseq \in Nat /\ Newest \in Int /\ Stream \in Seq(Item) /\ Stream' \in Seq(Item)
      /\ requests \in Seq(Request) /\ Ordered(Stream, requests, Newest)
  <2>1. Stream' \in Seq(Item)
    BY ConcatProperties DEF SeqInv, Stream
  <2> QED BY <2>1, StreamType DEF TypeRest, FlagType, Newest, SeqInv, OrderInv
<1>1. CASE api_init
  <2>1. Stream' = <<>> /\ requests' = <<>> /\ ~reading'
    BY <1>1, StreamNew DEF api_init, StageInv, Methods
  <2>2. \A n : Ordered(<<>>, <<>>, n)
    BY DEF Ordered
  <2> QED BY <2>1, <2>2 DEF OrderInv, Ordered
<1>2. CASE WriteRequest
  <2>1. /\ Stream' = Stream /\ m_cseq' = m_cseq
        /\ requests' = Append(requests, sent') \/ requests' = requests
        /\ ~reading /\ reading' /\ sent'.cseq = m_cseq
    BY <1>2, StreamKept DEF WriteRequest
  <2>2. sent' \in Request
    BY DEF SeqInv
  <2>3. Newest = m_cseq - 1 /\ Newest' = Newest + 1 /\ sent'.cseq = Newest + 1
    BY <1>0, <2>1 DEF Newest
  <2>4. ASSUME NEW q \in Request, q.cseq = Newest + 1
        PROVE  Ordered(Stream, Append(requests, q), Newest + 1)
    BY <1>0, <2>4, OrderWritten
  <2>5. Ordered(Stream, Append(requests, sent'), Newest + 1)
    BY <2>2, <2>3, <2>4
  <2>8. Ordered(Stream, requests, Newest + 1)
    <3>1. /\ \A i \in 1 .. Len(requests) : requests[i].cseq \in Nat
          /\ \A k \in 1 .. Len(Stream) : Stream[k].cseq \in Nat
      BY <1>0, Numbers
    <3>2. \A x \in Nat : x <= Newest => x <= Newest + 1
      BY <1>0
    <3>3. Ordered(Stream, requests, Newest)
      BY <1>0
    <3> QED BY <3>1, <3>2, <3>3 DEF Ordered
  <2>6. Ordered(Stream', requests', Newest')
    BY <2>1, <2>3, <2>5, <2>8
  <2>7. ASSUME NEW i \in 1 .. Len(requests'), requests'[i].cseq = m_cseq PROVE requests'[i] = sent'
    <3>1. i \in 1 .. Len(requests) => requests[i].cseq <= m_cseq - 1 /\ requests[i].cseq \in Nat
      BY <1>0, <2>3, Numbers DEF Ordered
    <3>2. (i \in 1 .. Len(requests) /\ requests'[i] = requests[i]) \/ requests'[i] = sent'
      BY <1>0, <2>1, <2>2, AppendProperties, LenProperties
    <3> QED BY <1>0, <2>7, <3>1, <3>2
  <2> QED BY <2>1, <2>6, <2>7 DEF OrderInv, Ordered
<1>3. CASE UNCHANGED <<Stream, requests, reading, m_cseq, sent>>
  BY <1>3 DEF OrderInv, Ordered, Newest
<1>4. CASE EndRequest
  <2>1. /\ Stream = m_rtsp_buffer \o Stream' /\ m_rtsp_buffer \in Seq(Item)
        /\ requests' = requests /\ ~reading' /\ Newest' = Newest
    BY <1>0, <1>4, EndFacts, StreamRead DEF Newest, SeqInv
  <2>2. ASSUME NEW t \in Seq(Item), Stream = m_rtsp_buffer \o t PROVE Ordered(t, requests, Newest)
    <3>1. Ordered(m_rtsp_buffer \o t, requests, Newest)
      BY <1>0, <2>2
    <3> QED BY <1>0, <2>1, <3>1, OrderRead
  <2>3. Ordered(Stream', requests, Newest)
    BY <1>0, <2>1, <2>2
  <2> QED BY <2>1, <2>3 DEF OrderInv, Ordered
<1>5. ASSUME NEW code \in {200, 404}, Serve(code) PROVE OrderInv'
  <2>1. /\ requests # <<>> /\ requests' = Tail(requests)
        /\ UNCHANGED <<reading, m_cseq, sent>> /\ Newest' = Newest
    BY <1>5 DEF Serve, client, Newest
  <2>2. Stream' = Stream \o Reply(Head(requests), code)
    BY <1>5, StreamServed, SMTT(30)
  <2>3. Ordered(Stream \o Reply(Head(requests), code), Tail(requests), Newest)
    BY <1>0, <2>1, OrderServed
  <2>4. \A i \in 1 .. Len(requests') : i + 1 \in 1 .. Len(requests) /\ requests'[i] = requests[i + 1]
    <3>1. Len(requests) \in Nat /\ Len(requests) >= 1 /\ Len(requests') = Len(requests) - 1
          /\ \A i \in 1 .. Len(requests) - 1 : requests'[i] = requests[i + 1]
      BY <1>0, <2>1, HeadTailProperties, LenProperties, EmptySeq
    <3> QED BY <3>1
  <2>5. Ordered(Stream', requests', Newest')
    BY <2>1, <2>2, <2>3
  <2>6. reading' => \A i \in 1 .. Len(requests') : requests'[i].cseq = m_cseq' => requests'[i] = sent'
    BY <2>1, <2>4 DEF OrderInv
  <2> QED BY <2>5, <2>6 DEF OrderInv, Ordered
<1>6. CASE \/ WriteRequest \/ Sigpipe \/ ReadReply \/ api_deinit \/ UNCHANGED vars
           \/ \E n \in 1 .. Len(wire) : Arrive(n)
  <2>1. CASE WriteRequest
    BY <1>2, <2>1
  <2>2. CASE Sigpipe \/ ReadReply \/ api_deinit \/ UNCHANGED vars \/ \E n \in 1 .. Len(wire) : Arrive(n)
    <3>1. UNCHANGED <<requests, reading, m_cseq, sent>>
      BY <2>2 DEF Sigpipe, ReadReply, api_deinit, vars, Arrive, client, net, hist
    <3>2. Stream' = Stream
      BY <2>2, StreamKept
    <3> QED BY <1>3, <3>1, <3>2
  <2> QED BY <1>6, <2>1, <2>2
<1>7. CASE Close \/ Reset
  <2>1. requests' = <<>> /\ UNCHANGED <<reading, m_cseq, sent>> /\ Newest' = Newest
    BY <1>7 DEF Close, Reset, client, Newest
  <2>2. /\ Len(Stream') \in Nat /\ Len(Stream) \in Nat /\ Len(Stream') <= Len(Stream)
        /\ \A k \in 1 .. Len(Stream') : Stream'[k] = Stream[k]
    BY <1>0, <1>7, StreamKept, StreamCut, LenProperties
  <2>3. \A k \in 1 .. Len(Stream') : k \in 1 .. Len(Stream) /\ Stream'[k] = Stream[k]
    BY <2>2
  <2>4. Ordered(Stream', <<>>, Newest)
    BY <1>0, <2>3 DEF Ordered
  <2> QED BY <2>1, <2>4 DEF OrderInv, Ordered
<1> QED BY <1>1, <1>4, <1>5, <1>6, <1>7, StepKinds

---------------------------------------------------------------------------
(* What the client learns, and what it accepts                             *)

LEMMA SessionStep ==
  ASSUME SeqInv, StageInv, ShapeInv, WholeInv, FlagType, SessionInv, PlayHasSession, OwnReplyAccepted,
         TypeRest, [Next]_vars
  PROVE  SessionInv' /\ PlayHasSession' /\ OwnReplyAccepted'
<1> USE DEF SessionInv, PlayHasSession, OwnReplyAccepted
<1>1. CASE api_init
  BY <1>1 DEF api_init, NoRequest
<1>2. CASE WriteRequest
  BY <1>2, Bounds DEF WriteRequest, reply, StageInv, Methods, TypeRest
<1>3. CASE ReadReply
  BY <1>3 DEF ReadReply, reply, hist
<1>4. CASE EndRequest
  <2>1. reading /\ cut' = cut /\ sent' = sent /\ inits' = inits
    BY <1>4, EndFacts
  <2>2. ~cut' => answered'[1] = answered'[2]
    <3> SUFFICES ASSUME ~cut PROVE answered'[1] = answered'[2]
      BY <2>1
    <3>1. answered' \in {answered, <<m_cseq, m_rtsp_buffer[1].cseq>>}
          /\ (answered' # answered => ParseSucceeds(m_rtsp_buffer))
      BY <1>4 DEF EndRequest, EndOptions, EndDescribe, EndSetup, EndPlay, Accept
    <3>2. ParseSucceeds(m_rtsp_buffer) => m_rtsp_buffer[1].cseq = m_cseq
      BY <2>1, HeaderWhole DEF ParseSucceeds, Matches
    <3> QED BY <3>1, <3>2
  <2>3. ~cut' /\ stage' = "PLAY" => fSessionId' = inits'
    <3> SUFFICES ASSUME ~cut, stage' = "PLAY" PROVE fSessionId' = inits
      BY <2>1
    <3>1. EndSetup
      BY <1>4, Stages DEF EndRequest, EndOptions, EndDescribe, EndPlay, Proceed
    <3>2. ParseSucceeds(m_rtsp_buffer)
      BY <3>1 DEF EndSetup, Proceed
    <3>3. FieldsRead(m_rtsp_buffer)
      BY <2>1, <3>2, HeaderWhole DEF ParseSucceeds, Matches
    <3> QED BY <3>1, <3>2, <3>3 DEF EndSetup, ParseSetup, ParseSucceeds
  <2> QED BY <2>1, <2>2, <2>3
<1>5. CASE api_deinit
  BY <1>5 DEF api_deinit, reply, hist
<1>6. ASSUME NEW code \in {200, 404}, Serve(code) PROVE SessionInv' /\ PlayHasSession' /\ OwnReplyAccepted'
  BY <1>6 DEF Serve, client, reply
<1>7. ASSUME NEW n \in 1 .. Len(wire), Arrive(n) PROVE SessionInv' /\ PlayHasSession' /\ OwnReplyAccepted'
  BY <1>7 DEF Arrive, client, reply, FlagType
<1>8. CASE UNCHANGED vars
  BY <1>8 DEF vars, client, reply, hist
<1>9. CASE Sigpipe \/ Close \/ Reset
  BY <1>9 DEF Sigpipe, Close, Reset, client, reply, hist
<1> QED BY <1>1, <1>2, <1>3, <1>4, <1>5, <1>6, <1>7, <1>8, <1>9, StepKinds

---------------------------------------------------------------------------
(* While nothing goes wrong                                                *)

\* A reply that was read whole is all there is in the stream.
LEMMA ExactWhole ==
  ASSUME SeqInv, reading, sent.method = stage, sent.cseq = m_cseq, Exact(Stream, requests),
         WholeReply(m_rtsp_buffer)
  PROVE  /\ requests = <<>> /\ Stream = Reply(sent, 200) /\ Len(m_rtsp_buffer) = Len(Stream)
         /\ ParseSucceeds(m_rtsp_buffer) /\ FieldsRead(m_rtsp_buffer)
         /\ stage = "DESCRIBE" => BodyRead(m_rtsp_buffer)
<1> DEFINE b == m_rtsp_buffer
           n == Len(Stream)
           m == Len(b)
<1>1. PICK i \in 1 .. Len(b) :
        /\ b[i].cseq = m_cseq
        /\ b[i].part = IF stage = "DESCRIBE" /\ b[i].code = 200 THEN "body" ELSE "fields"
  BY DEF WholeReply
<1>2. /\ Stream \in Seq(Item) /\ Len(b) \in Nat /\ n \in Nat /\ Len(b) <= n
      /\ \A k \in 1 .. Len(b) : b[k] = Stream[k]
  BY BufferPrefix
<1>3. requests = <<>> /\ Stream = Reply(sent, 200)
  <2>1. n > 0
    BY <1>2
  <2>2. Stream # <<>>
    BY <2>1
  <2> QED BY <2>2 DEF Exact
<1>4. /\ n = IF stage = "DESCRIBE" THEN 4 ELSE 3
      /\ Stream[1].part = "status" /\ Stream[2].part = "cseq" /\ Stream[3].part = "fields"
      /\ n = 4 => Stream[4].part = "body"
      /\ \A k \in 1 .. n : Stream[k].cseq = m_cseq /\ Stream[k].code = 200
  <2>1. sent \in Request
    BY DEF SeqInv
  <2> QED BY <1>3, <2>1, ReplyFacts
<1>5. i \in 1 .. n /\ b[i] = Stream[i] /\ Stream[i].code = 200
  BY <1>1, <1>2, <1>4
<1>0. i \in Nat /\ i <= m /\ m \in Nat /\ m <= n
  BY <1>2
<1> HIDE DEF b, n, m
<1>6. Len(b) = n
  <2>1. CASE stage = "DESCRIBE"
    <3>1. Stream[i].part = "body" /\ n = 4
      BY <1>1, <1>4, <1>5, <2>1
    <3>2. i = 4
      BY <1>4, <1>5, <3>1
    <3>3. m = n
      BY <1>0, <3>1, <3>2
    <3> QED BY <3>3 DEF m
  <2>2. CASE stage # "DESCRIBE"
    <3>1. Stream[i].part = "fields" /\ n = 3
      BY <1>1, <1>4, <1>5, <2>2
    <3>2. i = 3
      BY <1>4, <1>5, <3>1
    <3>3. m = n
      BY <1>0, <3>1, <3>2
    <3> QED BY <3>3 DEF m
  <2> QED BY <2>1, <2>2
<1>7. /\ Len(b) \in {3, 4} /\ b[1] = Stream[1] /\ b[2] = Stream[2] /\ b[3] = Stream[3]
      /\ Len(b) = 4 => b[4] = Stream[4]
  BY <1>2, <1>4, <1>6
<1>8. WellFormed(b) /\ CSeqRead(b) /\ FieldsRead(b) /\ b[2].cseq = m_cseq /\ b[1].code = 200
  BY <1>4, <1>7 DEF WellFormed, CSeqRead, FieldsRead
<1>9. stage = "DESCRIBE" => BodyRead(b)
  BY <1>4, <1>6, <1>7, <1>8 DEF BodyRead
<1> QED BY <1>3, <1>6, <1>8, <1>9 DEF ParseSucceeds, Matches, b, n

LEMMA ResetStep == ResetInv /\ [Next]_vars => ResetInv'
<1> SUFFICES ASSUME ResetInv, [Next]_vars PROVE ResetInv'
  OBVIOUS
<1> USE DEF ResetInv
<1>1. CASE api_init
  BY <1>1 DEF api_init
<1>2. CASE WriteRequest
  BY <1>2 DEF WriteRequest, ErrorReported
<1>3. CASE ReadReply
  BY <1>3 DEF ReadReply, ErrorReported, hist
<1>4. CASE EndRequest
  BY <1>4 DEF EndRequest, EndOptions, EndDescribe, EndSetup, EndPlay, Proceed, net
<1>5. CASE api_deinit
  BY <1>5 DEF api_deinit, net, hist
<1>6. ASSUME NEW code \in {200, 404}, Serve(code) PROVE ResetInv'
  BY <1>6 DEF Serve
<1>7. ASSUME NEW n \in 1 .. Len(wire), Arrive(n) PROVE ResetInv'
  BY <1>7 DEF Arrive
<1>8. CASE UNCHANGED vars
  BY <1>8 DEF vars, net, hist
<1>9. CASE Sigpipe
  BY <1>9 DEF Sigpipe, net, hist
<1>10. CASE Close
  BY <1>10 DEF Close
<1>11. CASE Reset
  BY <1>11 DEF Reset
<1> QED BY <1>1, <1>2, <1>3, <1>4, <1>5, <1>6, <1>7, <1>8, <1>9, <1>10, <1>11, StepKinds

LEMMA ExactStep ==
  ASSUME TypeRest, FlagType, SeqInv, StageInv, ExactInv, SetupHasTrack, FailureExcused, ResetInv, [Next]_vars
  PROVE  ExactInv' /\ SetupHasTrack' /\ FailureExcused'
<1> USE DEF ExactInv, SetupHasTrack, FailureExcused
<1>1. CASE api_init
  <2>1. Stream' = <<>> /\ ~reading'
    BY <1>1, StreamNew DEF api_init, StageInv, Methods
  <2>2. requests' = <<>> /\ sent' = NoRequest /\ stage' \in {"OPTIONS", "failed"}
        /\ (stage' = "failed" => excused')
    BY <1>1 DEF api_init
  <2>3. sent'.method # "SETUP"
    BY <2>2 DEF NoRequest
  <2> QED BY <2>1, <2>2, <2>3 DEF Clear
<1>2. CASE WriteRequest
  <2>1. Stream' = Stream
    BY <1>2, StreamKept
  <2>2. /\ stage \in Methods /\ ~reading /\ reading'
        /\ (requests' = Append(requests, sent') /\ excused' = excused) \/ excused' = TRUE
        /\ UNCHANGED <<stage, fControlPath, inits>>
        /\ (sent'.method = "SETUP" => stage = "SETUP" /\ sent'.path = fControlPath)
    BY <1>2 DEF WriteRequest, reply
  <2>3. ~excused' => (Exact(Stream, requests))' /\ stage' # "idle"
    <3>1. ~excused' => Stream = <<>> /\ requests = <<>> /\ requests' = Append(requests, sent')
      BY <2>2 DEF Clear
    <3>2. \A q : Append(<<>>, q) = <<q>>
      OBVIOUS
    <3> SUFFICES ASSUME ~excused' PROVE (Exact(Stream, requests))' /\ stage' # "idle"
      OBVIOUS
    <3>3. Stream' = <<>> /\ requests' = <<sent'>>
      BY <2>1, <2>2, <3>1, <3>2
    <3>4. (Exact(Stream, requests))'
      BY <3>3 DEF Exact
    <3> QED BY <2>2, <3>4 DEF Methods
  <2>4. inits # 0
    BY <2>2 DEF StageInv, Methods
  <2> QED BY <2>1, <2>2, <2>3, <2>4 DEF Methods, Exact
<1>3. CASE EndRequest
  <2>1. /\ reading /\ reading' = FALSE /\ stage \in Methods /\ sent.method = stage /\ sent.cseq = m_cseq
        /\ UNCHANGED <<requests, sent, inits>>
    BY <1>3, EndFacts DEF StageInv
  <2>2. Stream = m_rtsp_buffer \o Stream' /\ Stream' \in Seq(Item) /\ m_rtsp_buffer \in Seq(Item)
    BY <1>3, StreamRead DEF SeqInv
  <2>3. ~excused' => ~excused /\ WholeReply(m_rtsp_buffer)
    BY <1>3 DEF EndRequest, EndOptions, EndDescribe, EndSetup, EndPlay, Proceed
  <2> SUFFICES ASSUME ~excused' PROVE ExactInv' /\ SetupHasTrack' /\ FailureExcused'
    BY <2>1
  <2>4. Exact(Stream, requests)
    BY <2>1, <2>3
  <2>5. /\ requests = <<>> /\ Len(m_rtsp_buffer) = Len(Stream) /\ ParseSucceeds(m_rtsp_buffer)
        /\ stage = "DESCRIBE" => BodyRead(m_rtsp_buffer)
    BY <2>1, <2>3, <2>4, ExactWhole
  <2>6. Stream' = <<>>
    <3>1. Len(Stream) = Len(m_rtsp_buffer) + Len(Stream') /\ Len(m_rtsp_buffer) \in Nat
          /\ Len(Stream') \in Nat
      BY <2>2, ConcatProperties, LenProperties
    <3>2. Len(Stream') = 0
      BY <2>5, <3>1
    <3> QED BY <2>2, <3>2, EmptySeq
  <2>7. stage' \notin {"failed", "killed"}
    <3>1. stage' = NextStage(stage)
      BY <1>3, <2>5 DEF EndRequest, EndOptions, EndDescribe, EndSetup, EndPlay, Proceed
    <3> QED BY <2>1, <3>1, Stages DEF Methods
  <2>8. stage' = "SETUP" => fControlPath' = inits'
    <3> SUFFICES ASSUME stage' = "SETUP" PROVE fControlPath' = inits
      BY <2>1
    <3>1. EndDescribe
      BY <1>3, Stages DEF EndRequest, EndOptions, EndSetup, EndPlay, Proceed
    <3>2. ParseDescribe(m_rtsp_buffer) /\ stage = "DESCRIBE"
      BY <3>1 DEF EndDescribe
    <3> QED BY <2>5, <3>2 DEF ParseDescribe, ParseSucceeds
  <2>9. SetupHasTrack'
    BY <2>1, <2>3
  <2> QED BY <2>1, <2>5, <2>6, <2>7, <2>8, <2>9 DEF Clear
<1>4. CASE api_deinit
  BY <1>4 DEF api_deinit, hist, Methods
<1>5. ASSUME NEW code \in {200, 404}, Serve(code) PROVE ExactInv' /\ SetupHasTrack' /\ FailureExcused'
  <2>1. /\ requests # <<>> /\ requests' = Tail(requests)
        /\ UNCHANGED <<stage, reading, sent, fControlPath, inits>>
        /\ (~excused' => ~excused /\ code = 200) /\ (excused => excused')
    BY <1>5 DEF Serve, client, reply
  <2>2. Stream' = Stream \o Reply(Head(requests), code)
    BY <1>5, StreamServed
  <2>3. ~excused' /\ stage \in Methods => reading /\ Exact(Stream', requests')
    <3> SUFFICES ASSUME ~excused', stage \in Methods PROVE reading /\ Exact(Stream', requests')
      OBVIOUS
    <3>1. reading /\ Exact(Stream, requests)
      BY <2>1 DEF Clear
    <3>2. requests = <<sent>> /\ Stream = <<>>
      BY <2>1, <3>1 DEF Exact
    <3>3. Head(requests) = sent /\ Tail(requests) = <<>>
      BY <3>2
    <3>4. Reply(sent, 200) \in Seq(Item)
      BY ReplyFacts DEF SeqInv
    <3>5. Stream' = Reply(sent, 200)
      BY <2>1, <2>2, <3>2, <3>3, <3>4, ConcatEmptySeq
    <3> QED BY <2>1, <3>1, <3>3, <3>5 DEF Exact
  <2> QED BY <2>1, <2>3 DEF Exact
<1>6. CASE WriteRequest \/ ReadReply \/ api_deinit \/ UNCHANGED vars \/ \E n \in 1 .. Len(wire) : Arrive(n)
  <2>1. CASE ReadReply \/ UNCHANGED vars \/ \E n \in 1 .. Len(wire) : Arrive(n)
    <3>1. UNCHANGED <<requests, reading, stage, sent, fControlPath, inits, excused>>
      BY <2>1 DEF ReadReply, vars, Arrive, client, net, hist, reply
    <3>2. Stream' = Stream
      BY <2>1, StreamKept
    <3> QED BY <3>1, <3>2 DEF Exact, Clear
  <2> QED BY <1>2, <1>4, <1>6, <2>1
<1>7. CASE Close \/ Reset
  BY <1>7 DEF Close, Reset, client
<1>8. CASE Sigpipe
  BY <1>8 DEF Sigpipe, hist, reply, Methods, ResetInv
<1> QED BY <1>1, <1>3, <1>5, <1>6, <1>7, <1>8, StepKinds

---------------------------------------------------------------------------
(* The end of a session                                                    *)

\* After SETUP was accepted, no reply to an earlier request is to come but the
\* rest of one whose status line was read.
LEMMA PlayBegins ==
  ASSUME TypeRest, SeqInv, SeqInv', StageInv, LinkInv, ShapeInv, OrderInv, EndSetup, stage' = "PLAY"
  PROVE  /\ ~reading'
         /\ \/ Len(Stream') > 0 /\ Stream'[1].part = "cseq"
            \/ requests' = <<>> /\ \A k \in 1 .. Len(Stream') : Stream'[k].part # "status"
<1> DEFINE b == m_rtsp_buffer
           t == Stream'
<1>1. EndRequest /\ reading /\ ~reading' /\ requests' = requests
  BY EndFacts DEF EndRequest
<1>2. WellFormed(b) /\ (CSeqRead(b) => b[2].cseq = m_cseq)
  BY DEF EndSetup, Proceed, ParseSucceeds, Matches
<1>3. Stream = b \o t /\ t \in Seq(Item) /\ b \in Seq(Item)
  BY <1>1, StreamRead DEF SeqInv
<1>4. /\ Stream \in Seq(Item) /\ Len(b) \in Nat /\ Len(t) \in Nat /\ Len(Stream) = Len(b) + Len(t)
      /\ \A i \in 1 .. Len(b) + Len(t) : Stream[i] = IF i <= Len(b) THEN b[i] ELSE t[i - Len(b)]
  BY <1>3, ConcatProperties, LenProperties
<1>5. Len(b) > 0 /\ b[1].part = "status"
  BY <1>2 DEF WellFormed
<1>6. \A k \in 1 .. Len(Stream) - 1 : Follows(Stream[k], Stream[k + 1])
  BY DEF ShapeInv, Chained
<1>7. Stream[1] = b[1] /\ 1 \in 1 .. Len(Stream)
  BY <1>4, <1>5
<1>15. CASE Len(Stream) = 1
  <2>1. Len(t) = 0
    <3>1. \A x, y \in Nat : x > 0 /\ x + y = 1 => y = 0
      OBVIOUS
    <3> HIDE DEF t, b
    <3> QED BY <3>1, <1>4, <1>5, <1>15
  <2>2. link # "up"
    BY <1>5, <1>7, <1>15, StreamType DEF ShapeInv, EndsWhole, InHeader
  <2> QED BY <1>1, <2>1, <2>2 DEF LinkInv
<1>8. SUFFICES ASSUME Len(Stream) # 1
      PROVE  \/ Len(t) > 0 /\ t[1].part = "cseq"
             \/ requests' = <<>> /\ \A k \in 1 .. Len(t) : t[k].part # "status"
  BY <1>1, <1>15
<1> DEFINE m == Len(b)
           n == Len(Stream)
<1>9. m \in Nat /\ n \in Nat /\ m > 0 /\ n >= m /\ n # 1
  BY <1>4, <1>5, <1>8
<1>10. ASSUME NEW k \in 1 .. Len(t)
       PROVE  m + k \in 1 .. n /\ Stream[m + k] = t[k]
  <2>1. m + k \in 1 .. m + Len(t) /\ ~(m + k <= m) /\ (m + k) - m = k
    BY <1>9
  <2> QED BY <1>4, <2>1
<1>11. m = 1 => Len(t) > 0
  BY <1>4, <1>9
<1>12. Stream[2].part = "cseq" /\ Stream[2].cseq = b[1].cseq
  <2> HIDE DEF m, n, b, t
  <2>1. 1 \in 1 .. n - 1 /\ 1 + 1 = 2
    BY <1>9
  <2>2. Follows(Stream[1], Stream[2])
    BY <1>6, <2>1 DEF n
  <2> QED BY <1>5, <1>7, <2>2 DEF Follows
<1>13. CASE m = 1
  <2>1. t[1] = Stream[2] /\ Len(t) > 0
    <3> HIDE DEF m, n, b, t
    <3>1. Len(t) > 0
      BY <1>11, <1>13
    <3>2. Len(t) \in Nat
      BY <1>4
    <3>3. 1 \in 1 .. Len(t) /\ 1 + 1 = 2
      BY <3>1, <3>2
    <3> QED BY <1>10, <1>13, <3>1, <3>3
  <2> QED BY <1>1, <1>12, <2>1
<1>14. CASE m # 1
  <2> HIDE DEF m, n, b, t
  <2>1. m > 1
    BY <1>9, <1>14
  <2>2. b[2] = Stream[2]
    <3>1. 2 \in 1 .. Len(b) + Len(t) /\ 2 <= Len(b)
      BY <1>4, <2>1 DEF m
    <3> QED BY <1>4, <3>1
  <2>3. Stream[1].cseq = m_cseq
    <3>1. CSeqRead(b)
      BY <1>12, <2>1, <2>2 DEF CSeqRead, m
    <3> QED BY <1>2, <1>7, <1>12, <2>2, <3>1
  <2>4. Ordered(Stream, requests, m_cseq)
    BY <1>1 DEF OrderInv, Newest
  <2>5. m_cseq \in Nat
    BY DEF TypeRest
  <2>6. ASSUME NEW k \in 1 .. Len(t), t[k].part = "status" PROVE FALSE
    <3>1. m + k \in 1 .. n /\ Stream[m + k] = t[k] /\ 1 < m + k
      BY <1>9, <1>10, <2>1
    <3>2. Stream[1].cseq < Stream[m + k].cseq /\ Stream[m + k].cseq <= m_cseq
      BY <1>7, <2>4, <2>6, <3>1 DEF Ordered, n
    <3>3. Stream[m + k].cseq \in Nat
      BY <1>4, <3>1, Numbers DEF SeqInv, n
    <3> QED BY <2>3, <2>5, <3>2, <3>3
  <2>7. requests = <<>>
    <3> SUFFICES ASSUME requests # <<>> PROVE FALSE
      OBVIOUS
    <3>1. 1 \in 1 .. Len(requests)
      BY LenProperties, EmptySeq DEF SeqInv
    <3>2. Stream[1].cseq < requests[1].cseq /\ requests[1].cseq <= m_cseq
      BY <1>7, <2>4, <3>1 DEF Ordered
    <3>3. requests[1].cseq \in Nat
      BY <1>4, <3>1, Numbers DEF SeqInv
    <3> QED BY <2>3, <2>5, <3>2, <3>3
  <2> QED BY <1>1, <2>6, <2>7 DEF t
<1> QED BY <1>13, <1>14

LEMMA PlayStep ==
  ASSUME TypeRest, FlagType, SeqInv, SeqInv', StageInv, LinkInv, ShapeInv, OrderInv, PlayInv, [Next]_vars
  PROVE  PlayInv'
<1> USE DEF PlayInv
<1>1. CASE api_init
  BY <1>1 DEF api_init
<1>2. CASE WriteRequest
  <2>1. /\ Stream' = Stream /\ stage' = stage /\ ~reading /\ reading'
        /\ requests' = Append(requests, sent') \/ requests' = requests
    BY <1>2, StreamKept DEF WriteRequest
  <2>2. \A q : Append(<<>>, q) = <<q>>
    OBVIOUS
  <2> QED BY <2>1, <2>2
<1>3. CASE ReadReply \/ UNCHANGED vars \/ \E n \in 1 .. Len(wire) : Arrive(n)
  <2>1. UNCHANGED <<requests, reading, stage, m_cseq, sent>>
    BY <1>3 DEF ReadReply, vars, Arrive, client, net, hist
  <2>2. Stream' = Stream
    BY <1>3, StreamKept
  <2> QED BY <2>1, <2>2
<1>4. CASE EndRequest
  <2>1. CASE stage' = "PLAY"
    <3>1. EndSetup
      BY <1>4, <2>1, Stages DEF EndRequest, EndOptions, EndDescribe, EndPlay, Proceed
    <3> QED BY <2>1, <3>1, PlayBegins
  <2> QED BY <2>1
<1>5. CASE api_deinit
  BY <1>5 DEF api_deinit
<1>6. ASSUME NEW code \in {200, 404}, Serve(code) PROVE PlayInv'
  <2>1. requests # <<>> /\ requests' = Tail(requests) /\ UNCHANGED <<reading, stage, m_cseq, sent>>
    BY <1>6 DEF Serve, client
  <2> DEFINE R == Reply(Head(requests), code)
  <2>2. Stream' = Stream \o R
    BY <1>6, StreamServed
  <2>3. Head(requests) \in Request
    BY <2>1, HeadTailProperties DEF SeqInv
  <2>4. R \in Seq(Item) /\ \A k \in 1 .. Len(R) : R[k].cseq = Head(requests).cseq
    BY <2>3, ReplyFacts
  <2> HIDE DEF R
  <2>5. /\ Len(Stream) \in Nat /\ Len(R) \in Nat /\ Len(Stream') = Len(Stream) + Len(R)
        /\ \A i \in 1 .. Len(Stream) + Len(R) :
             Stream'[i] = IF i <= Len(Stream) THEN Stream[i] ELSE R[i - Len(Stream)]
    BY <2>2, <2>4, StreamType, ConcatProperties, LenProperties
  <2> SUFFICES ASSUME stage = "PLAY" PROVE PlayInv'
    BY <2>1
  <2>6. CASE Len(Stream) > 0 /\ Stream[1].part = "cseq"
    <3>1. Len(Stream') > 0 /\ Stream'[1] = Stream[1]
      BY <2>5, <2>6
    <3> QED BY <2>6, <3>1
  <2>7. CASE ~(Len(Stream) > 0 /\ Stream[1].part = "cseq")
    <3>1. /\ \A k \in 1 .. Len(Stream) : Stream[k].part = "status" => Stream[k].cseq = m_cseq
          /\ reading /\ requests = <<sent>>
      BY <2>1, <2>7
    <3>2. Head(requests) = sent /\ Tail(requests) = <<>> /\ sent.cseq = m_cseq
      BY <3>1 DEF StageInv
    <3>3. \A k \in 1 .. Len(Stream') :
            (k \in 1 .. Len(Stream) /\ Stream'[k] = Stream[k]) \/ Stream'[k].cseq = m_cseq
      <4> SUFFICES ASSUME NEW k \in 1 .. Len(Stream'), ~(k <= Len(Stream))
                   PROVE  Stream'[k].cseq = m_cseq
        BY <2>5
      <4>1. k - Len(Stream) \in 1 .. Len(R) /\ Stream'[k] = R[k - Len(Stream)]
        BY <2>5
      <4> QED BY <2>4, <3>2, <4>1
    <3> QED BY <2>1, <3>1, <3>2, <3>3
  <2> QED BY <2>6, <2>7
<1>7. CASE Close \/ Reset
  <2>1. requests' = <<>> /\ UNCHANGED <<reading, m_cseq, stage>>
    BY <1>7 DEF Close, Reset, client
  <2>2. /\ Len(Stream') \in Nat /\ Len(Stream) \in Nat /\ Len(Stream') <= Len(Stream)
        /\ \A k \in 1 .. Len(Stream') : Stream'[k] = Stream[k]
    BY <1>7, StreamType, StreamKept, StreamCut, LenProperties
  <2>3. \A k \in 1 .. Len(Stream') : k \in 1 .. Len(Stream) /\ Stream'[k] = Stream[k]
    BY <2>2
  <2>4. CASE Len(Stream') > 0 /\ Stream[1].part = "cseq"
    <3>1. Stream'[1] = Stream[1]
      BY <2>2, <2>4
    <3> QED BY <2>4, <3>1
  <2>5. CASE Len(Stream) > 0 /\ Stream[1].part = "cseq" /\ ~(Len(Stream') > 0)
    <3>1. Len(Stream') = 0
      BY <2>2, <2>5
    <3> QED BY <2>1, <3>1
  <2>6. CASE ~(Len(Stream) > 0 /\ Stream[1].part = "cseq")
    BY <2>1, <2>3, <2>6
  <2> QED BY <2>2, <2>4, <2>5, <2>6
<1>8. CASE Sigpipe
  BY <1>8 DEF Sigpipe
<1> QED BY <1>1, <1>2, <1>3, <1>4, <1>5, <1>6, <1>7, <1>8, StepKinds

LEMMA ServedStep ==
  ASSUME TypeRest, FlagType, SeqInv, SeqInv', StageInv, OrderInv, ServedInv, [Next]_vars
  PROVE  ServedInv'
<1> USE DEF ServedInv
<1>1. CASE api_init
  BY <1>1 DEF api_init
<1>2. CASE WriteRequest
  <2>1. Stream' = Stream /\ m_cseq' = m_cseq /\ ~reading
    BY <1>2, StreamKept DEF WriteRequest
  <2>2. m_cseq \in Nat /\ \A k \in 1 .. Len(Stream) : Stream[k].cseq \in Nat /\ Stream[k].cseq <= m_cseq - 1
    BY <2>1, Numbers, StreamType DEF OrderInv, Ordered, Newest, SeqInv, TypeRest
  <2> QED BY <2>1, <2>2
<1>3. CASE ReadReply \/ UNCHANGED vars \/ \E n \in 1 .. Len(wire) : Arrive(n)
  <2>1. UNCHANGED <<server, reading, stage, m_cseq>>
    BY <1>3 DEF ReadReply, vars, Arrive, client, net
  <2>2. Stream' = Stream
    BY <1>3, StreamKept
  <2> QED BY <2>1, <2>2
<1>4. CASE EndRequest
  BY <1>4, EndFacts
<1>5. CASE api_deinit
  BY <1>5 DEF api_deinit
<1>6. ASSUME NEW code \in {200, 404}, Serve(code) PROVE ServedInv'
  <2>1. /\ requests # <<>> /\ requests' = Tail(requests)
        /\ UNCHANGED <<reading, stage, m_cseq, sent>>
        /\ code = 200 /\ Head(requests).method = "PLAY" => server' = "playing"
    BY <1>6 DEF Serve, client
  <2>2. Stream' = Stream \o Reply(Head(requests), code)
    BY <1>6, StreamServed
  <2> DEFINE R == Reply(Head(requests), code)
  <2>3. /\ Head(requests) \in Request /\ Head(requests) = requests[1] /\ 1 \in 1 .. Len(requests)
        /\ Len(requests) \in Nat
    BY <2>1, HeadTailProperties, LenProperties, EmptySeq DEF SeqInv
  <2>4. R \in Seq(Item) /\ \A k \in 1 .. Len(R) : R[k].cseq = Head(requests).cseq /\ R[k].code = code
    BY <2>3, ReplyFacts
  <2> HIDE DEF R
  <2>5. /\ Len(Stream) \in Nat /\ Len(R) \in Nat /\ Len(Stream') = Len(Stream) + Len(R)
        /\ \A i \in 1 .. Len(Stream) + Len(R) :
             Stream'[i] = IF i <= Len(Stream) THEN Stream[i] ELSE R[i - Len(Stream)]
    BY <2>2, <2>4, StreamType, ConcatProperties, LenProperties DEF R
  <2> SUFFICES ASSUME stage = "PLAY", reading, NEW k \in 1 .. Len(Stream'),
                      Stream'[k].cseq = m_cseq, Stream'[k].code = 200
               PROVE  server' = "playing"
    BY <2>1
  <2>6. requests[1].cseq \in Nat /\ requests[1].cseq <= m_cseq /\ m_cseq \in Nat
    BY <2>3, Numbers, StreamType, SMTT(30) DEF OrderInv, Ordered, Newest, SeqInv, TypeRest
  <2>7. CASE k <= Len(Stream)
    <3>1. k \in 1 .. Len(Stream) /\ Stream'[k] = Stream[k]
      BY <2>5, <2>7
    <3>2. Stream[k].cseq \in Nat /\ Stream[k].cseq < requests[1].cseq
      BY <2>3, <3>1, Numbers, StreamType DEF OrderInv, Ordered, SeqInv
    <3> QED BY <2>6, <3>1, <3>2
  <2>8. CASE ~(k <= Len(Stream))
    <3>1. k - Len(Stream) \in 1 .. Len(R) /\ Stream'[k] = R[k - Len(Stream)]
      BY <2>5, <2>8
    <3>2. requests[1].cseq = m_cseq /\ code = 200
      BY <2>3, <2>4, <3>1
    <3>3. requests[1] = sent
      BY <2>3, <3>2 DEF OrderInv
    <3> QED BY <2>1, <2>3, <3>2, <3>3 DEF StageInv
  <2> QED BY <2>7, <2>8
<1>7. CASE Close \/ Reset
  <2>1. UNCHANGED <<reading, m_cseq, stage, server>>
    BY <1>7 DEF Close, Reset, client
  <2>2. /\ Len(Stream') \in Nat /\ Len(Stream) \in Nat /\ Len(Stream') <= Len(Stream)
        /\ \A k \in 1 .. Len(Stream') : Stream'[k] = Stream[k]
    BY <1>7, StreamType, StreamKept, StreamCut, LenProperties
  <2>3. \A k \in 1 .. Len(Stream') : k \in 1 .. Len(Stream) /\ Stream'[k] = Stream[k]
    BY <2>2
  <2> QED BY <2>1, <2>3
<1>8. CASE Sigpipe
  BY <1>8 DEF Sigpipe
<1> QED BY <1>1, <1>2, <1>3, <1>4, <1>5, <1>6, <1>7, <1>8, StepKinds

LEMMA StartedStep ==
  ASSUME TypeRest, FlagType, SeqInv, StageInv, OrderInv, PlayInv, ServedInv, StartedInv, [Next]_vars
  PROVE  StartedInv'
<1> USE DEF StartedInv
<1>1. CASE api_init
  BY <1>1 DEF api_init, StageInv
<1>2. CASE WriteRequest
  BY <1>2 DEF WriteRequest, Methods
<1>3. CASE ReadReply \/ UNCHANGED vars \/ \E n \in 1 .. Len(wire) : Arrive(n)
  BY <1>3 DEF ReadReply, vars, Arrive, client, net
<1>4. CASE EndRequest
  <2>1. stage \in Methods /\ reading /\ UNCHANGED <<server, requests>> /\ pRTP # "started"
    BY <1>4, EndFacts DEF Methods
  <2>2. CASE pRTP' = "started"
    <3>1. EndPlay /\ ParseSucceeds(m_rtsp_buffer)
      <4>1. CASE EndOptions
        BY <2>1, <2>2, <4>1 DEF EndOptions
      <4>2. CASE EndDescribe
        BY <2>1, <2>2, <4>2 DEF EndDescribe
      <4>3. CASE EndSetup
        BY <2>1, <2>2, <4>3 DEF EndSetup
      <4>4. CASE EndPlay
        BY <2>1, <2>2, <4>4 DEF EndPlay
      <4> QED BY <1>4, <4>1, <4>2, <4>3, <4>4 DEF EndRequest
    <3>2. stage' \in {"ok", "failed"} /\ stage = "PLAY"
      BY <3>1, Stages DEF EndPlay, Proceed
    <3>3. m_rtsp_buffer[1].part = "status" /\ Len(m_rtsp_buffer) > 0 /\ m_rtsp_buffer[1].code = 200
      BY <3>1 DEF ParseSucceeds, Matches, WellFormed
    <3>4. 1 \in 1 .. Len(Stream) /\ Stream[1] = m_rtsp_buffer[1]
      BY <2>1, <3>3, BufferPrefix
    <3>5. Stream[1].cseq = m_cseq /\ (requests # <<>> => requests = <<sent>>)
      BY <3>2, <3>3, <3>4 DEF PlayInv
    <3>6. server = "playing"
      BY <2>1, <3>2, <3>3, <3>4, <3>5 DEF ServedInv
    <3>7. requests = <<>>
      <4> SUFFICES ASSUME requests = <<sent>> PROVE FALSE
        BY <3>5
      <4>1. requests[1].cseq = m_cseq /\ 1 \in 1 .. Len(requests)
        BY <2>1 DEF StageInv
      <4>2. Stream[1].cseq < requests[1].cseq
        BY <3>4, <4>1 DEF OrderInv, Ordered
      <4> QED BY <3>5, <4>1, <4>2 DEF TypeRest
    <3> QED BY <2>1, <3>2, <3>6, <3>7
  <2> QED BY <2>2
<1>5. CASE api_deinit
  BY <1>5 DEF api_deinit
<1>6. ASSUME NEW code \in {200, 404}, Serve(code) PROVE StartedInv'
  BY <1>6 DEF Serve, client
<1>7. CASE Close \/ Reset \/ Sigpipe
  BY <1>7 DEF Close, Reset, Sigpipe, client, net, Methods
<1> QED BY <1>1, <1>2, <1>3, <1>4, <1>5, <1>6, <1>7, StepKinds

---------------------------------------------------------------------------
(* The invariant                                                           *)

LEMMA InitInv == Init => IInv
<1> SUFFICES ASSUME Init PROVE IInv
  OBVIOUS
<1>1. Stream = <<>> /\ requests = <<>>
  BY ConcatEmptySeq DEF Init, Stream
<1>2. TypeRest /\ FlagType
  <2>1. TypeRest
    BY Bounds DEF Init, TypeRest, Methods, Links
  <2>2. FlagType
    BY DEF Init, FlagType
  <2> QED BY <2>1, <2>2
<1>3. PortType
  <2>1. 0 \in Int16
    BY DEF Int16
  <2> QED BY <2>1 DEF Init, PortType
<1>4. TypeOK
  BY <1>2, <1>3 DEF TypeOK, TypeRest, PortType, FlagType
<1>5. SeqInv /\ StageInv
  BY Bounds DEF Init, SeqInv, StageInv, NoRequest, Request, Methods
<1>6. FreshInv /\ NothingStale /\ SessionInv /\ OwnReplyAccepted /\ PlayHasSession /\ SetupHasTrack
      /\ FailureExcused /\ StartedInv
  BY DEF Init, FreshInv, NothingStale, SessionInv, OwnReplyAccepted, PlayHasSession, SetupHasTrack,
         FailureExcused, StartedInv, NoRequest
<1>7. LinkInv /\ ResetInv /\ ShapeInv /\ WholeInv
  BY <1>1 DEF Init, LinkInv, ResetInv, ShapeInv, WholeInv, Chained, EndsWhole
<1>8. ~reading /\ stage = "idle"
  BY DEF Init
<1>9. OrderInv
  BY <1>1, <1>8 DEF OrderInv, Ordered
<1>10. ExactInv /\ PlayInv /\ ServedInv
  BY <1>8 DEF ExactInv, PlayInv, ServedInv, Methods
<1> QED BY <1>4, <1>5, <1>6, <1>7, <1>9, <1>10 DEF IInv

LEMMA Inductive == IInv /\ [Next]_vars => IInv'
<1> SUFFICES ASSUME IInv, [Next]_vars PROVE IInv'
  OBVIOUS
<1>0. TypeRest /\ PortType /\ FlagType
  BY TypeSplit DEF IInv
<1>1. TypeRest' /\ PortType' /\ FlagType'
  BY <1>0, TypeStep, PortStep, FlagStep DEF IInv
<1>2. TypeOK'
  BY <1>1 DEF TypeOK, TypeRest, PortType, FlagType
<1>3. SeqInv' /\ StageInv'
  BY <1>0, SeqStep, StageStep DEF IInv
<1>4. FreshInv' /\ NothingStale'
  BY <1>0, FreshStep DEF IInv
<1>5. LinkInv' /\ ShapeInv' /\ WholeInv'
  BY <1>0, LinkStep, ShapeStep, WholeStep DEF IInv
<1>6. OrderInv'
  BY <1>0, <1>3, OrderStep DEF IInv
<1>7. SessionInv' /\ PlayHasSession' /\ OwnReplyAccepted'
  BY <1>0, SessionStep DEF IInv
<1>8. ExactInv' /\ SetupHasTrack' /\ FailureExcused' /\ ResetInv'
  BY <1>0, ExactStep, ResetStep DEF IInv
<1>9. PlayInv' /\ ServedInv' /\ StartedInv'
  BY <1>0, <1>3, PlayStep, ServedStep, StartedStep DEF IInv
<1> QED BY <1>2, <1>3, <1>4, <1>5, <1>6, <1>7, <1>8, <1>9 DEF IInv

LEMMA Invariant == Spec => []IInv
BY InitInv, Inductive, PTL DEF Spec

\* As long as headers come whole, a request is taken to have succeeded only by
\* its own reply (cRTSPprotocol::parse), whatever late replies the five reads
\* of rtsp_request bring in.
THEOREM OwnReply == Spec => []OwnReplyAccepted
<1>1. IInv => OwnReplyAccepted
  BY DEF IInv
<1> QED BY <1>1, Invariant, PTL

\* after_play starts the media threads only when the server has agreed to play,
\* even when headers are cut and old replies are read as new ones.
THEOREM StartedMeansPlaying == Spec => []StartedWhenPlaying
<1>1. IInv => StartedWhenPlaying
  BY DEF IInv, StartedInv, StartedWhenPlaying
<1> QED BY <1>1, Invariant, PTL

\* No SETUP names a track and no PLAY a session of an earlier connection,
\* although api_deinit keeps what was parsed.
THEOREM NothingOfOldSessions == Spec => []NothingStale
<1>1. IInv => NothingStale
  BY DEF IInv
<1> QED BY <1>1, Invariant, PTL

\* What the server needs to know is in SETUP and PLAY, and what is in them is
\* in range.
THEOREM RequestsAreComplete == Spec => []RequestsComplete
<1>1. IInv => RequestsComplete
  BY DEF IInv, RequestsComplete
<1> QED BY <1>1, Invariant, PTL

\* api_init fails, or SIGPIPE ends the process, only if a call to the kernel failed,
\* the server refused or hung up, or a reply was parsed before all of it had been read.
THEOREM FailureHasReason == Spec => []FailureExcused
<1>1. IInv => FailureExcused
  BY DEF IInv
<1> QED BY <1>1, Invariant, PTL
=============================================================================
