------------------------- MODULE RtpReceiverProofs -------------------------
(***************************************************************************)
(* Proofs about RtpReceiver for every modulus, every set of sources and    *)
(* payload types and every sequence of packets, and about RtpStream for    *)
(* every network in front of it.                                           *)
(***************************************************************************)
EXTENDS RtpStream, FiniteSetTheorems, TLAPS

\* Nothing is counted before mfistSequenceNumber is set; with that the
\* properties are inductive.
NoneCounted == mfistSequenceNumber = 0 => mlostCount = 0

RInv == TypeOK /\ NoneCounted /\ LostCountTelescopes /\ ParserForType

LEMMA ReceiverInit == Init => RInv
<1> SUFFICES ASSUME Init PROVE RInv
  OBVIOUS
<1> USE ReceiverAssumption DEF Init, ZeroHeader
<1>1. TypeOK
  BY DEF TypeOK
<1>2. NoneCounted /\ LostCountTelescopes
  BY DEF NoneCounted, LostCountTelescopes
<1>3. ParserForType
  BY DEF ParserForType
<1> QED BY <1>1, <1>2, <1>3 DEF RInv

LEMMA ReceiverStep == RInv /\ [Next]_vars => RInv'
<1> SUFFICES ASSUME RInv, [Next]_vars PROVE RInv'
  OBVIOUS
<1> USE ReceiverAssumption
<1>1. ASSUME NEW h \in Header, Parse(h) PROVE RInv'
  <2> USE <1>1 DEF Parse, Header, ZeroHeader, RInv
  <2>1. CASE FirstFrame(h)
    <3>1. TypeOK'
      BY <2>1 DEF FirstFrame, TypeOK
    <3>2. (NoneCounted /\ LostCountTelescopes)'
      BY <2>1 DEF FirstFrame, TypeOK, NoneCounted, LostCountTelescopes
    <3>3. ParserForType'
      BY <2>1 DEF FirstFrame, TypeOK, ParserForType
    <3> QED BY <3>1, <3>2, <3>3
  <2>2. CASE NextFrame(h)
    <3>1. TypeOK'
      BY <2>2 DEF NextFrame, TypeOK
    <3>2. (NoneCounted /\ LostCountTelescopes)'
      BY <2>2 DEF NextFrame, TypeOK, NoneCounted, LostCountTelescopes
    <3>3. ParserForType'
      BY <2>2 DEF NextFrame, ParserForType
    <3> QED BY <3>1, <3>2, <3>3
  <2>3. CASE Reject(h)
    BY <2>3 DEF Reject, TypeOK, NoneCounted, LostCountTelescopes, ParserForType
  <2> QED BY <2>1, <2>2, <2>3
<1>2. CASE UNCHANGED vars
  BY <1>2 DEF vars, RInv, TypeOK, NoneCounted, LostCountTelescopes, ParserForType
<1> QED BY <1>1, <1>2 DEF Next

LEMMA ReceiverInvariant == Spec => []RInv
<1> QED BY ReceiverInit, ReceiverStep, PTL DEF Spec

\* The loss counter is the span of sequence numbers minus the packets counted,
\* whatever the network does to the packets.
THEOREM LossTelescopes == Spec => []LostCountTelescopes
<1>1. RInv => LostCountTelescopes
  BY DEF RInv
<1> QED BY <1>1, ReceiverInvariant, PTL

\* An H.264 packet that passes check_header always finds its parser.
THEOREM ParserExists == Spec => []ParserForType
<1>1. RInv => ParserForType
  BY DEF RInv
<1> QED BY <1>1, ReceiverInvariant, PTL

\* Once pinned, the stream changes neither source nor type.
THEOREM StreamStaysPinned == Spec => StreamPinned
<1>1. ASSUME [Next]_vars, mfistSequenceNumber # 0
      PROVE  /\ mlastRtpInfo'.ssrc = mlastRtpInfo.ssrc
             /\ mlastRtpInfo'.payloadType = mlastRtpInfo.payloadType
             /\ UNCHANGED <<mfistSequenceNumber, firsts>>
  BY <1>1 DEF Next, Parse, FirstFrame, NextFrame, Reject, vars
<1> QED BY <1>1, PTL DEF Spec, StreamPinned

---------------------------------------------------------------------------
(* RtpStream *)

\* The stream pinned is the server's.
Ours == mlastRtpInfo.ssrc = Ssrc /\ mlastRtpInfo.payloadType = H264

Sent == 0 .. sent - 1

SerialsOK ==
  /\ start \in 0 .. SeqMod - 1 /\ sent \in Nat
  /\ net \subseteq Sent /\ lost \subseteq Sent /\ seen \subseteq Sent
  /\ lost \cap net = {}

\* What the receiver remembers are the packets first and newest; each packet
\* is in flight, lost or counted.  Nothing is known of a stream that was pinned
\* twice, since its first number was 0.
Known ==
  /\ firsts = 0 => /\ mfistSequenceNumber = 0 /\ counted = 0 /\ seen = {}
                   /\ Sent = net \cup lost
  /\ firsts = 1 /\ Ours =>
       /\ first \in Sent /\ newest \in Sent
       /\ mlastRtpInfo = Packet(newest)
       /\ mfistSequenceNumber = (start + first) % SeqMod
       /\ mfistSequenceNumber = 0 => newest = first
       /\ mfistSequenceNumber # 0 =>
            /\ first \in seen /\ newest \in seen
            /\ Sent = (net \cup lost) \cup seen
            /\ lost \cap seen = {}

SInv == RInv /\ SerialsOK /\ Known

LEMMA Remainder ==
  ASSUME NEW n \in Nat, NEW m \in Nat \ {0}
  PROVE  /\ n % m \in 0 .. m - 1 /\ n \div m \in Int
         /\ n % m = n - m * (n \div m)
OBVIOUS

LEMMA StreamInitial == StreamInit => SInv
<1> SUFFICES ASSUME StreamInit PROVE SInv
  OBVIOUS
<1>1. RInv
  BY ReceiverInit DEF StreamInit
<1>2. SerialsOK
  BY ReceiverAssumption DEF StreamInit, SerialsOK, Sent
<1>3. Known
  <2>1. Sent = {} /\ net = {} /\ lost = {}
    BY DEF StreamInit, Sent
  <2> QED BY <2>1 DEF StreamInit, Init, Known
<1> QED BY <1>1, <1>2, <1>3 DEF SInv

LEMMA PacketHeader ==
  ASSUME start \in 0 .. SeqMod - 1, NEW n \in Nat
  PROVE  /\ Packet(n) \in Header
         /\ Packet(n).ssrc = Ssrc /\ Packet(n).payloadType = H264
         /\ Packet(n).sequenceNumber = (start + n) % SeqMod
<1>1. start + n \in Nat /\ SeqMod \in Nat \ {0}
  BY ReceiverAssumption
<1>2. (start + n) % SeqMod \in 0 .. SeqMod - 1
  BY <1>1, Remainder
<1> QED BY <1>2, ReceiverAssumption, StreamAssumption DEF Packet, Header

\* A step of the stream is a step of the receiver, or none.
LEMMA StreamSteps ==
  ASSUME SerialsOK, [StreamNext]_<<vars, netVars>>
  PROVE  [Next]_vars
<1>1. CASE Send \/ \E n \in net : Lose(n)
  BY <1>1 DEF Send, Lose
<1>2. ASSUME NEW n \in net, Deliver(n) PROVE Next
  <2>1. n \in Nat
    BY DEF SerialsOK, Sent
  <2>2. Packet(n) \in Header
    BY <2>1, PacketHeader DEF SerialsOK
  <2> QED BY <1>2, <2>2 DEF Deliver, Next
<1>3. ASSUME NEW h \in Foreign, DeliverForeign(h) PROVE Next
  BY <1>3, StreamAssumption DEF DeliverForeign, Next
<1> QED BY <1>1, <1>2, <1>3 DEF StreamNext

LEMMA StreamStep == SInv /\ [StreamNext]_<<vars, netVars>> => SInv'
<1> SUFFICES ASSUME SInv, [StreamNext]_<<vars, netVars>> PROVE SInv'
  OBVIOUS
<1>1. RInv'
  BY StreamSteps, ReceiverStep DEF SInv
<1>2. CASE Send
  <2>1. /\ UNCHANGED <<mfistSequenceNumber, mlastRtpInfo, counted, firsts>>
        /\ UNCHANGED <<start, lost, seen, first, newest>>
        /\ sent' = sent + 1 /\ net' = net \cup {sent}
    BY <1>2 DEF Send, vars
  <2>2. sent \in Nat /\ Sent' = Sent \cup {sent} /\ sent \notin Sent
    BY <2>1 DEF SInv, SerialsOK, Sent
  <2>3. SerialsOK'
    BY <2>1, <2>2 DEF SInv, SerialsOK
  <2>4. Known'
    BY <2>1, <2>2 DEF SInv, Known, Ours, Packet
  <2> QED BY <1>1, <2>3, <2>4 DEF SInv
<1>3. ASSUME NEW n \in net, Lose(n) PROVE SInv'
  <2>1. /\ UNCHANGED <<mfistSequenceNumber, mlastRtpInfo, counted, firsts>>
        /\ UNCHANGED <<start, sent, seen, first, newest>>
        /\ net' = net \ {n} /\ lost' = IF n \in seen THEN lost ELSE lost \cup {n}
        /\ Sent' = Sent
    BY <1>3 DEF Lose, vars, Sent
  <2>2. SerialsOK'
    BY <2>1 DEF SInv, SerialsOK
  <2>3. Known'
    BY <2>1 DEF SInv, Known, Ours, Packet
  <2> QED BY <1>1, <2>2, <2>3 DEF SInv
<1>4. ASSUME NEW n \in net, Deliver(n) PROVE SInv'
  <2>1. /\ UNCHANGED <<start, sent, lost>> /\ Sent' = Sent
        /\ net' = net \ {n} \/ net' = net
        /\ newest' = n /\ first' = IF mfistSequenceNumber = 0 THEN n ELSE first
        /\ seen' = IF mfistSequenceNumber' = 0 THEN {} ELSE seen \cup {n}
        /\ FirstFrame(Packet(n)) \/ NextFrame(Packet(n)) \/ Reject(Packet(n))
    BY <1>4 DEF Deliver, Parse, Sent
  <2>2. n \in Sent /\ n \in Nat /\ n \notin lost
    BY DEF SInv, SerialsOK, Sent
  <2>3. SerialsOK'
    BY <2>1, <2>2 DEF SInv, SerialsOK
  <2>4. /\ Packet(n).ssrc = Ssrc /\ Packet(n).payloadType = H264
        /\ Packet(n).sequenceNumber = (start + n) % SeqMod
        /\ Packet(n)' = Packet(n)
    BY <2>1, <2>2, PacketHeader DEF SInv, SerialsOK, Packet
  <2>5. firsts \in Nat
    BY DEF SInv, RInv, TypeOK
  <2> DEFINE h == Packet(n)
  <2>6. CASE FirstFrame(h)
    <3>1. /\ mfistSequenceNumber = 0 /\ mfistSequenceNumber' = (start + n) % SeqMod
          /\ mlastRtpInfo' = h /\ firsts' = firsts + 1
      BY <2>4, <2>6 DEF FirstFrame
    <3>2. Packet(newest)' = h
      BY <2>1 DEF Packet
    <3>3. (start + first)' % SeqMod = (start + n) % SeqMod /\ newest' = n /\ first' = n
      BY <2>1, <3>1
    <3> HIDE DEF h
    <3>4. ASSUME firsts = 0 PROVE Known'
      <4>1. seen = {} /\ Sent = net \cup lost
        BY <3>4 DEF SInv, Known
      <4>2. mfistSequenceNumber' # 0 =>
              /\ first' \in seen' /\ newest' \in seen' /\ Sent' = (net' \cup lost') \cup seen'
              /\ lost' \cap seen' = {}
        BY <2>1, <2>2, <3>3, <4>1
      <4>3. firsts' = 1 /\ firsts' # 0
        BY <3>1, <3>4
      <4>4. /\ first' \in Sent' /\ newest' \in Sent'
            /\ mlastRtpInfo' = Packet(newest)'
            /\ mfistSequenceNumber' = (start + first)' % SeqMod
            /\ newest' = first'
        BY <2>1, <2>2, <3>1, <3>2, <3>3
      <4> QED BY <4>2, <4>3, <4>4 DEF Known
    <3>5. ASSUME firsts # 0 PROVE Known'
      <4>1. firsts' # 0 /\ firsts' # 1
        BY <2>5, <3>1, <3>5
      <4> QED BY <4>1 DEF Known
    <3>6. Known'
      BY <3>4, <3>5
    <3> QED BY <1>1, <2>3, <3>6 DEF SInv
  <2>7. CASE NextFrame(h)
    <3>1. /\ mfistSequenceNumber # 0 /\ UNCHANGED <<mfistSequenceNumber, firsts>>
          /\ mlastRtpInfo' = h /\ Ours
      BY <2>4, <2>7 DEF NextFrame, Ours
    <3>2. Packet(newest)' = h
      BY <2>1 DEF Packet
    <3>3. newest' = n /\ first' = first /\ (start + first)' = start + first /\ seen' = seen \cup {n}
      BY <2>1, <3>1
    <3> HIDE DEF h
    <3>4. firsts = 1 =>
            /\ first \in Sent /\ mfistSequenceNumber = (start + first) % SeqMod
            /\ first \in seen /\ Sent = (net \cup lost) \cup seen /\ lost \cap seen = {}
      BY <3>1 DEF SInv, Known
    <3>5. firsts # 0
      BY <3>1 DEF SInv, Known
    <3>6. firsts = 1 =>
            /\ first' \in seen' /\ newest' \in seen' /\ Sent' = (net' \cup lost') \cup seen'
            /\ lost' \cap seen' = {}
      BY <2>1, <2>2, <3>3, <3>4
    <3>7. Known'
      BY <2>1, <2>2, <3>1, <3>2, <3>3, <3>4, <3>5, <3>6 DEF Known
    <3> QED BY <1>1, <2>3, <3>7 DEF SInv
  <2>8. CASE Reject(h)
    <3>1. /\ mfistSequenceNumber # 0
          /\ UNCHANGED <<mfistSequenceNumber, mlastRtpInfo, counted, firsts>>
          /\ ~Ours
      BY <2>4, <2>8 DEF Reject, Ours
    <3>2. Known'
      BY <3>1 DEF SInv, Known, Ours
    <3> QED BY <1>1, <2>3, <3>2 DEF SInv
  <2> QED BY <2>1, <2>6, <2>7, <2>8
<1>5. ASSUME NEW h \in Foreign, DeliverForeign(h) PROVE SInv'
  <2>1. /\ UNCHANGED <<start, sent, net, lost, seen, first, newest>> /\ Sent' = Sent
        /\ FirstFrame(h) \/ NextFrame(h) \/ Reject(h)
    BY <1>5 DEF DeliverForeign, Parse, serials, Sent
  <2>2. h.ssrc # Ssrc \/ h.payloadType # H264
    BY StreamAssumption
  <2>3. SerialsOK'
    BY <2>1 DEF SInv, SerialsOK
  <2>4. firsts \in Nat
    BY DEF SInv, RInv, TypeOK
  <2>5. CASE FirstFrame(h)
    <3>1. firsts' = firsts + 1 /\ mlastRtpInfo' = h
      BY <2>5 DEF FirstFrame
    <3>2. Known'
      BY <2>2, <2>4, <3>1 DEF Known, Ours
    <3> QED BY <1>1, <2>3, <3>2 DEF SInv
  <2>6. CASE NextFrame(h)
    <3>1. /\ mfistSequenceNumber # 0 /\ UNCHANGED firsts
          /\ mlastRtpInfo' = h
      BY <2>6 DEF NextFrame
    <3>2. Known'
      BY <2>2, <2>4, <3>1 DEF SInv, Known, Ours
    <3> QED BY <1>1, <2>3, <3>2 DEF SInv
  <2>7. CASE Reject(h)
    <3>1. UNCHANGED <<mfistSequenceNumber, mlastRtpInfo, counted, firsts>>
      BY <2>7 DEF Reject
    <3>2. Known'
      BY <2>1, <3>1 DEF SInv, Known, Ours, Packet
    <3> QED BY <1>1, <2>3, <3>2 DEF SInv
  <2> QED BY <2>1, <2>5, <2>6, <2>7
<1>6. CASE UNCHANGED <<vars, netVars>>
  <2>1. /\ UNCHANGED <<mfistSequenceNumber, mlastRtpInfo, counted, firsts>>
        /\ UNCHANGED <<start, sent, net, lost, seen, first, newest>> /\ Sent' = Sent
    BY <1>6 DEF vars, netVars, serials, Sent
  <2>2. SerialsOK' /\ Known'
    BY <2>1 DEF SInv, SerialsOK, Known, Ours, Packet
  <2> QED BY <1>1, <2>2 DEF SInv
<1> QED BY <1>2, <1>3, <1>4, <1>5, <1>6 DEF StreamNext

\* Between two packets that were counted every packet was counted or lost.
LEMMA Between ==
  ASSUME SInv, Settled, Ours, mfistSequenceNumber # 0
  PROVE  /\ first \in Nat /\ newest \in Nat
         /\ Cardinality(LostBetween) \in Nat /\ Cardinality(seen) \in Nat
         /\ Cardinality(LostBetween) + Cardinality(seen) = newest - first + 1
<1>1. /\ first \in seen /\ newest \in seen /\ seen \subseteq Sent
      /\ Sent = lost \cup seen /\ lost \cap seen = {}
      /\ \A n \in seen : first <= n /\ n <= newest
      /\ sent \in Nat
  BY DEF SInv, SerialsOK, Known, Settled
<1>2. first \in Nat /\ newest \in Nat /\ first <= newest /\ newest < sent
  BY <1>1 DEF Sent
<1>3. LostBetween \cap seen = {} /\ LostBetween \cup seen = first .. newest
  <2>1. ASSUME NEW n \in first .. newest PROVE n \in LostBetween \cup seen
    <3>1. n \in Sent
      BY <1>1, <1>2 DEF Sent
    <3>2. n # first /\ n # newest => first < n /\ n < newest
      BY <1>2
    <3> QED BY <1>1, <3>1, <3>2 DEF LostBetween
  <2>2. ASSUME NEW n \in LostBetween \cup seen PROVE n \in first .. newest
    <3>1. n \in Nat
      BY <1>1 DEF LostBetween, Sent
    <3> QED BY <1>1, <1>2, <3>1 DEF LostBetween
  <2> QED BY <1>1, <2>1, <2>2 DEF LostBetween
<1>4. IsFiniteSet(first .. newest) /\ Cardinality(first .. newest) = newest - first + 1
  BY <1>2, FS_Interval
<1>5. IsFiniteSet(LostBetween) /\ IsFiniteSet(seen)
  BY <1>3, <1>4, FS_Subset
<1>6. Cardinality(LostBetween \cup seen) = Cardinality(LostBetween) + Cardinality(seen) - 0
  BY <1>3, <1>5, FS_Union, FS_EmptySet
<1>7. Cardinality(LostBetween) \in Nat /\ Cardinality(seen) \in Nat
  BY <1>5, FS_CardinalityType
<1>8. Cardinality(LostBetween \cup seen) = newest - first + 1
  BY <1>3, <1>4, Zenon
<1> QED BY <1>2, <1>6, <1>7, <1>8

\* Once everything has landed or was lost, the loss counter is the number of
\* packets lost, in whatever order the others came, less the packets accepted a
\* second time and less SeqMod for each wrap.
THEOREM LossesCounted == StreamSpec => []LossExact
<1>1. SInv => LossExact
  <2> SUFFICES ASSUME SInv, Settled
               PROVE  mlostCount = Cardinality(LostBetween) - Repeats
                                     - SeqMod * (Epoch(newest) - Epoch(first))
    BY DEF LossExact
  <2>1. firsts = 1 /\ mfistSequenceNumber # 0 /\ mlastRtpInfo = Packet(newest)
    BY DEF Settled
  <2>2. Ours
    BY <2>1 DEF Ours, Packet
  <2>3. /\ first \in Nat /\ newest \in Nat /\ start \in Nat /\ SeqMod \in Nat \ {0}
        /\ mfistSequenceNumber = (start + first) % SeqMod /\ counted \in Nat
    BY <2>1, <2>2, ReceiverAssumption DEF SInv, RInv, TypeOK, Known, SerialsOK, Sent
  <2>4. mlastRtpInfo.sequenceNumber = (start + newest) % SeqMod
    BY <2>1 DEF Packet
  <2> DEFINE a == (start + first) % SeqMod
             b == (start + newest) % SeqMod
             d == Epoch(first)
             e == Epoch(newest)
             l == Cardinality(LostBetween)
             c == Cardinality(seen)
  <2>5. l \in Nat /\ c \in Nat /\ l + c = newest - first + 1
    BY <2>1, <2>2, Between
  <2>6. /\ a \in Int /\ d \in Int /\ a = start + first - SeqMod * d
        /\ b \in Int /\ e \in Int /\ b = start + newest - SeqMod * e
    BY <2>3, Remainder DEF Epoch
  <2>7. mlostCount = b - a - (counted - 1)
    BY <2>1, <2>3, <2>4 DEF SInv, RInv, LostCountTelescopes
  <2> HIDE DEF a, b, d, e, l, c
  <2>8. SeqMod * (e - d) = SeqMod * e - SeqMod * d /\ SeqMod * e \in Int /\ SeqMod * d \in Int
    BY <2>3, <2>6
  <2>9. mlostCount = l - (counted - c) - SeqMod * (e - d)
    BY <2>3, <2>5, <2>6, <2>7, <2>8
  <2> QED BY <2>9 DEF d, e, l, c, Repeats
<1> QED BY <1>1, StreamInitial, StreamStep, PTL DEF StreamSpec
=============================================================================
