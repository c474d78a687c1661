---------------------------- MODULE RtpReceiver ----------------------------
(***************************************************************************)
(* What cRTPClient::parse does with one packet taken from pQueNet: read    *)
(* the header (set_header_info), decide whether the packet belongs to the  *)
(* stream and count losses (check_header), and hand the payload to the     *)
(* parser.  Any packet may arrive at any time; RtpStream puts a server and *)
(* a network in front of this module.                                      *)
(***************************************************************************)
EXTENDS Integers

CONSTANTS
  SeqMod,       \* sequence numbers are 0 .. SeqMod - 1 (65536 in the code)
  Ssrcs,        \* synchronisation sources that may send to the socket
  PayloadTypes, \* payload types they may use
  H264,         \* 96, the only type a parser exists for
  MaxPackets    \* bound on the packets received

ASSUME ReceiverAssumption ==
  /\ SeqMod \in Nat \ {0}
  /\ H264 \in PayloadTypes \ {0}
  /\ MaxPackets \in Nat

\* RTP_PACK_HEADER_INFO, the fields check_header looks at.
Header == [sequenceNumber : 0 .. SeqMod - 1, ssrc : Ssrcs, payloadType : PayloadTypes]
ZeroHeader == [sequenceNumber |-> 0, ssrc |-> 0, payloadType |-> 0]

VARIABLES
  mfistSequenceNumber,  \* sequence number of the first packet; 0 stands for none yet
  mlastRtpInfo,         \* header of the last packet accepted
  mlostCount,           \* the loss counter
  pRTPParse,            \* "NULL" or the parser created, "cH264RTP"
  received,             \* history: packets taken from pQueNet
  counted,              \* history: packets accepted since mfistSequenceNumber was set
  firsts                \* history: packets taken for the first one

vars == <<mfistSequenceNumber, mlastRtpInfo, mlostCount, pRTPParse, received, counted, firsts>>

Init ==
  /\ mfistSequenceNumber = 0
  /\ mlastRtpInfo = ZeroHeader
  /\ mlostCount = 0
  /\ pRTPParse = "NULL"
  /\ received = 0 /\ counted = 0 /\ firsts = 0

---------------------------------------------------------------------------
(* Slips a change of check_header could make.                              *)

\* The gap is counted with the packet that closes it.
GapOffByOne(h) ==
  /\ mfistSequenceNumber # 0
  /\ h.ssrc = mlastRtpInfo.ssrc /\ h.payloadType = mlastRtpInfo.payloadType
  /\ mlostCount' = IF h.sequenceNumber - mlastRtpInfo.sequenceNumber = 1 THEN mlostCount
                   ELSE mlostCount + (h.sequenceNumber - mlastRtpInfo.sequenceNumber)
  /\ mlastRtpInfo' = h
  /\ counted' = counted + 1
  /\ UNCHANGED <<mfistSequenceNumber, pRTPParse, firsts>>

\* Only the ssrc of a packet is compared.
TypeNotCompared(h) ==
  /\ mfistSequenceNumber # 0
  /\ h.ssrc = mlastRtpInfo.ssrc
  /\ mlostCount' = mlostCount + (h.sequenceNumber - 1 - mlastRtpInfo.sequenceNumber)
  /\ mlastRtpInfo' = h
  /\ counted' = counted + 1
  /\ UNCHANGED <<mfistSequenceNumber, pRTPParse, firsts>>

\* mlastRtpInfo is also stored for packets of another stream.
RejectStores(h) ==
  /\ mfistSequenceNumber # 0
  /\ h.ssrc # mlastRtpInfo.ssrc \/ h.payloadType # mlastRtpInfo.payloadType
  /\ mlastRtpInfo' = h
  /\ UNCHANGED <<mfistSequenceNumber, mlostCount, pRTPParse, counted, firsts>>

---------------------------------------------------------------------------
(* check_header *)

\* The first frame pins the stream and creates the parser of its payload type.
FirstFrame(h) ==
  /\ mfistSequenceNumber = 0
  /\ mfistSequenceNumber' = h.sequenceNumber
  /\ mlastRtpInfo' = h
  /\ pRTPParse' = IF h.payloadType = H264 THEN "cH264RTP" ELSE pRTPParse
  /\ counted' = IF h.sequenceNumber = 0 THEN 0 ELSE 1
  /\ firsts' = firsts + 1
  /\ UNCHANGED mlostCount

\* A later frame of the same stream; a gap (0 when it is the next one, negative
\* when it is late) is added to mlostCount in int arithmetic.
NextFrame(h) ==
  /\ mfistSequenceNumber # 0
  /\ h.ssrc = mlastRtpInfo.ssrc /\ h.payloadType = mlastRtpInfo.payloadType
  /\ mlostCount' = mlostCount + (h.sequenceNumber - 1 - mlastRtpInfo.sequenceNumber)
  /\ mlastRtpInfo' = h
  /\ counted' = counted + 1
  /\ UNCHANGED <<mfistSequenceNumber, pRTPParse, firsts>>

\* A frame of another source or type: "head check erro".
Reject(h) ==
  /\ mfistSequenceNumber # 0
  /\ h.ssrc # mlastRtpInfo.ssrc \/ h.payloadType # mlastRtpInfo.payloadType
  /\ UNCHANGED <<mfistSequenceNumber, mlastRtpInfo, mlostCount, pRTPParse, counted, firsts>>

\* One round of parse(): the packet's payload reaches pRTPParse when check_header
\* accepts it and a parser exists.
Parse(h) ==
  /\ received < MaxPackets
  /\ received' = received + 1
  /\ FirstFrame(h) \/ NextFrame(h) \/ Reject(h)

Next == \E h \in Header : Parse(h)

Spec == Init /\ [][Next]_vars

---------------------------------------------------------------------------
(* Properties *)

\* Every variable keeps its range; the counter is a signed int.
TypeOK ==
  /\ mfistSequenceNumber \in 0 .. SeqMod - 1
  /\ mlastRtpInfo \in Header \cup {ZeroHeader}
  /\ mlostCount \in Int
  /\ pRTPParse \in {"NULL", "cH264RTP"}
  /\ received \in Nat /\ counted \in Nat /\ firsts \in Nat

\* The gaps telescope: whatever arrives, in whatever order and however often,
\* mlostCount is the span from the first packet to the last one minus the
\* packets counted after the first.  A late or repeated packet takes back what
\* it seemed to have cost.
LostCountTelescopes ==
  mfistSequenceNumber # 0 =>
    mlostCount = mlastRtpInfo.sequenceNumber - mfistSequenceNumber - (counted - 1)

\* Every H.264 packet check_header accepts finds its parser.
ParserForType == mlastRtpInfo.payloadType = H264 => pRTPParse = "cH264RTP"

\* Once the stream is pinned no packet of another source or type changes it,
\* and no packet is taken for the first one again.
StreamPinned ==
  [][mfistSequenceNumber # 0 =>
       /\ mlastRtpInfo'.ssrc = mlastRtpInfo.ssrc
       /\ mlastRtpInfo'.payloadType = mlastRtpInfo.payloadType
       /\ UNCHANGED <<mfistSequenceNumber, firsts>>]_vars
=============================================================================
