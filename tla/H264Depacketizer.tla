-------------------------- MODULE H264Depacketizer --------------------------
(***************************************************************************)
(* cH264RTP: NAL units are rebuilt from RTP payloads.  A server sends NAL  *)
(* units 1, 2, 3, ..., each in one payload or cut into FU-A fragments; the *)
(* network may lose payloads but keeps their order.  A fragment is the     *)
(* pair <<NAL unit, part>> and weighs one byte; the NAL header parse_FU_A   *)
(* rebuilds at a start weighs one more.                                    *)
(***************************************************************************)
EXTENDS Integers, Sequences, FiniteSets

CONSTANTS
  mFUBufferLen, \* capacity of mFUBuffer
  Shapes,       \* ways to send a NAL unit: 1 in one payload, k > 1 in k
                \* fragments, 0 in a payload of a type that is not supported
  MaxNals,      \* bound on the NAL units sent
  MaxLost       \* bound on the payloads lost

ASSUME DepacketizerAssumption ==
  /\ mFUBufferLen \in Nat \ {0, 1}
  /\ Shapes \subseteq Nat
  /\ MaxNals \in Nat /\ MaxLost \in Nat

VARIABLES
  mFUBuffer,        \* the fragments in the buffer, oldest first
  mFUBufferOffset,  \* bytes in the buffer
  pQueH264,         \* the frames pushed to the application, oldest first
  overrun,          \* an end fragment was written past mFUBufferLen
  shape,            \* shape[n]: how NAL unit n is sent
  net,              \* payloads in flight
  delivered,        \* fragments that reached the receiver
  losses            \* payloads lost

parser == <<mFUBuffer, mFUBufferOffset, pQueH264, overrun>>
server == <<shape, net, delivered, losses>>
vars == <<parser, server>>

Init ==
  /\ mFUBuffer = <<>> /\ mFUBufferOffset = 0 /\ pQueH264 = <<>> /\ overrun = FALSE
  /\ shape = <<>> /\ net = <<>> /\ delivered = {} /\ losses = 0

\* What get_nal_type makes of the first byte of the payload.
get_nal_type(f) ==
  CASE shape[f[1]] = 0 -> "UNDEFINED" [] shape[f[1]] = 1 -> "SINGLE" [] OTHER -> "FU_A"

Parts(n) == [p \in 1 .. shape[n] |-> <<n, p>>]
IsStart(f) == f[2] = 1
IsEnd(f) == f[2] = shape[f[1]]

---------------------------------------------------------------------------
(* parse_payload and parse_FU_A *)

Reset == mFUBuffer' = <<>> /\ mFUBufferOffset' = 0

\* A NAL unit in one payload goes straight to the queue, past a fragmented one
\* that is still incomplete.
Single(f) ==
  /\ get_nal_type(f) = "SINGLE"
  /\ pQueH264' = Append(pQueH264, <<f>>)
  /\ UNCHANGED <<mFUBuffer, mFUBufferOffset, overrun>>

Unsupported(f) ==
  /\ get_nal_type(f) = "UNDEFINED"
  /\ UNCHANGED parser

\* Slips a change of parse_FU_A could make.
StartWithoutFlush(f) ==
  /\ get_nal_type(f) = "FU_A" /\ IsStart(f)
  /\ mFUBuffer' = Append(mFUBuffer, f)
  /\ mFUBufferOffset' = mFUBufferOffset + 2
  /\ UNCHANGED <<pQueH264, overrun>>

EndWithoutReset(f) ==
  /\ get_nal_type(f) = "FU_A" /\ ~IsStart(f) /\ IsEnd(f)
  /\ pQueH264' = Append(pQueH264, Append(mFUBuffer, f))
  /\ overrun' = (overrun \/ mFUBufferOffset + 1 > mFUBufferLen)
  /\ UNCHANGED <<mFUBuffer, mFUBufferOffset>>

\* A start flushes what an earlier NAL unit left in the buffer.
Start(f) ==
  /\ get_nal_type(f) = "FU_A" /\ IsStart(f)
  /\ pQueH264' = IF mFUBufferOffset # 0 THEN Append(pQueH264, mFUBuffer) ELSE pQueH264
  /\ mFUBuffer' = <<f>>
  /\ mFUBufferOffset' = 2
  /\ UNCHANGED overrun

\* An end is appended without the capacity check of the middle, and pushed.
End(f) ==
  /\ get_nal_type(f) = "FU_A" /\ ~IsStart(f) /\ IsEnd(f)
  /\ pQueH264' = Append(pQueH264, Append(mFUBuffer, f))
  /\ overrun' = (overrun \/ mFUBufferOffset + 1 > mFUBufferLen)
  /\ Reset

\* A middle is appended; one that does not fit is cut and the buffer pushed.
Middle(f) ==
  /\ get_nal_type(f) = "FU_A" /\ ~IsStart(f) /\ ~IsEnd(f)
  /\ \/ /\ mFUBufferOffset + 1 > mFUBufferLen
        /\ pQueH264' = Append(pQueH264, mFUBuffer)
        /\ Reset
     \/ /\ mFUBufferOffset + 1 <= mFUBufferLen
        /\ mFUBuffer' = Append(mFUBuffer, f)
        /\ mFUBufferOffset' = mFUBufferOffset + 1
        /\ UNCHANGED pQueH264
  /\ UNCHANGED overrun

parse_payload(f) == Single(f) \/ Unsupported(f) \/ Start(f) \/ End(f) \/ Middle(f)

---------------------------------------------------------------------------
(* The server and the network *)

SendNal(s) ==
  /\ net = <<>> /\ Len(shape) < MaxNals
  /\ shape' = Append(shape, s)
  /\ net' = IF s = 0 THEN <<<<Len(shape) + 1, 1>>>>
                     ELSE [p \in 1 .. s |-> <<Len(shape) + 1, p>>]
  /\ UNCHANGED <<parser, delivered, losses>>

Lose ==
  /\ net # <<>> /\ losses < MaxLost
  /\ net' = Tail(net) /\ losses' = losses + 1
  /\ UNCHANGED <<parser, shape, delivered>>

Deliver ==
  /\ net # <<>>
  /\ parse_payload(Head(net))
  /\ net' = Tail(net)
  /\ delivered' = delivered \cup {Head(net)}
  /\ UNCHANGED <<shape, losses>>

Next == Deliver \/ Lose \/ \E s \in Shapes : SendNal(s)

Spec == Init /\ [][Next]_vars

---------------------------------------------------------------------------
(* Properties *)

Nals == 1 .. Len(shape)
Fragments == UNION {{n} \X (1 .. shape[n]) : n \in Nals}

\* The offset counts what the buffer holds: its fragments, and one byte for the
\* header of a start that opened it.
TypeOK ==
  /\ \A i \in DOMAIN mFUBuffer : mFUBuffer[i] \in Fragments
  /\ mFUBufferOffset = Len(mFUBuffer)
       + (IF mFUBuffer # <<>> /\ IsStart(mFUBuffer[1]) THEN 1 ELSE 0)
  /\ mFUBufferOffset <= mFUBufferLen
  /\ overrun \in BOOLEAN /\ losses \in 0 .. MaxLost

Before(f, g) == f[1] < g[1] \/ (f[1] = g[1] /\ f[2] < g[2])

\* A frame is built from fragments in the order they were sent, none twice, and
\* a start can only open it: two NAL units whose starts arrived never mix.
FramesOrdered ==
  \A i \in DOMAIN pQueH264 : LET fr == pQueH264[i] IN
    /\ \A j, k \in DOMAIN fr : j < k => Before(fr[j], fr[k])
    /\ \A j \in DOMAIN fr : IsStart(fr[j]) => j = 1

\* NAL unit n fits in the buffer and all of it has reached the receiver.
Arrived(n) == /\ shape[n] >= 1 /\ shape[n] < mFUBufferLen
              /\ \A p \in 1 .. shape[n] : <<n, p>> \in delivered

\* Whatever is lost around it, a NAL unit that arrives completely reaches the
\* application as one frame, with nothing added, once, and in order.
WholeNalsSurvive ==
  ~overrun =>
    /\ \A n \in Nals : Arrived(n) => \E i \in DOMAIN pQueH264 : pQueH264[i] = Parts(n)
    /\ \A i, j \in DOMAIN pQueH264 : \A n, m \in Nals :
         i < j /\ Arrived(n) /\ Arrived(m) /\ pQueH264[i] = Parts(n) /\ pQueH264[j] = Parts(m) => n < m

\* Nothing comes from nowhere and nothing comes twice: every fragment pushed was
\* delivered and is in one frame only, and what is in the buffer is in none.
PushedOnce ==
  \A i \in DOMAIN pQueH264 : \A j \in DOMAIN pQueH264[i] :
    /\ pQueH264[i][j] \in delivered
    /\ \A k \in DOMAIN mFUBuffer : mFUBuffer[k] # pQueH264[i][j]
    /\ \A l \in DOMAIN pQueH264 : \A m \in DOMAIN pQueH264[l] :
         pQueH264[l][m] = pQueH264[i][j] => l = i /\ m = j

\* The two together, with an offset that always counts what is in the buffer: no
\* loss makes parse_FU_A mix NAL units, repeat bytes or lose count of them.
FramesSound == TypeOK /\ FramesOrdered /\ PushedOnce
=============================================================================
