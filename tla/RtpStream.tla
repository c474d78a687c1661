----------------------------- MODULE RtpStream -----------------------------
(***************************************************************************)
(* RtpReceiver behind a UDP network: a server sends one stream whose       *)
(* sequence numbers start anywhere and wrap at SeqMod; the network loses,  *)
(* reorders and repeats packets, and packets of other sources or types may *)
(* turn up.  The server's packets are known here by their serial number    *)
(* 0, 1, 2, ...; the receiver sees only its remainder.                     *)
(***************************************************************************)
EXTENDS RtpReceiver, FiniteSets

CONSTANTS
  Ssrc,      \* the server's source
  MaxSent,   \* bound on the packets sent
  MaxCopies, \* bound on the packets the network repeats
  Foreign,   \* headers of packets that are not the server's
  MaxForeign \* bound on those

ASSUME StreamAssumption ==
  /\ Ssrc \in Ssrcs
  /\ Foreign \subseteq {h \in Header : h.ssrc # Ssrc \/ h.payloadType # H264}

VARIABLES
  start,     \* sequence number of the first packet sent
  sent,      \* packets sent so far
  net,       \* serials in flight
  lost,      \* serials the network dropped
  copies,    \* packets repeated so far
  seen,      \* serials counted by the receiver
  first, newest, \* serial that set mfistSequenceNumber, serial last accepted
  foreign    \* packets of others so far

serials == <<start, sent, net, lost, copies, seen, first, newest>>
netVars == <<serials, foreign>>

Packet(n) == [sequenceNumber |-> (start + n) % SeqMod, ssrc |-> Ssrc, payloadType |-> H264]

\* How often the sequence numbers have wrapped at packet n.
Epoch(n) == (start + n) \div SeqMod

StreamInit ==
  /\ Init
  /\ start \in 0 .. SeqMod - 1
  /\ sent = 0 /\ net = {} /\ lost = {} /\ copies = 0
  /\ seen = {} /\ first = 0 /\ newest = 0
  /\ foreign = 0

Send ==
  /\ sent < MaxSent
  /\ sent' = sent + 1
  /\ net' = net \cup {sent}
  /\ UNCHANGED <<vars, start, lost, copies, seen, first, newest, foreign>>

Lose(n) ==
  /\ net' = net \ {n}
  /\ lost' = IF n \in seen THEN lost ELSE lost \cup {n}
  /\ UNCHANGED <<vars, start, sent, copies, seen, first, newest, foreign>>

\* The receiver parses packet n and, unless another stream is pinned, accepts
\* it; the network may keep a copy.
Deliver(n) ==
  /\ Parse(Packet(n))
  /\ \/ net' = net \ {n} /\ UNCHANGED copies
     \/ copies < MaxCopies /\ copies' = copies + 1 /\ UNCHANGED net
  /\ newest' = n
  /\ first' = IF mfistSequenceNumber = 0 THEN n ELSE first
  /\ seen' = IF mfistSequenceNumber' = 0 THEN {} ELSE seen \cup {n}
  /\ UNCHANGED <<start, sent, lost, foreign>>

\* A packet of another source or type arrives on the same socket.
DeliverForeign(h) ==
  /\ foreign < MaxForeign
  /\ foreign' = foreign + 1
  /\ Parse(h)
  /\ UNCHANGED serials

StreamNext == \/ Send
              \/ \E n \in net : Lose(n) \/ Deliver(n)
              \/ \E h \in Foreign : DeliverForeign(h)

StreamSpec == StreamInit /\ [][StreamNext]_<<vars, netVars>>

---------------------------------------------------------------------------
(* Properties *)

\* Everything sent has landed or was lost, the stream pinned is the server's, the
\* packets taken for the first and the last one are its oldest and its newest,
\* and the first one was recognised as such (its number was not 0).
Settled ==
  /\ net = {} /\ firsts = 1 /\ mfistSequenceNumber # 0
  /\ mlastRtpInfo = Packet(newest)
  /\ \A n \in seen : first <= n /\ n <= newest

\* The packets the network lost between the first and the last one.
LostBetween == {n \in lost : first < n /\ n < newest}

\* Acceptances of a packet that had been accepted before.
Repeats == counted - Cardinality(seen)

\* Once settled mlostCount is the number of packets lost, in whatever order the
\* others arrived, less one for every packet accepted again and less SeqMod for
\* each wrap of the sequence numbers.
LossExact ==
  Settled => mlostCount = Cardinality(LostBetween) - Repeats - SeqMod * (Epoch(newest) - Epoch(first))
=============================================================================
