-------------------------- MODULE RequestBuilder --------------------------
(***************************************************************************)
(* begain_cmd, add_line_cmd and end_cmd of cRTSPprotocol, and the requests *)
(* cRTSPClient builds with them.  What matters of a text is its length:    *)
(* mSendbuf is one allocation, the caller never looks at the result of     *)
(* add_line_cmd, and end_cmd does not look at the room left.               *)
(***************************************************************************)
EXTENDS Integers, Sequences

CONSTANTS
  mSendLen,     \* bytes of mSendbuf (256)
  LineLen,      \* bytes of the callers' buf (256)
  UrlLens,      \* lengths of mUrl (at most 127)
  TrackLens,    \* lengths of the track a DESCRIBE reply may name
  CSeqLens,     \* digits of m_cseq
  PortLens,     \* characters of "port-port" in the Transport line
  SessionLens   \* lengths of fSessionId (at most 63)

ASSUME BuilderAssumption ==
  /\ mSendLen \in Nat /\ LineLen \in Nat \ {0}
  /\ UrlLens \subseteq 1 .. 127 /\ TrackLens \subseteq Nat
  /\ CSeqLens \subseteq 1 .. 10 /\ PortLens \subseteq 3 .. 13
  /\ SessionLens \subseteq 0 .. 63

VARIABLES
  request,      \* the method, or "none" before the first request
  todo,         \* the lines still to be added, as lengths
  mSendOffset,  \* bytes written to mSendbuf
  whole,        \* history: length of the request had every line been added
  trackLen      \* history: length of the text SETUP names the track with

cmdVars == <<request, todo, mSendOffset, whole, trackLen>>

\* Characters of each method's name.
MethodLen == [OPTIONS |-> 7, DESCRIBE |-> 8, SETUP |-> 5, PLAY |-> 4, PAUSE |-> 5, TEARDOWN |-> 8]
Methods == DOMAIN MethodLen

\* snprintf into buf cuts the line.
Clip(n) == IF n < LineLen THEN n ELSE LineLen - 1

\* "<method> <n characters> RTSP/1.0"; then "CSeq:", "Session:", the Transport
\* line up to its ports, and the range PLAY asks for.
RequestLine(m, n) == MethodLen[m] + n + 10
CSeqLine(n) == 5 + n
SessionLine(n) == 8 + n
TransportLine(n) == 38 + n
RangeLine == 17

\* A %s with NULL prints "(null)".
NullLen == 6

\* Length of a request: each line is followed by two bytes, and so is the last one.
Total(ls) == LET sum[i \in 0 .. Len(ls)] == IF i = 0 THEN 2 ELSE sum[i - 1] + ls[i] + 2
             IN  sum[Len(ls)]

CmdInit == request = "none" /\ todo = <<>> /\ mSendOffset = 0 /\ whole = 0 /\ trackLen = 0

---------------------------------------------------------------------------

\* A slip: the two bytes of the line end are forgotten in the test.
AddIgnoringEnd ==
  /\ todo # <<>>
  /\ mSendOffset' = IF mSendOffset + Head(todo) > mSendLen
                    THEN mSendOffset ELSE mSendOffset + Head(todo) + 2
  /\ todo' = Tail(todo)
  /\ UNCHANGED <<request, whole, trackLen>>

\* begain_cmd; the caller goes on with these lines.
begain_cmd(m, lines) ==
  /\ request' = m /\ whole' = Total(lines)
  /\ todo' = [i \in DOMAIN lines |-> Clip(lines[i])]
  /\ mSendOffset' = 0

\* The line is dropped if it does not fit; shorter ones after it may still fit.
add_line_cmd ==
  /\ todo # <<>>
  /\ mSendOffset' = IF mSendOffset + Head(todo) + 2 > mSendLen
                    THEN mSendOffset ELSE mSendOffset + Head(todo) + 2
  /\ todo' = Tail(todo)
  /\ UNCHANGED <<request, whole, trackLen>>

\* The blank line is written without a look at the room left.
end_cmd == mSendOffset' = mSendOffset + 2

\* OPTIONS, DESCRIBE.
UrlRequest(m) ==
  /\ \E u \in UrlLens, c \in CSeqLens : begain_cmd(m, <<RequestLine(m, u), CSeqLine(c)>>)
  /\ trackLen' = 0

\* SETUP names the track, or "(null)" if there is none.
SetupRequest(hasTrack) ==
  \E c \in CSeqLens, p \in PortLens, t \in IF hasTrack THEN TrackLens ELSE {NullLen} :
    /\ begain_cmd("SETUP", <<RequestLine("SETUP", t), CSeqLine(c), TransportLine(p)>>)
    /\ trackLen' = t

\* PLAY, PAUSE and TEARDOWN name the session.
SessionRequest(m, hasSession) ==
  /\ \E u \in UrlLens, c \in CSeqLens, s \in IF hasSession THEN SessionLens ELSE {0} :
       begain_cmd(m, <<RequestLine(m, u), CSeqLine(c)>>
                     \o (IF m = "PLAY" THEN <<RangeLine>> ELSE <<>>) \o <<SessionLine(s)>>)
  /\ trackLen' = 0

---------------------------------------------------------------------------
(* Properties *)

CmdTypeOK ==
  /\ request \in Methods \cup {"none"} /\ todo \in Seq(Nat)
  /\ mSendOffset \in Nat /\ whole \in Nat /\ trackLen \in Nat

\* The lines never reach beyond mSendbuf (cRTSPprotocol.cpp:39); the blank line
\* may, by its two bytes at most.
LinesFit == /\ mSendOffset <= mSendLen + 2
            /\ todo # <<>> => mSendOffset <= mSendLen
=============================================================================
