---------------------------- MODULE RtspProtocol ----------------------------
(***************************************************************************)
(* Class cRTSPprotocol: one request is built in mSendbuf, and parse reads  *)
(* what has arrived in answer to it, line by line.  The exchange starts    *)
(* from whatever the replies parsed before have left in pREPLY.  The       *)
(* lines of the answer are chosen as they are read, so they may be those   *)
(* of a late reply, of a reply cut anywhere, or of no RTSP reply at all.   *)
(***************************************************************************)
EXTENDS RequestBuilder, TransportParams, SdpParser

VARIABLES
  phase,          \* "build", then "status", "headers", "dispatch", "transport" or "sdp" of
                  \* parse, then "returned"; "undefined" after a read of an unset pointer
  more,           \* nextLineStart # NULL
  respondCode,    \* the code of the status line, 0 before it
  sessionParamsStr, transportParamsStr,   \* a Session, a Transport line with parameters was read
  ret,            \* 0 is RET_SUCESS, -1 RET_ERR
  pSetup,         \* port and session; the session is 0 if none, 1 if an earlier reply's,
                  \* 2 if this reply's
  before,         \* history: pREPLY when the request was written
  foreign         \* history: a CSeq line with another number was read

locals == <<phase, more, respondCode, sessionParamsStr, transportParamsStr, ret>>
hist == <<before, foreign>>
vars == <<cmdVars, trVars, sdpVars, locals, pSetup, hist>>

pREPLY == <<media0, pSetup>>

\* No description was ever parsed, or one whose track was its second line.
Earlier ==
  \/ SdpInit
  \/ /\ sdp = <<"video", "control">> /\ sdpLine = 0 /\ loop = "returned"
     /\ fControlPath = 2 /\ fMultiplexRTCPWithRTP = FALSE

Init ==
  /\ CmdInit /\ TrInit /\ Earlier
  /\ pSetup \in [port : FieldPorts \cup {0}, session : {0, 1}]
  /\ phase = "build" /\ more = TRUE /\ respondCode = 0
  /\ sessionParamsStr = FALSE /\ transportParamsStr = FALSE /\ ret = 0
  /\ before = pREPLY /\ foreign = FALSE

---------------------------------------------------------------------------
(* The request *)

Build ==
  /\ phase = "build" /\ request = "none"
  /\ \/ \E m \in {"OPTIONS", "DESCRIBE"} : UrlRequest(m)
     \/ SetupRequest(fControlPath # 0)
     \/ \E m \in {"PLAY", "PAUSE", "TEARDOWN"} : SessionRequest(m, pSetup.session # 0)
  /\ UNCHANGED <<trVars, sdpVars, locals, pSetup, hist>>

AddLine ==
  /\ phase = "build" /\ add_line_cmd
  /\ UNCHANGED <<trVars, sdpVars, locals, pSetup, hist>>

Written ==
  /\ phase = "build" /\ request # "none" /\ todo = <<>>
  /\ end_cmd
  /\ phase' = "status"
  /\ UNCHANGED <<request, todo, whole, trackLen, trVars, sdpVars, more, respondCode,
                 sessionParamsStr, transportParamsStr, ret, pSetup, hist>>

---------------------------------------------------------------------------
(* parse up to the blank line *)

Header == {"blank", "cseq", "otherCseq", "badCseq", "emptyCseq", "session", "transport", "other"}

\* Nothing was read in five reads: the copy has no byte, and what getLine sees
\* is what malloc(0) points to: no status line, or one left by an earlier reply.
NothingRead ==
  /\ phase = "status" /\ more
  /\ \/ phase' = "returned" /\ ret' = -1 /\ UNCHANGED respondCode
     \/ phase' = "dispatch" /\ respondCode' = 200 /\ UNCHANGED ret
  /\ more' = FALSE
  /\ UNCHANGED <<cmdVars, trVars, sdpVars, sessionParamsStr, transportParamsStr, pSetup, hist>>

\* The first line that is not blank must be a status line.  Blank lines before
\* it change nothing.
StatusLine(code) ==
  /\ phase = "status"
  /\ respondCode' = code
  /\ more' \in BOOLEAN
  /\ phase' = "headers"
  /\ UNCHANGED <<cmdVars, trVars, sdpVars, sessionParamsStr, transportParamsStr, ret, pSetup, hist>>

NoStatusLine ==
  /\ phase = "status"
  /\ ret' = -1 /\ phase' = "returned"
  /\ UNCHANGED <<cmdVars, trVars, sdpVars, more, respondCode, sessionParamsStr, transportParamsStr,
                 pSetup, hist>>

\* A slip: a mismatch is only logged.
MismatchLogged(l) ==
  /\ phase' = IF l = "blank" THEN "dispatch" ELSE "headers"
  /\ ret' = ret

\* What a header line does to ret and to the loop.
AfterLine(l) ==
  \/ l = "blank" /\ phase' = "dispatch" /\ ret' = ret
  \/ l \in {"otherCseq", "badCseq"} /\ phase' = "returned" /\ ret' = -1
  \* checkForHeader leaves headerParamsStr unset.
  \/ l = "emptyCseq" /\ \/ phase' \in {"headers", "undefined"} /\ ret' = ret
                        \/ phase' = "returned" /\ ret' = -1
  \/ l \in {"cseq", "session", "transport", "other"} /\ phase' = "headers" /\ ret' = ret

\* One round of the loop over the header lines.
HeaderLine(l) ==
  /\ phase = "headers" /\ more
  /\ more' \in BOOLEAN
  /\ AfterLine(l)
  /\ sessionParamsStr' = (sessionParamsStr \/ l = "session")
  /\ transportParamsStr' = (transportParamsStr \/ l = "transport")
  /\ foreign' = (foreign \/ l = "otherCseq")
  /\ UNCHANGED <<cmdVars, trVars, sdpVars, respondCode, pSetup, before>>

\* The buffer ends before a blank line: that is taken for the end of the header.
HeaderCut ==
  /\ phase = "headers" /\ ~more
  /\ phase' = "dispatch"
  /\ UNCHANGED <<cmdVars, trVars, sdpVars, more, respondCode, sessionParamsStr,
                 transportParamsStr, ret, pSetup, hist>>

---------------------------------------------------------------------------
(* The rest of parse *)

\* Whatever went wrong with the body or the lines, only the code counts.
Result == ret' = (IF respondCode = 200 THEN 0 ELSE -1) /\ phase' = "returned"

\* A slip: pSetup is not cleared.
SetupKept ==
  /\ phase = "dispatch" /\ request = "SETUP"
  /\ UNCHANGED pSetup
  /\ \/ /\ transportParamsStr /\ phase' = "transport" /\ ret' = ret
        /\ \E line \in Lines : TrStart(line)
     \/ ~transportParamsStr /\ Result /\ UNCHANGED trVars
  /\ UNCHANGED <<cmdVars, sdpVars, more, respondCode, sessionParamsStr, transportParamsStr, hist>>

\* The header is done with: its locals are not used any more.
DispatchDescribe ==
  /\ phase = "dispatch" /\ request = "DESCRIBE"
  /\ fControlPath' = 0 /\ fMultiplexRTCPWithRTP' = FALSE
  /\ \/ /\ more /\ phase' = "sdp" /\ ret' = ret
        /\ \E d \in Descriptions : SdpStart(d)
     \/ ~more /\ Result /\ sdp' = <<>> /\ sdpLine' = 0 /\ loop' = "returned"
  /\ more' = FALSE /\ sessionParamsStr' = FALSE /\ transportParamsStr' = FALSE
  /\ UNCHANGED <<cmdVars, trVars, respondCode, pSetup, hist>>

ParseSdp ==
  /\ phase = "sdp"
  /\ \/ SdpNext /\ UNCHANGED <<phase, ret>>
     \/ loop = "returned" /\ Result /\ UNCHANGED sdpVars
  /\ UNCHANGED <<cmdVars, trVars, more, respondCode, sessionParamsStr, transportParamsStr,
                 pSetup, hist>>

DispatchSetup ==
  /\ phase = "dispatch" /\ request = "SETUP"
  /\ pSetup' = [port |-> 0, session |-> 0]
  /\ \/ /\ transportParamsStr /\ phase' = "transport" /\ ret' = ret
        /\ \E line \in Lines : TrStart(line)
     \/ ~transportParamsStr /\ Result /\ UNCHANGED trVars
  /\ more' = FALSE
  /\ UNCHANGED <<cmdVars, sdpVars, respondCode, sessionParamsStr, transportParamsStr, hist>>

\* The session is looked at only after a valid Transport line.
ParseTransport ==
  /\ phase = "transport"
  /\ \/ TrField /\ UNCHANGED <<phase, ret, pSetup>>
     \/ /\ fields = <<>> /\ Result /\ UNCHANGED trVars
        /\ pSetup' = IF TrValid
                     THEN [port |-> TrPort, session |-> IF sessionParamsStr THEN 2 ELSE pSetup.session]
                     ELSE pSetup
  /\ UNCHANGED <<cmdVars, sdpVars, more, respondCode, sessionParamsStr, transportParamsStr, hist>>

DispatchOther ==
  /\ phase = "dispatch" /\ request \notin {"DESCRIBE", "SETUP"}
  /\ Result
  /\ UNCHANGED <<cmdVars, trVars, sdpVars, more, respondCode, sessionParamsStr,
                 transportParamsStr, pSetup, hist>>

Next ==
  \/ Build \/ AddLine \/ Written
  \/ NothingRead \/ (\E code \in {200, 404} : StatusLine(code)) \/ NoStatusLine
  \/ (\E l \in Header : HeaderLine(l)) \/ HeaderCut
  \/ DispatchDescribe \/ ParseSdp \/ DispatchSetup \/ ParseTransport \/ DispatchOther

Spec == Init /\ [][Next]_vars

---------------------------------------------------------------------------
(* Properties *)

\* Every variable keeps its range.
TypeOK ==
  /\ CmdTypeOK /\ SdpTypeOK
  /\ phase \in {"build", "status", "headers", "dispatch", "transport", "sdp", "returned", "undefined"}
  /\ respondCode \in {0, 200, 404} /\ ret \in {0, -1}
  /\ pSetup \in [port : FieldPorts \cup {0}, session : 0 .. 2]
  /\ fields \in Lines /\ tline \in Lines

\* A track of up to LongestTrack characters leaves room for every line of SETUP.
LongestTrack == mSendLen - 89

\* Every request is sent whole, blank line included, whatever URL parse_rtsp_url
\* let through and whatever session the server chose; SETUP as long as the track
\* is no longer than LongestTrack.
RequestWhole ==
  phase # "build" /\ trackLen <= LongestTrack => mSendOffset = whole /\ whole <= mSendLen

\* With a track of up to LongestTrack characters a request lacks no line and lies
\* in mSendbuf, blank line included.  With a longer one lines may be left out, and
\* the blank line may go behind mSendbuf, by its two bytes at most; the lines never do.
RequestSent == TypeOK /\ LinesFit /\ RequestWhole

\* A reply with a CSeq line of another request is not accepted, although ret is
\* overwritten at the end of parse, and it changes nothing that later requests
\* are built from.
ForeignIgnored ==
  foreign => ~(phase = "returned" /\ ret = 0) /\ pREPLY = before

\* The port and the session the next requests use come from one and the same
\* reply: the one just parsed, or an earlier one if this one was rejected.
NoMixture ==
  \/ pSetup = before[2]
  \/ /\ pSetup.session \in {0, 2}
     /\ pSetup.port \in {0} \cup {tline[i].port : i \in DOMAIN tline}
     /\ pSetup.session = 2 => sessionParamsStr /\ transportParamsStr

Kind(k) == {i \in DOMAIN tline : tline[i].kind = k}

\* The Transport line of a SETUP reply has been taken.
Taken == phase = "returned" /\ tline # <<>>

\* Of a unicast line with server_port the client connects to that port, in
\* whatever order the fields come and whatever else the line holds.
UnicastPort ==
  Taken /\ Kind("unicast") # {} /\ Kind("server_port") # {} =>
    pSetup.port = tline[Max(Kind("server_port"))].port

\* Port 0 is never taken for the server's, unless the line names it or has no
\* port that counts: without a valid line pSetup stays cleared, and the client
\* goes on all the same.
PortZero ==
  Taken /\ pSetup.port = 0 =>
    \/ \E i \in DOMAIN tline : tline[i].kind \in {"server_port", "client_port", "port"} /\ tline[i].port = 0
    \/ Kind("server_port") \cup Kind("client_port") = {}

\* The port udp_connect is called with is what the Transport line says, be it one
\* or none.
PortAsNamed == UnicastPort /\ PortZero
=============================================================================
