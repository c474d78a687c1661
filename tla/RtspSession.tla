---------------------------- MODULE RtspSession ----------------------------
(***************************************************************************)
(* cRTSPClient and cRTSPprotocol::parse against a server and a TCP stream: *)
(* OPTIONS, DESCRIBE, SETUP and PLAY in turn, each written once and        *)
(* answered by whatever five reads of 50 ms bring in.  A reply is a        *)
(* sequence of items (status line, CSeq line, the other header lines with  *)
(* the blank line, body); replies follow each other on the wire, and what  *)
(* a request did not read is read by the next one.                         *)
(***************************************************************************)
EXTENDS Integers, Sequences

CONSTANTS
  Reads,       \* reads per request (count = 5)
  Ports,       \* UDP ports the kernel may bind
  MaxInits     \* bound on the calls of api_init

\* sin_port once it is bound, and the int16_t it is stored in.
PortNumbers == {p \in Nat : 1 <= p /\ p <= 65535}
Int16 == {p \in Int : -32768 <= p /\ p <= 32767}

ASSUME SessionAssumption ==
  /\ Reads \in Nat \ {0}
  /\ Ports \subseteq PortNumbers
  /\ MaxInits \in Nat

VARIABLES
  stage,       \* request in progress, or "idle", "ok", "failed", "killed"
  reading,     \* the request was written; its reply is being read
  m_cseq,
  reads, m_rtsp_buffer,          \* reads made, items read
  fControlPath, fSessionId,      \* from the replies; 0 is NULL or the empty string
  serverPortNum,                 \* 0 or the server's port, 1
  pRTP,                          \* "NULL", "init", "connected", "started"
  m_port,                        \* what udp_get_port stored
  udpPort,                       \* the port the kernel bound, in host order
  inits,                         \* calls of api_init
  link,                          \* the TCP connection as the client's kernel knows it
  requests,                      \* written, not yet read by the server
  server,                        \* what it has agreed to: "init", "ready", "playing"
  wire, inbox,                   \* reply items on their way, arrived
  sent,                          \* history: the last request written
  answered,                      \* history: CSeq asked and CSeq of the reply accepted
  cut,                           \* history: the network cut a reply inside its header
  excused                        \* history: a call to the kernel failed, the server refused or
                                 \* hung up, or a reply was parsed before all of it had been read

reply  == <<fControlPath, fSessionId, serverPortNum>>
client == <<stage, reading, m_cseq, reads, m_rtsp_buffer, reply, pRTP, m_port, udpPort, inits>>
net    == <<link, requests, server, wire, inbox>>
hist   == <<sent, answered, cut, excused>>
vars   == <<client, net, hist>>

NoRequest == [method |-> "none", cseq |-> 0, path |-> 0, port |-> 0, session |-> 0]

Init ==
  /\ stage = "idle" /\ reading = FALSE /\ m_cseq = 1 /\ reads = 0 /\ m_rtsp_buffer = <<>>
  /\ fControlPath = 0 /\ fSessionId = 0 /\ serverPortNum = 0
  /\ pRTP = "NULL" /\ m_port = 0 /\ udpPort = 0 /\ inits = 0
  /\ link = "up" /\ requests = <<>> /\ server = "init" /\ wire = <<>> /\ inbox = <<>>
  /\ sent = NoRequest /\ answered = <<0, 0>>
  /\ cut = FALSE /\ excused = FALSE

\* "closed": the server has shut its side; "reset": a reset came and its error is
\* still to be reported; "broken": the error was reported, or came after a shutdown.
Links == {"up", "closed", "reset", "broken"}

Methods == {"OPTIONS", "DESCRIBE", "SETUP", "PLAY"}
NextStage(m) == CASE m = "OPTIONS" -> "DESCRIBE" [] m = "DESCRIBE" -> "SETUP"
                  [] m = "SETUP" -> "PLAY" [] m = "PLAY" -> "ok"

---------------------------------------------------------------------------
(* Replies                                                                 *)

\* The items of the reply to request r; the track and the session are named
\* after the session they belong to.
Reply(r, code) ==
  <<[part |-> "status", cseq |-> r.cseq, code |-> code],
    [part |-> "cseq",   cseq |-> r.cseq, code |-> code],
    [part |-> "fields", cseq |-> r.cseq, code |-> code]>>
  \o IF r.method = "DESCRIBE" /\ code = 200
     THEN <<[part |-> "body", cseq |-> r.cseq, code |-> code]>> ELSE <<>>

\* The start of the buffer is a status line, and its second line a CSeq line.
\* An empty buffer holds no status line: the copy parse then makes has no byte,
\* and RtspProtocol has the case that malloc(0) returns an earlier copy.
CSeqRead(b) == Len(b) > 1 /\ b[2].part = "cseq"
WellFormed(b) == Len(b) > 0 /\ b[1].part = "status"

\* Which parts of the first reply were read.
FieldsRead(b) == Len(b) > 2 /\ b[3].part = "fields"
BodyRead(b) == FieldsRead(b) /\ Len(b) > 3 /\ b[4].part = "body"

\* All of the reply to the request in progress is in the buffer.
WholeReply(b) ==
  \E i \in 1 .. Len(b) :
    /\ b[i].cseq = m_cseq
    /\ b[i].part = IF stage = "DESCRIBE" /\ b[i].code = 200 THEN "body" ELSE "fields"

---------------------------------------------------------------------------
(* parse and udp_get_port, and the slips a change of them could make.      *)

\* CSeq lines are not compared.
MatchesAny(b) == WellFormed(b)

\* The number expected is the one of the next request.
MatchesNext(b) == WellFormed(b) /\ (CSeqRead(b) => b[2].cseq = m_cseq + 1)

\* The two bytes of a port swapped and read as int16_t: sin_port on a
\* little-endian machine.
NetOrder(p) == LET u == (p % 256) * 256 + p \div 256 IN IF u >= 32768 THEN u - 65536 ELSE u

\* parse: the buffer must begin with a status line; a CSeq line that was read
\* must match.  A CSeq line that was not read is not missed.
Matches(b) == WellFormed(b) /\ (CSeqRead(b) => b[2].cseq = m_cseq)

\* The status code is not looked at.
CodeIgnored(b) == Matches(b)

\* The result of parse: a matching reply with code 200, even if the fields or
\* the description it needs were not found (ret is overwritten).
ParseSucceeds(b) == Matches(b) /\ b[1].code = 200

\* parse keeps the track of an earlier DESCRIBE.
DescribeKeepsTrack(b) ==
  /\ fControlPath' = IF Matches(b) /\ BodyRead(b) THEN inits ELSE fControlPath
  /\ UNCHANGED <<fSessionId, serverPortNum>>

\* media[0] is cleared after the description was parsed.
TrackDropped(b) ==
  /\ fControlPath' = IF Matches(b) THEN 0 ELSE fControlPath
  /\ UNCHANGED <<fSessionId, serverPortNum>>

\* A read without timeout.
ReadBlocks ==
  /\ reading /\ reads < Reads
  /\ reads' = reads + 1
  /\ inbox # <<>>
  /\ m_rtsp_buffer' = m_rtsp_buffer \o inbox
  /\ inbox' = <<>>
  /\ UNCHANGED <<stage, reading, m_cseq, reply, pRTP, m_port, udpPort, inits,
                 link, requests, server, wire, hist>>

---------------------------------------------------------------------------
(* rtsp_request: write, read, parse                                        *)

\* api_init opens a new connection; nothing of an earlier one is left on it.
api_init ==
  /\ stage = "idle" /\ inits < MaxInits
  /\ inits' = inits + 1
  /\ link' = "up" /\ requests' = <<>> /\ server' = "init" /\ wire' = <<>> /\ inbox' = <<>>
  /\ \/ stage' = "OPTIONS" /\ excused' = FALSE
     \/ stage' = "failed" /\ excused' = TRUE
  /\ sent' = NoRequest /\ answered' = <<0, 0>> /\ cut' = FALSE
  /\ UNCHANGED <<reading, m_cseq, reads, m_rtsp_buffer, reply, pRTP, m_port, udpPort>>

\* A write, or a read that finds no data, reports the error of a reset, once.
ErrorReported(called) == link' = IF called /\ link = "reset" THEN "broken" ELSE link

\* request_options, request_describe, request_setup, request_play.  The result of
\* writeSocket is not looked at: the reply is read whether or not sendto failed,
\* and whether or not anybody reads what it sent.
WriteRequest ==
  /\ stage \in Methods /\ ~reading
  /\ sent' = [method |-> stage, cseq |-> m_cseq,
              path |-> IF stage = "SETUP" THEN fControlPath ELSE 0,
              port |-> IF stage = "SETUP" THEN m_port ELSE 0,
              session |-> IF stage = "PLAY" THEN fSessionId ELSE 0]
  /\ \/ link = "up" /\ requests' = Append(requests, sent') /\ UNCHANGED excused
     \/ excused' = TRUE /\ UNCHANGED requests
  /\ ErrorReported(TRUE)
  /\ reading' = TRUE /\ reads' = 0 /\ m_rtsp_buffer' = <<>>
  /\ UNCHANGED <<stage, m_cseq, reply, pRTP, m_port, udpPort, inits,
                 server, wire, inbox, answered, cut>>

\* sendto without MSG_NOSIGNAL on a broken connection raises SIGPIPE, which ends
\* a process that does not handle it.
Sigpipe ==
  /\ stage \in Methods /\ ~reading
  /\ link = "broken"
  /\ stage' = "killed"
  /\ UNCHANGED <<reading, m_cseq, reads, m_rtsp_buffer, reply, pRTP, m_port, udpPort, inits, net, hist>>

\* readSocket returns what has arrived, -1 after 50 ms without anything, 0 once
\* the server has closed, or the error of a reset; dataAll is the same for the last three.
ReadReply ==
  /\ reading /\ reads < Reads
  /\ reads' = reads + 1
  /\ m_rtsp_buffer' = m_rtsp_buffer \o inbox
  /\ inbox' = <<>>
  /\ ErrorReported(inbox = <<>>)
  /\ UNCHANGED <<stage, reading, m_cseq, reply, pRTP, m_port, udpPort, inits,
                 requests, server, wire, hist>>

\* The last step of a request: parse, m_cseq++, after_options and so on.
ReplyRead == reading /\ reads = Reads

\* fine: the after_... step, which talks to the kernel, succeeded as well.
Proceed(ok, fine) ==
  /\ reading' = FALSE
  /\ m_cseq' = m_cseq + 1
  /\ stage' = IF ok /\ fine THEN NextStage(stage) ELSE "failed"
  /\ excused' = (excused \/ ~fine \/ ~WholeReply(m_rtsp_buffer))
  /\ UNCHANGED <<reads, m_rtsp_buffer, inits, net, sent, cut>>

Accept(ok) ==
  answered' = IF ok THEN <<m_cseq, m_rtsp_buffer[1].cseq>> ELSE answered

\* The result of OPTIONS is not looked at.
EndOptions ==
  /\ ReplyRead /\ stage = "OPTIONS"
  /\ Proceed(TRUE, TRUE)
  /\ UNCHANGED <<reply, pRTP, m_port, udpPort, answered>>

\* parse clears media[0] and looks for the track in the body that was read.
ParseDescribe(b) ==
  /\ fControlPath' = IF ~Matches(b) THEN fControlPath ELSE IF BodyRead(b) THEN inits ELSE 0
  /\ UNCHANGED <<fSessionId, serverPortNum>>

\* after_describe creates the RTP client, binds its socket and asks its port.
EndDescribe ==
  /\ ReplyRead /\ stage = "DESCRIBE"
  /\ ParseDescribe(m_rtsp_buffer)
  /\ LET ok == ParseSucceeds(m_rtsp_buffer) IN
       /\ Accept(ok)
       /\ \/ /\ ok /\ pRTP' = "init"
             /\ \/ Proceed(TRUE, TRUE) /\ udpPort' \in Ports /\ m_port' = NetOrder(udpPort')
                \/ Proceed(TRUE, FALSE) /\ UNCHANGED <<udpPort, m_port>>
          \/ ~ok /\ Proceed(FALSE, TRUE) /\ UNCHANGED <<pRTP, udpPort, m_port>>

\* parse clears pSetup and takes the Transport and Session lines that were read.
ParseSetup(b) ==
  /\ LET found == FieldsRead(b) /\ b[1].code = 200 IN
       /\ serverPortNum' = IF ~Matches(b) THEN serverPortNum ELSE IF found THEN 1 ELSE 0
       /\ fSessionId' = IF ~Matches(b) THEN fSessionId ELSE IF found THEN inits ELSE 0
  /\ UNCHANGED fControlPath

\* after_setup connects the UDP socket to the server's port.
EndSetup ==
  /\ ReplyRead /\ stage = "SETUP"
  /\ ParseSetup(m_rtsp_buffer)
  /\ LET ok == ParseSucceeds(m_rtsp_buffer) IN
       /\ Accept(ok)
       /\ \/ Proceed(ok, TRUE) /\ pRTP' = IF ok THEN "connected" ELSE pRTP
          \/ ok /\ Proceed(ok, FALSE) /\ UNCHANGED pRTP
  /\ UNCHANGED <<m_port, udpPort>>

\* after_play starts the threads, or some of them.
EndPlay ==
  /\ ReplyRead /\ stage = "PLAY"
  /\ LET ok == ParseSucceeds(m_rtsp_buffer) IN
       /\ Accept(ok)
       /\ \E fine \in BOOLEAN : (fine \/ ok) /\ Proceed(ok, fine)
       /\ pRTP' = IF ok THEN "started" ELSE pRTP
  /\ UNCHANGED <<reply, m_port, udpPort>>

\* api_deinit closes the connection without TEARDOWN; the replies parsed stay.
api_deinit ==
  /\ stage \in {"ok", "failed"}
  /\ stage' = "idle" /\ pRTP' = "NULL"
  /\ UNCHANGED <<reading, m_cseq, reads, m_rtsp_buffer, reply, m_port, udpPort, inits, net, hist>>

Client == \/ api_init \/ WriteRequest \/ Sigpipe \/ ReadReply
          \/ EndOptions \/ EndDescribe \/ EndSetup \/ EndPlay \/ api_deinit

---------------------------------------------------------------------------
(* The server and the network *)

\* A conforming server: it may refuse, and must refuse a SETUP without a track
\* and a PLAY without its session.
Acceptable(r) == /\ r.method = "SETUP" => r.path = inits
                 /\ r.method = "PLAY" => server = "ready" /\ r.session = inits

Serve(code) ==
  /\ requests # <<>> /\ stage # "idle"
  /\ LET r == Head(requests) IN
       /\ code = 200 => Acceptable(r)
       /\ server' = IF code # 200 THEN server
                    ELSE IF r.method = "SETUP" THEN "ready"
                    ELSE IF r.method = "PLAY" THEN "playing" ELSE server
       /\ wire' = wire \o Reply(r, code)
  /\ excused' = (excused \/ code # 200)
  /\ requests' = Tail(requests)
  /\ UNCHANGED <<client, link, inbox, sent, answered, cut>>

\* The stream may be cut between any two items.
Arrive(n) ==
  /\ cut' = (cut \/ wire[n].part \in {"status", "cseq"})
  /\ inbox' = inbox \o SubSeq(wire, 1, n)
  /\ wire' = SubSeq(wire, n + 1, Len(wire))
  /\ UNCHANGED <<client, link, requests, server, sent, answered, excused>>

\* The server closes the connection: it reads no more; what it sent arrives.
Close ==
  /\ stage \in Methods /\ link = "up"
  /\ link' = "closed"
  /\ requests' = <<>>
  /\ excused' = TRUE
  /\ UNCHANGED <<client, server, wire, inbox, sent, answered, cut>>

\* The connection is reset, by a server that is gone or whose closed side was
\* written to: what has not arrived is lost.
Reset ==
  /\ stage \in Methods /\ link \in {"up", "closed"}
  /\ link' = IF link = "up" THEN "reset" ELSE "broken"
  /\ requests' = <<>> /\ wire' = <<>>
  /\ excused' = TRUE
  /\ UNCHANGED <<client, server, inbox, sent, answered, cut>>

Network == \/ \E code \in {200, 404} : Serve(code)
           \/ \E n \in 1 .. Len(wire) : Arrive(n)
           \/ Close \/ Reset

Next == Client \/ Network

Spec == Init /\ [][Next]_vars

\* The client thread runs; nothing is assumed of the server or the network.
FairSpec == Spec /\ WF_vars(Client)

---------------------------------------------------------------------------
(* Properties *)

\* Every variable keeps its range.
TypeOK ==
  /\ stage \in Methods \cup {"idle", "ok", "failed", "killed"} /\ reading \in BOOLEAN
  /\ m_cseq \in Nat /\ reads \in 0 .. Reads
  /\ fControlPath \in 0 .. MaxInits /\ fSessionId \in 0 .. MaxInits
  /\ serverPortNum \in {0, 1}
  /\ pRTP \in {"NULL", "init", "connected", "started"}
  /\ m_port \in Int16 /\ udpPort \in Ports \cup {0}
  /\ link \in Links /\ server \in {"init", "ready", "playing"}
  /\ cut \in BOOLEAN /\ excused \in BOOLEAN

\* As long as headers come whole, the reply a request is taken to have succeeded
\* with is its own, although late replies to earlier requests sit on the same stream.
OwnReplyAccepted == ~cut => answered[1] = answered[2]

\* The media threads are started only when the server has agreed to play.
StartedWhenPlaying == pRTP = "started" => server = "playing"

\* A request carries nothing learnt in an earlier session.
NothingStale ==
  /\ sent.method = "SETUP" /\ reading => sent.path \in {0, inits}
  /\ sent.method = "PLAY" /\ reading => sent.session \in {0, inits}

\* As long as headers come whole, PLAY names the session SETUP returned, which
\* it must (cRTSPprotocol.h:52).
PlayHasSession == ~cut /\ sent.method = "PLAY" => sent.session # 0

\* SETUP names the track DESCRIBE returned, which it must (cRTSPprotocol.h:32),
\* unless the description had not arrived when the reply was parsed: that error
\* is overwritten and SETUP is sent with a NULL track.
SetupHasTrack == ~excused /\ sent.method = "SETUP" => sent.path # 0

\* What the server needs to know is in the request, and everything in it (track,
\* session, port, CSeq) is a value the code can produce.
RequestsComplete == TypeOK /\ PlayHasSession /\ SetupHasTrack

\* SETUP gives the server the UDP port the client created (cRTSPClient.cpp:232).
PortAdvertised == sent.method = "SETUP" => sent.port = udpPort

\* api_init fails, or SIGPIPE ends the process, only if there is a reason: a socket
\* or a thread could not be had, the server refused or hung up, or some reply had
\* not arrived completely when it was parsed.
FailureExcused == stage \in {"failed", "killed"} => excused

\* api_init comes to an end whatever the server does: it returns, or SIGPIPE has
\* ended the process.
InitReturns == (stage \in Methods) ~> (stage \in {"ok", "failed", "killed"})
=============================================================================
