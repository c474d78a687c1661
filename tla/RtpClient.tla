----------------------------- MODULE RtpClient -----------------------------
(***************************************************************************)
(* cRTPClient: the thread that reads the socket, the thread that parses,   *)
(* the application thread that starts them, takes frames and shuts them    *)
(* down, and the two queues between them.  The queues are taken at the     *)
(* grain of their calls (CQueue opens them up): what counts here is who    *)
(* waits for whom.                                                         *)
(***************************************************************************)
EXTENDS Integers

CONSTANTS
  NetFrames,    \* slots of pQueNet (300 in the code)
  H264Frames,   \* slots of pQueH264 (50 in the code)
  MaxRequests   \* frames the application takes before api_deinit (300 in test_main)

ASSUME ClientAssumption ==
  /\ NetFrames \in Nat \ {0} /\ H264Frames \in Nat \ {0}
  /\ MaxRequests \in Nat

None == -1
Ring(n) == [in : 0 .. n - 1, out : 0 .. n - 1, count : 0 .. n, held : (0 .. n - 1) \cup {None}]
EmptyRing == [in |-> 0, out |-> 0, count |-> 0, held |-> None]

VARIABLES
  mbRead, mbParse,   \* the flags the threads poll
  pQueNet, pQueH264, \* the rings: next slot in, next slot out, frames, slot handed out
  socket,            \* what recvfrom on m_socket finds: see Arrivals
  rpc, ppc, apc,     \* steps of read_thread, parse_thread and the application
  created,           \* the threads pthread_create made
  alive,             \* what rtp_init created and rtp_deinit has not deleted yet
  requests           \* frames the application has taken

flags == <<mbRead, mbParse>>
vars == <<flags, pQueNet, pQueH264, socket, rpc, ppc, apc, created, alive, requests>>

\* Nothing yet, an RTP packet, or what makes recvfrom return 0 or -1: an empty
\* datagram or an error.
Arrivals == {"empty", "packet", "void"}

\* rtp_init creates the first three, the parse thread its parser.
Objects == {"pQueNet", "pQueH264", "socket", "pRTPParse"}

\* What rtp_init leaves: the queues, the socket, no threads.
Init ==
  /\ mbRead = FALSE /\ mbParse = FALSE
  /\ pQueNet = EmptyRing /\ pQueH264 = EmptyRing
  /\ socket = "empty"
  /\ rpc = "none" /\ ppc = "none" /\ apc = "setup"
  /\ created = {} /\ alive = Objects \ {"pRTPParse"}
  /\ requests = 0

---------------------------------------------------------------------------
(* One call of push, getbuffer and releasebuffer on a ring of n slots.     *)

Add(i, n) == IF i + 1 >= n THEN 0 ELSE i + 1

\* push waits for a slot that is handed out and covers the oldest frame.
CanPush(q) == q.in # q.held
Pushed(q, n) == [q EXCEPT !.in = Add(@, n),
                          !.out = IF q.count = n THEN Add(@, n) ELSE @,
                          !.count = IF @ = n THEN n ELSE @ + 1]

CanGet(q) == q.count > 0
Got(q, n) == [q EXCEPT !.held = q.out, !.out = Add(@, n), !.count = @ - 1]
Released(q) == [q EXCEPT !.held = None]

---------------------------------------------------------------------------
(* Slips a change of cRTPClient.cpp could make.                            *)

\* rtp_stop does not join the parse thread.
JoinParseSkipped ==
  /\ apc = "joinParse"
  /\ apc' = IF "parse" \in created THEN "delete" ELSE "undefined"
  /\ UNCHANGED <<flags, pQueNet, pQueH264, socket, rpc, ppc, created, alive, requests>>

\* parse() takes the next packet without giving the last one back.
ReleaseForgotten ==
  /\ ppc = "release"
  /\ ppc' = "check"
  /\ UNCHANGED <<flags, pQueNet, pQueH264, socket, rpc, apc, created, alive, requests>>

\* rtp_stop leaves mbParse set.
StopKeepsParse ==
  /\ apc = "stop"
  /\ apc' = "stopRead"
  /\ UNCHANGED <<flags, pQueNet, pQueH264, socket, rpc, ppc, created, alive, requests>>

---------------------------------------------------------------------------
(* read_thread *)

ReadCheck ==
  /\ rpc = "check"
  /\ rpc' = IF mbRead THEN "recv" ELSE "exit"
  /\ UNCHANGED <<flags, pQueNet, pQueH264, socket, ppc, apc, created, alive, requests>>

\* recvfrom has no timeout; what it returns is pushed only if ret > 0.
ReadRecv ==
  /\ rpc = "recv"
  /\ \/ socket = "packet" /\ rpc' = "push"
     \/ socket = "void" /\ rpc' = "check"
  /\ socket' = "empty"
  /\ UNCHANGED <<flags, pQueNet, pQueH264, ppc, apc, created, alive, requests>>

ReadPush ==
  /\ rpc = "push"
  /\ CanPush(pQueNet)
  /\ pQueNet' = Pushed(pQueNet, NetFrames)
  /\ rpc' = "check"
  /\ UNCHANGED <<flags, pQueH264, socket, ppc, apc, created, alive, requests>>

Reader == ReadCheck \/ ReadRecv \/ ReadPush

---------------------------------------------------------------------------
(* parse_thread and parse() *)

ParseCheck ==
  /\ ppc = "check"
  /\ ppc' = IF mbParse THEN "wait" ELSE "exit"
  /\ UNCHANGED <<flags, pQueNet, pQueH264, socket, rpc, apc, created, alive, requests>>

\* getbuffer sleeps until there is a packet.  Its header is rejected or its
\* payload goes to the parser, which may complete a frame.
ParseGet ==
  /\ ppc = "wait"
  /\ CanGet(pQueNet)
  /\ pQueNet' = Got(pQueNet, NetFrames)
  /\ \/ ppc' = "release" /\ UNCHANGED alive
     \/ ppc' \in {"push", "release"} /\ alive' = alive \cup {"pRTPParse"}
  /\ UNCHANGED <<flags, pQueH264, socket, rpc, apc, created, requests>>

ParsePush ==
  /\ ppc = "push"
  /\ CanPush(pQueH264)
  /\ pQueH264' = Pushed(pQueH264, H264Frames)
  /\ ppc' = "release"
  /\ UNCHANGED <<flags, pQueNet, socket, rpc, apc, created, alive, requests>>

ParseRelease ==
  /\ ppc = "release"
  /\ pQueNet' = Released(pQueNet)
  /\ ppc' = "check"
  /\ UNCHANGED <<flags, pQueH264, socket, rpc, apc, created, alive, requests>>

Parser == ParseCheck \/ ParseGet \/ ParsePush \/ ParseRelease

---------------------------------------------------------------------------
(* The application: rtp_start, the request loop of test_main, rtp_deinit   *)

\* SETUP or PLAY failed: rtp_start is never called.  test_main goes on all the
\* same; another application would shut down.
InitFails ==
  /\ apc = "setup"
  /\ apc' \in {"request", "stop"}
  /\ UNCHANGED <<flags, pQueNet, pQueH264, socket, rpc, ppc, created, alive, requests>>

\* rtp_start sets both flags; either pthread_create may fail, both are tried.
rtp_start ==
  /\ apc = "setup"
  /\ mbRead' = TRUE /\ mbParse' = TRUE
  /\ created' \in SUBSET {"read", "parse"}
  /\ rpc' = IF "read" \in created' THEN "check" ELSE rpc
  /\ ppc' = IF "parse" \in created' THEN "check" ELSE ppc
  /\ apc' = "request"
  /\ UNCHANGED <<pQueNet, pQueH264, socket, alive, requests>>

rtp_requestFrameBuffer ==
  /\ apc = "request" /\ requests < MaxRequests
  /\ CanGet(pQueH264)
  /\ pQueH264' = Got(pQueH264, H264Frames)
  /\ requests' = requests + 1
  /\ apc' = "write"
  /\ UNCHANGED <<flags, pQueNet, socket, rpc, ppc, created, alive>>

rtp_releaseBuffer ==
  /\ apc = "write"
  /\ pQueH264' = Released(pQueH264)
  /\ apc' = "request"
  /\ UNCHANGED <<flags, pQueNet, socket, rpc, ppc, created, alive, requests>>

LoopEnds ==
  /\ apc = "request" /\ requests = MaxRequests
  /\ apc' = "stop"
  /\ UNCHANGED <<flags, pQueNet, pQueH264, socket, rpc, ppc, created, alive, requests>>

\* rtp_stop clears the flags one after the other, then joins both threads.
StopParse ==
  /\ apc = "stop"
  /\ mbParse' = FALSE
  /\ apc' = "stopRead"
  /\ UNCHANGED <<mbRead, pQueNet, pQueH264, socket, rpc, ppc, created, alive, requests>>

StopRead ==
  /\ apc = "stopRead"
  /\ mbRead' = FALSE
  /\ apc' = "joinRead"
  /\ UNCHANGED <<mbParse, pQueNet, pQueH264, socket, rpc, ppc, created, alive, requests>>

\* pthread_join of a thread that was never created reads an uninitialised
\* pthread_t: nothing is known from there on.
JoinRead ==
  /\ apc = "joinRead"
  /\ \/ "read" \in created /\ rpc = "exit" /\ apc' = "joinParse"
     \/ "read" \notin created /\ apc' = "undefined"
  /\ UNCHANGED <<flags, pQueNet, pQueH264, socket, rpc, ppc, created, alive, requests>>

JoinParse ==
  /\ apc = "joinParse"
  /\ \/ "parse" \in created /\ ppc = "exit" /\ apc' = "delete"
     \/ "parse" \notin created /\ apc' = "undefined"
  /\ UNCHANGED <<flags, pQueNet, pQueH264, socket, rpc, ppc, created, alive, requests>>

\* rtp_deinit deletes the parser if there is one, closes the socket and deletes
\* pQueNet, then pQueH264.
Delete(step, o, next) ==
  /\ apc = step
  /\ alive' = alive \ {o}
  /\ apc' = next
  /\ UNCHANGED <<flags, pQueNet, pQueH264, socket, rpc, ppc, created, requests>>

Deletes ==
  \/ Delete("delete", "pRTPParse", "close")
  \/ Delete("close", "socket", "deleteNet")
  \/ Delete("deleteNet", "pQueNet", "deleteH264")
  \/ Delete("deleteH264", "pQueH264", "done")

Application ==
  \/ InitFails \/ rtp_start \/ rtp_requestFrameBuffer \/ rtp_releaseBuffer \/ LoopEnds
  \/ StopParse \/ StopRead \/ JoinRead \/ JoinParse \/ Deletes

---------------------------------------------------------------------------
(* The network.  The server keeps streaming: the client sends no TEARDOWN. *)

Arrive(what) ==
  /\ socket = "empty"
  /\ "socket" \in alive
  /\ socket' = what
  /\ UNCHANGED <<flags, pQueNet, pQueH264, rpc, ppc, apc, created, alive, requests>>

Packet == Arrive("packet")
Void == Arrive("void")

Next == Reader \/ Parser \/ Application \/ Packet \/ Void

Spec == Init /\ [][Next]_vars

\* Every thread runs; the server's next packet arrives sooner or later, whatever
\* else does.
FairSpec == /\ Spec
            /\ WF_vars(Reader) /\ WF_vars(Parser) /\ WF_vars(Application) /\ SF_vars(Packet)

---------------------------------------------------------------------------
(* Properties *)

AppSteps == {"setup", "request", "write", "stop", "stopRead", "joinRead", "joinParse",
             "delete", "close", "deleteNet", "deleteH264", "done", "undefined"}

\* Every variable keeps its range.
TypeOK ==
  /\ mbRead \in BOOLEAN /\ mbParse \in BOOLEAN
  /\ pQueNet \in Ring(NetFrames) /\ pQueH264 \in Ring(H264Frames)
  /\ socket \in Arrivals
  /\ rpc \in {"none", "check", "recv", "push", "exit"}
  /\ ppc \in {"none", "check", "wait", "push", "release", "exit"}
  /\ apc \in AppSteps
  /\ created \subseteq {"read", "parse"} /\ alive \subseteq Objects
  /\ requests \in 0 .. MaxRequests

\* No thread touches what rtp_deinit has deleted: the socket and pQueNet outlive
\* read_thread; the queues and the parser outlive parse_thread; pQueH264 outlives
\* the application's frame.
NoUseAfterDelete ==
  /\ rpc \in {"check", "recv"} => "socket" \in alive
  /\ rpc \in {"check", "recv", "push"} => "pQueNet" \in alive
  /\ ppc \in {"check", "wait", "push", "release"} => {"pQueNet", "pQueH264"} \subseteq alive
  /\ ppc = "push" => "pRTPParse" \in alive
  /\ pQueH264.held # None => "pQueH264" \in alive

\* The chain of waits never closes: a reader held up by the packet being parsed,
\* and a parser held up by the frame being written, end at a thread that moves.
NoCircularWait ==
  /\ (rpc = "push" /\ ~CanPush(pQueNet)) => ppc \in {"push", "release"}
  /\ (ppc = "push" /\ ~CanPush(pQueH264)) => apc = "write"

\* A packet read is always stored: neither full queues nor the shutdown hold up
\* the reading thread for good.
ReaderMoves == (rpc = "push") ~> (rpc # "push")

\* rtp_stop ends the two threads before it returns (cRTPClient.h:36,
\* cRTPClient.cpp:64), so rtp_deinit comes to its end.
Started == created = {"read", "parse"}
StopReturns == (Started /\ apc = "stop") ~> (apc = "done")

\* It does when the flags were cleared while the reader was storing a packet or
\* had one to read: that last packet also wakes the parser.
StopReturnsOnPacket ==
  (Started /\ apc = "joinRead" /\ (rpc = "push" \/ (rpc = "recv" /\ socket = "packet")))
    ~> (apc = "done")
=============================================================================
