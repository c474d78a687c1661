-------------------------- MODULE ClientLifecycle --------------------------
(***************************************************************************)
(* What cRTSPClient and its cRTPClient hold of the process: descriptors,   *)
(* allocations and threads.  api_init may fail at any call it makes; the   *)
(* application may call api_init and api_deinit in any order, and another  *)
(* part of the process opens and closes descriptors of its own meanwhile.  *)
(* A descriptor is a number, the lowest free one when it is opened, and a  *)
(* number may be kept long after it was closed.                            *)
(***************************************************************************)
EXTENDS Integers, FiniteSetsExt

CONSTANTS
  Fds,          \* descriptors the process may have
  MaxInits,     \* bound on the calls of api_init
  MaxApp,       \* bound on the descriptors the rest of the process holds at a time
  Requested,    \* the receive buffer rtp_init asks for (2000000)
  KernelSizes   \* receive buffers a new socket may have

ASSUME LifecycleAssumption ==
  /\ Fds \subseteq Nat /\ MaxInits \in Nat /\ MaxApp \in Nat
  /\ Requested \in Nat /\ KernelSizes \subseteq Nat

None == -1

VARIABLES
  owner,         \* who opened a descriptor: "free", "tcp", "udp", "log", "app"
  m_socket,      \* of cRTSPClient
  fp_prot_log,   \* descriptor of the log, None for NULL
  udp,           \* m_socket of the cRTPClient
  heap,          \* what is allocated
  fControlPath,  \* "unset" until a DESCRIBE reply was parsed, "NULL", "track"
  created,       \* threads of the cRTPClient
  pc,            \* step in progress; "idle", "deleted"; "blocked" in a call that waits for good,
                 \* "undefined" after undefined behaviour, "killed" by SIGPIPE
  inits,         \* calls of api_init
  requestedSize, curSize,   \* of increaseReceiveBufferTo
  leaked,        \* history: what no pointer leads to any more
  foreign,       \* history: a descriptor of another owner was closed
  open,          \* history: api_init was called since the last api_deinit
  clean          \* history: see the properties

fdVars == <<owner, m_socket, fp_prot_log, udp>>
loop == <<requestedSize, curSize>>
hist == <<leaked, foreign, open, clean>>
vars == <<fdVars, heap, fControlPath, created, pc, inits, loop, hist>>

RtpHeap == {"pRTP", "serIp", "pQueNet", "pQueH264"}

\* cRTSPClient and cRTSPprotocol after their constructors: pREPLY is not set.
Init ==
  /\ owner = [f \in Fds |-> "free"]
  /\ m_socket = None /\ fp_prot_log = None /\ udp = None
  /\ heap = {"mSendbuf"} /\ fControlPath = "unset" /\ created = {}
  /\ pc = "idle" /\ inits = 0 /\ requestedSize = 0 /\ curSize = 0
  /\ leaked = {} /\ foreign = FALSE /\ open = FALSE /\ clean = TRUE

Free == {f \in Fds : owner[f] = "free"}
Opened(who) == owner' = [owner EXCEPT ![Min(Free)] = who]

\* close(fd) by one who takes the descriptor for his own.
Close(fd, who) ==
  /\ owner' = [f \in Fds |-> IF f = fd THEN "free" ELSE owner[f]]
  /\ foreign' = (foreign \/ (fd # None /\ owner[fd] \notin {who, "free"}))

\* Pointers to these are overwritten with new ones.
Allocate(what) == heap' = heap \cup what /\ leaked' = leaked \cup (heap \cap what)

Goto(step) == pc' = step

\* api_init gives up; harmless failures leave the client fit for api_deinit.
Fail(harmless) == pc' = "idle" /\ clean' = (clean /\ harmless)

---------------------------------------------------------------------------
(* Slips a change of cRTSPClient.cpp, cRTPClient.cpp or com_net.cpp could make. *)

\* The average is rounded up.
AskRoundedUp ==
  /\ pc = "recvbuf" /\ requestedSize > curSize
  /\ \/ udp # None /\ Goto("getport") /\ UNCHANGED requestedSize
     \/ requestedSize' = (requestedSize + curSize + 1) \div 2 /\ UNCHANGED pc
  /\ UNCHANGED <<fdVars, heap, fControlPath, created, inits, curSize, hist>>

\* The socket is not closed when connect fails.
ConnectKeepsSocket ==
  /\ pc = "connect"
  /\ \/ Free # {} /\ Opened("tcp") /\ m_socket' = Min(Free) /\ Goto("options") /\ UNCHANGED clean
     \/ Free # {} /\ Opened("tcp") /\ m_socket' = None /\ Fail(TRUE)
     \/ m_socket' = None /\ Fail(TRUE) /\ UNCHANGED owner
  /\ UNCHANGED <<fp_prot_log, udp, heap, fControlPath, created, inits, loop, leaked, foreign, open>>

\* rtp_start returns the result of the second pthread_create.
PlayLastResult ==
  /\ pc = "play"
  /\ created' \in SUBSET {"read", "parse"} /\ Fail("parse" \in created')
  /\ UNCHANGED <<fdVars, heap, fControlPath, inits, loop, leaked, foreign, open>>

\* fp_prot_log is not cleared after fclose.
LogKept ==
  /\ pc = "fclose"
  /\ fp_prot_log # None /\ Close(fp_prot_log, "log")
  /\ heap' = heap \ {"m_rtsp_buffer"}
  /\ Goto(IF "pRTP" \in heap THEN "join" ELSE "idle")
  /\ UNCHANGED <<m_socket, fp_prot_log, udp, fControlPath, created, inits, loop, leaked, open, clean>>

---------------------------------------------------------------------------
(* api_init *)

api_init ==
  /\ pc = "idle" /\ inits < MaxInits
  /\ inits' = inits + 1
  /\ open' = TRUE
  /\ clean' = (clean /\ ~open)
  /\ Goto("log")
  /\ UNCHANGED <<fdVars, heap, fControlPath, created, loop, leaked, foreign>>

OpenLog ==
  /\ pc = "log"
  /\ \/ fp_prot_log # None /\ Goto("buffer") /\ UNCHANGED <<owner, fp_prot_log, clean>>
     \/ /\ fp_prot_log = None /\ Free # {}
        /\ Opened("log") /\ fp_prot_log' = Min(Free) /\ Goto("buffer") /\ UNCHANGED clean
     \/ fp_prot_log = None /\ Fail(FALSE) /\ UNCHANGED <<owner, fp_prot_log>>
  /\ UNCHANGED <<m_socket, udp, heap, fControlPath, created, inits, loop, leaked, foreign, open>>

\* A failing malloc is only logged.
AllocBuffer ==
  /\ pc = "buffer"
  /\ \/ heap' = heap \cup {"m_rtsp_buffer"} /\ UNCHANGED clean
     \/ "m_rtsp_buffer" \notin heap /\ clean' = FALSE /\ UNCHANGED heap
  /\ Goto("url")
  /\ UNCHANGED <<fdVars, fControlPath, created, inits, loop, leaked, foreign, open>>

\* parse_rtsp_url: too long, another scheme, no host and port.  The socket is
\* then still the one of the session before, if there was one.
ParseUrl ==
  /\ pc = "url"
  /\ \/ Goto("connect") /\ UNCHANGED clean
     \/ Fail(m_socket = None)
  /\ UNCHANGED <<fdVars, heap, fControlPath, created, inits, loop, leaked, foreign, open>>

\* connect and tcp_net_conncet: no socket, no connection, or both.
Connect ==
  /\ pc = "connect"
  /\ leaked' = leaked \cup (IF m_socket # None /\ owner[m_socket] = "tcp" THEN {"tcp"} ELSE {})
  /\ \/ Free # {} /\ Opened("tcp") /\ m_socket' = Min(Free) /\ Goto("options") /\ UNCHANGED clean
     \/ m_socket' = None /\ Fail(TRUE) /\ UNCHANGED owner
  /\ UNCHANGED <<fp_prot_log, udp, heap, fControlPath, created, inits, loop, foreign, open>>

\* rtsp_request clears m_rtsp_buffer without a test; the reply to OPTIONS does not count.
Options ==
  /\ pc = "options"
  /\ Goto(IF "m_rtsp_buffer" \in heap THEN "describe" ELSE "undefined")
  /\ UNCHANGED <<fdVars, heap, fControlPath, created, inits, loop, hist>>

\* A reply that is rejected may have been parsed as far as media[0], which is
\* cleared without freeing the track.
Describe ==
  /\ pc = "describe"
  /\ \/ /\ fControlPath' \in {"NULL", "track"}
        /\ leaked' = leaked \cup (IF fControlPath = "track" THEN {"fControlPath"} ELSE {})
        /\ \/ Goto("rtp_init") /\ UNCHANGED clean
           \/ Fail(TRUE)
     \/ Fail(TRUE) /\ UNCHANGED <<fControlPath, leaked>>
  /\ UNCHANGED <<fdVars, heap, created, inits, loop, foreign, open>>

\* after_describe and rtp_init up to udp_net_setup; the thread handles of the
\* new object are not set.
RtpInit ==
  /\ pc = "rtp_init"
  /\ leaked' = leaked \cup (heap \cap RtpHeap) \cup (IF created = {} THEN {} ELSE {"threads"})
  /\ heap' = heap \cup RtpHeap
  /\ created' = {}
  /\ \/ Free # {} /\ Opened("udp") /\ udp' = Min(Free) /\ curSize' \in KernelSizes
     \/ udp' = None /\ curSize' = 0 /\ UNCHANGED owner
  /\ requestedSize' = Requested
  /\ Goto("recvbuf")
  /\ UNCHANGED <<m_socket, fp_prot_log, fControlPath, inits, foreign, open, clean>>

\* One round of increaseReceiveBufferTo: the kernel accepts the size or it does not.
Ask ==
  /\ pc = "recvbuf" /\ requestedSize > curSize
  /\ \/ udp # None /\ Goto("getport") /\ UNCHANGED requestedSize
     \/ requestedSize' = (requestedSize + curSize) \div 2 /\ UNCHANGED pc
  /\ UNCHANGED <<fdVars, heap, fControlPath, created, inits, curSize, hist>>

AskedEnough ==
  /\ pc = "recvbuf" /\ requestedSize <= curSize
  /\ Goto("getport")
  /\ UNCHANGED <<fdVars, heap, fControlPath, created, inits, loop, hist>>

\* udp_get_port decides the result of rtp_init.
GetPort ==
  /\ pc = "getport"
  /\ requestedSize' = 0 /\ curSize' = 0
  /\ \/ udp # None /\ Goto("setup") /\ UNCHANGED clean
     \/ Fail(FALSE)
  /\ UNCHANGED <<fdVars, heap, fControlPath, created, inits, leaked, foreign, open>>

\* SETUP and udp_connect, which closes the socket when it fails and leaves its
\* number in place.
Setup ==
  /\ pc = "setup"
  /\ \/ Goto("play") /\ UNCHANGED <<owner, foreign, clean>>
     \/ Fail(FALSE) /\ UNCHANGED <<owner, foreign>>
     \/ Fail(FALSE) /\ Close(udp, "udp")
  /\ UNCHANGED <<m_socket, fp_prot_log, udp, heap, fControlPath, created, inits, loop, leaked, open>>

\* PLAY and rtp_start, which tries both threads.
Play ==
  /\ pc = "play"
  /\ \/ Fail(FALSE) /\ UNCHANGED created
     \/ created' \in SUBSET {"read", "parse"} /\ Fail(created' = {"read", "parse"})
  /\ UNCHANGED <<fdVars, heap, fControlPath, inits, loop, leaked, foreign, open>>

\* The write of any of the four requests may raise SIGPIPE (RtspSession says when).
Killed ==
  /\ pc \in {"options", "describe", "setup", "play"}
  /\ Goto("killed") /\ clean' = FALSE
  /\ UNCHANGED <<fdVars, heap, fControlPath, created, inits, loop, leaked, foreign, open>>

---------------------------------------------------------------------------
(* Frames, api_deinit, delete *)

\* api_requestFrameBuffer and its kin: an error without a cRTPClient; a frame
\* while both threads run; otherwise getbuffer never returns.
RequestFrame ==
  /\ pc = "idle" /\ "pRTP" \in heap /\ created # {"read", "parse"}
  /\ Goto("blocked")
  /\ UNCHANGED <<fdVars, heap, fControlPath, created, inits, loop, hist>>

\* m_socket keeps its number.
api_deinit ==
  /\ pc = "idle" /\ inits > 0
  /\ Close(m_socket, "tcp")
  /\ open' = FALSE /\ clean' = (clean /\ open)
  /\ Goto("fclose")
  /\ UNCHANGED <<m_socket, fp_prot_log, udp, heap, fControlPath, created, inits, loop, leaked>>

\* fclose has no test for NULL.
CloseLog ==
  /\ pc = "fclose"
  /\ \/ fp_prot_log = None /\ Goto("undefined") /\ UNCHANGED <<owner, foreign, heap>>
     \/ /\ fp_prot_log # None /\ Close(fp_prot_log, "log")
        /\ heap' = heap \ {"m_rtsp_buffer"}
        /\ Goto(IF "pRTP" \in heap THEN "join" ELSE "idle")
  /\ fp_prot_log' = None
  /\ UNCHANGED <<m_socket, udp, fControlPath, created, inits, loop, leaked, open, clean>>

\* rtp_stop joins both threads.  Two that run may sit in recvfrom or sem_wait for
\* good (RtpClient says when they do not); a handle that was never set makes the
\* process crash, wait or go on.
Join ==
  /\ pc = "join"
  /\ \/ Goto("rtp_deinit") /\ created' = {}
     \/ Goto("blocked") /\ UNCHANGED created
     \/ created # {"read", "parse"} /\ Goto("undefined") /\ UNCHANGED created
  /\ UNCHANGED <<fdVars, heap, fControlPath, inits, loop, hist>>

\* The rest of rtp_deinit, and delete pRTP.
RtpDeinit ==
  /\ pc = "rtp_deinit"
  /\ Close(udp, "udp") /\ udp' = None
  /\ heap' = heap \ RtpHeap
  /\ Goto("idle")
  /\ UNCHANGED <<m_socket, fp_prot_log, fControlPath, created, inits, loop, leaked, open, clean>>

\* The destructor frees the track, a pointer that is unset as long as no
\* DESCRIBE reply was parsed.
Delete ==
  /\ pc = "idle" /\ ~open
  /\ heap' = heap \ {"mSendbuf"}
  /\ \/ pc' = "deleted" /\ fControlPath' = "NULL"
     \/ fControlPath = "unset" /\ Goto("undefined") /\ UNCHANGED fControlPath
  /\ UNCHANGED <<fdVars, created, inits, loop, hist>>

---------------------------------------------------------------------------
(* The rest of the process *)

AppOpens ==
  /\ Free # {} /\ Cardinality({f \in Fds : owner[f] = "app"}) < MaxApp
  /\ Opened("app")
  /\ UNCHANGED <<m_socket, fp_prot_log, udp, heap, fControlPath, created, pc, inits, loop, hist>>

AppCloses ==
  /\ \E f \in Fds : owner[f] = "app" /\ owner' = [owner EXCEPT ![f] = "free"]
  /\ UNCHANGED <<m_socket, fp_prot_log, udp, heap, fControlPath, created, pc, inits, loop, hist>>

InCall == \/ OpenLog \/ AllocBuffer \/ ParseUrl \/ Connect \/ Options \/ Describe \/ RtpInit
          \/ Ask \/ AskedEnough \/ GetPort \/ Setup \/ Play \/ CloseLog \/ Join \/ RtpDeinit

Next == \/ api_init \/ api_deinit \/ RequestFrame \/ Delete \/ InCall \/ Killed
        \/ AppOpens \/ AppCloses

Spec == Init /\ [][Next]_vars

\* A call in progress goes on: the kernel answers connect, and the server's
\* replies are waited for five times 50 ms and no longer.
FairSpec == Spec /\ WF_vars(InCall)

---------------------------------------------------------------------------
(* Properties *)

\* Every variable keeps its range; a descriptor kept is one of the process.
TypeOK ==
  /\ owner \in [Fds -> {"free", "tcp", "udp", "log", "app"}]
  /\ {m_socket, fp_prot_log, udp} \subseteq Fds \cup {None}
  /\ heap \subseteq {"mSendbuf", "m_rtsp_buffer"} \cup RtpHeap
  /\ created \subseteq {"read", "parse"}
  /\ requestedSize \in Nat /\ curSize \in Nat
  /\ fControlPath \in {"unset", "NULL", "track"} /\ clean \in BOOLEAN

\* clean: api_init and api_deinit alternate, and every api_init either succeeded
\* or failed where the client can cope with it: no connection, no answer to
\* DESCRIBE, or a bad URL while m_socket is still -1.

\* Used that way the client never closes a descriptor of someone else, its own
\* log included, however numbers are reused.
ClosesOwn == clean => ~foreign

\* Used that way nothing undefined happens, up to the destructor if there was a
\* DESCRIBE reply, and no call waits for what no thread will bring: the one that
\* may wait for good is the api_deinit of a running session.
DefinedWhenClean ==
  clean => /\ pc = "undefined" => fControlPath = "unset"
           /\ pc = "blocked" => ~open /\ created = {"read", "parse"}

\* After api_deinit the client holds nothing of the process but its send buffer
\* and the last track.
AllReleased ==
  clean /\ pc = "idle" /\ ~open =>
    /\ \A f \in Fds : owner[f] \in {"free", "app"}
    /\ heap = {"mSendbuf"} /\ created = {}

\* Used that way only tracks leak, one with each DESCRIBE but the first.
OnlyTracksLeak == clean => leaked \subseteq {"fControlPath"}

\* A session that succeeded runs both threads on a socket of its own, and no
\* other descriptor of the client has the same number.
SessionSound ==
  clean /\ pc = "idle" /\ created # {} =>
    /\ created = {"read", "parse"}
    /\ owner[m_socket] = "tcp" /\ owner[udp] = "udp" /\ owner[fp_prot_log] = "log"

\* The three together: between calls the client holds what its session needs, or
\* after api_deinit nothing.
HoldsItsOwn == TypeOK /\ AllReleased /\ OnlyTracksLeak /\ SessionSound

\* The search for a receive buffer ends whatever the kernel refuses, and so does
\* api_init, and api_deinit when there are no threads (left) to join.  One that
\* has two running threads to join may wait for good.
CallReturns ==
  (clean /\ created = {} /\ pc # "idle") ~> (pc \in {"idle", "deleted", "undefined", "killed"})
=============================================================================
