# Verification of canok_rtsp_client

TLA+ models, model-checking runs and machine-checked proofs for the RTSP/RTP
client in `src/my_rtsp_client`. Paths below are relative to that directory.

## 1. The system

The client opens a TCP connection to an RTSP server, sends OPTIONS, DESCRIBE,
SETUP and PLAY, receives H.264 over RTP/UDP in two threads and hands complete
NAL units to the application.

```
 application ── api_* ── cRTSPClient ── TCP ── server
      │                      │ parse (cRTSPprotocol, parseSDP)
      │                      ▼
      │                 cRTPClient ── UDP ── server
      │   read_thread ─► pQueNet ─► parse_thread ─► cH264RTP ─► pQueH264
      └───────────────── rtp_requestFrameBuffer / rtp_releaseBuffer ◄──┘
```

| Component | State it keeps | Operations | What is hard about it |
|---|---|---|---|
| `CQueue` (com_queue) | slots with a mutex each, in and out index, frame count, semaphore | push, pop, getbuffer, releasebuffer | two threads; index, count and semaphore change in separate steps; overflow moves the other thread's index; frames are handed out with their mutex held |
| `cRTPClient`, packets | first sequence number, last header, loss count, parser | set_header_info, check_header, parse, show_stream_info | loss, reordering, repetition, 16-bit wrap, a flag that is also a legal number |
| `cRTPClient`, threads | two flags, two threads, two queues, socket, parser | rtp_init, rtp_start, rtp_stop, rtp_deinit, read_thread, parse_thread | shutdown races, three-way waiting, objects deleted under threads |
| `cH264RTP` / `cRTPParse` | reassembly buffer and offset | parse_payload, get_nal_type, parse_FU_A | starts and ends that never arrive, buffer limit |
| `cRTSPClient` | CSeq, socket, log file, read buffer, RTP client | api_init, request_*, rtsp_request, after_*, api_deinit | late and partial replies, a server that hangs up, errors part of the way through, second session on the same object, descriptors kept after they were closed |
| `cRTSPprotocol` | send buffer, last reply (track, session, port) | begain_cmd, add_line_cmd, end_cmd, parse, parseSDP, parseTransportParams | errors overwritten or ignored, line order, cut headers, limits of buffers, pREPLY survives from reply to reply |
| `com_net` | - | sockets, timeouts, port, receive buffer | byte order, repeated close, halving loop |
| `memwatch` | chain of blocks, grab list, ring of freed pointers, counters | mwMalloc, mwFree, mwRealloc, mwLimit, mwGrab, mwDrop, mwNoMansLand, mwTest, mwInit, mwTerm, mwAbort | freed memory kept as no-mans-land and given up when memory is short; counters in several places; damaged blocks |
| `Pcapfile`, `com_debug` | - | capture file, logging | inactive or empty |

Interactions: `read_thread` pushes datagrams on `pQueNet`; `parse_thread` takes
them with getbuffer, holds the slot while it parses, and pushes NAL units on
`pQueH264`; the application takes those with getbuffer and gives them back.
`cRTSPClient` creates `cRTPClient` after DESCRIBE, connects its socket after
SETUP and starts its threads after PLAY. Each request goes through one
`cRTSPprotocol` object, which remembers what earlier replies said. In a build with
`-DEN_MEMWATCH`, malloc and free in com_queue.cpp and cH264RTP.cpp go to `memwatch`.

What makes each component correct:

- queue: frames are whole, come in order while the ring does not overflow, are
  recent afterwards, none is stranded; producer and consumer never wait at the same
  time if the consumer gives each frame back before it asks for the next;
- packets: the loss counter says what was lost (less what came twice and the wraps of
  the sequence number), one stream is followed, and its parser exists;
- threads: nothing is used after it is deleted, waits do not close into a circle, and
  shutdown comes to an end when the reader has a last packet (it may not otherwise);
- depacketizer: a NAL unit that arrives completely is delivered once, unmixed;
- session: a request succeeds only on its own reply, no track and no session is carried
  over from an older connection, api_init comes to an end, and fails only with a reason;
- description: the track belongs to a video stream and is found;
- requests and replies: what is sent ends in a blank line and lacks no line as long as
  the track is short enough, what is remembered comes from one reply, and from the
  right one;
- lifecycle: every descriptor is closed once, by its owner; api_init returns, and so does
  an api_deinit that has no running threads to join;
- memory checker: to its caller it is a heap; what it keeps aside it lists, gives up
  before it refuses memory, and reports when it was damaged.

## 2. Modules

| Module | Models | Correspondence |
|---|---|---|
| `LossyChannel` | what a queue promises (abstract) | `pushed`, `last`, `overflowed`: pushes so far, last frame handed out, "old data has been covered once" |
| `CQueue` | com_queue.cpp | one action per lock, semaphore or shared-counter access; `ppc`/`cpc` are the program counters of the two threads (`cpc = "wait"`: in sem_wait), a frame is its serial number |
| `RtpReceiver` | check_header, parse | one `Parse(h)` per packet: `FirstFrame`, `NextFrame` or `Reject` |
| `RtpStream` | the same behind a server, a network and foreign senders | extends `RtpReceiver`, knows packets by serial, so "lost" has a meaning |
| `H264Depacketizer` | cH264RTP | `Single`, `Start`, `Middle`, `End`, `Unsupported` are the branches; the server and a lossy, ordered network are environment |
| `RtpClient` | threads and lifecycle of cRTPClient, the loop of test_main | `rpc`, `ppc`, `apc` are the three threads; queue calls are atomic here; `socket` is what the next recvfrom returns with |
| `RequestBuilder` | begain_cmd, add_line_cmd, end_cmd and the six request_ functions | a line is its length; `request`, `todo` are the lines still to add, `mSendOffset` what is in `mSendbuf` |
| `TransportParams` | parseTransportParams | one action per field of the Transport line |
| `RtspProtocol` | class cRTSPprotocol: one request and the parse of the answer | extends the two above and `SdpParser`; one action per line read |
| `ClientLifecycle` | what cRTSPClient, cRTPClient and com_net open, allocate and release | `pc` is the step api_init, api_deinit or a request has reached; descriptors are numbers, lowest free first |
| `Heap` | what a heap promises (abstract) | `live`: blocks in use; `answer`: the last call and what it returned |
| `MemWatch` | memwatch.cpp | one action per public function; `mw` is the static variables and what it holds from the C library |
| `RtspSession` | cRTSPClient, cRTSPprotocol::parse | one action per write, per read and per end of a request; server, TCP stream and connection (`link`) are environment |
| `SdpParser` | parseSDP and its line tests | one action per round of one of the three loops |
| `CQueueProofs`, `RtpReceiverProofs`, `H264DepacketizerProofs`, `RtpClientProofs`, `RtspSessionProofs`, `RtspProtocolProofs`, `ClientLifecycleProofs` | theorems and lemmas about the model each extends, checked by TLAPS | section 4 |
| `MC*` | - | values of constants for TLC |

How they fit together: `CQueue` implements `LossyChannel` (`Channel == INSTANCE
LossyChannel WITH ...`), `MemWatch` implements `Heap` (`Promise == INSTANCE Heap WITH
live <- ...`: the blocks of the chain that are not no-mans-land). `RtpClient` uses two such
queues at the grain of whole calls. `RtpReceiver` is what `parse_thread` does with
one packet between `ParseGet` and `ParseRelease`; `RtpStream` composes it with a
server and a network; `H264Depacketizer` is what happens in `ParsePush`.
`RtspProtocol` opens up a single exchange of `RtspSession`: the request is written
line by line (`RequestBuilder`), the reply read line by line, its Transport line
(`TransportParams`) and its description (`SdpParser`) field by field, whereas
`RtspSession` has all exchanges of a session, with late and cut replies, but a reply
is a few items there. `ClientLifecycle` is the same session seen from the kernel: what
each step of api_init opens and what each failure leaves behind.

Modelling decisions worth knowing:

- **CQueue.** `mIndexlock` protects single reads and writes, so each critical
  section is one action; the unlocked write in `pop` (line 82) is a separate action
  after `reduceEffectives`. `iout = mOutindex` is read before the slot is locked, as
  in the code. A consumer in getbuffer without a token sleeps in sem_wait (`"wait"`) and
  gives nothing back meanwhile. `releasebuffer` is called only for frames handed out; the
  queue is created and destroyed outside the model. `pushed`, `last` and `overflowed` are
  history variables.
- **RtpReceiver.** `mlostCount` is the integer the code computes after promotion to
  `int`; only the wrap of the 16-bit operands matters. `SeqMod` stands for 65536.
  When the difference is 1 the code adds nothing, which is what adding `1 - 1` does.
- **H264Depacketizer.** A fragment weighs one byte, the rebuilt header another. The
  capacity test of `Middle` and the missing one of `End` are as in the code; an end
  written past the buffer sets `overrun`, and `WholeNalsSurvive` says nothing after that.
- **RtpClient.** The socket holds at most one arrival (more only add to what the
  reader finds): a packet, or `"void"`, an empty datagram or an error, for which
  recvfrom returns 0 or -1 and the reader pushes nothing (cRTPClient.cpp:271).
  `"undefined"` is where joining an uninitialised `pthread_t` leads.
  getbuffer is taken to return a frame: its return value -1, which `CQueue` shows to
  be possible only after an overflow, sends the caller round its loop once more and
  is left out. The application takes `MaxRequests` frames.
- **RtspSession.** A reply is a sequence of items (status line, CSeq line, the other
  fields, body). The network may cut between any two items; `cut` records that it cut
  inside a header. A conforming server refuses a SETUP without a track and a
  PLAY without its session. `excused` records whether there was a reason to fail.
  Closing the connection empties everything on its way; the parsed reply stays.
  The server may close or reset the connection at any time (`link`). A request written to
  one that is closed is read by nobody; the first write or empty read after a reset
  reports its error, which rtsp_request does not look at; a write after that, or after a
  reset that answers a write to a closed side, raises SIGPIPE. In `Sigpipe` the process
  does not handle the signal, as test_main does not. A write is never partial: a request is
  at most 258 bytes and the send buffer is empty or the socket blocks. `server` is what
  the server agreed to and outlives its connection, so `StartedWhenPlaying` says that PLAY
  was accepted, not that the server is still there.
- **RtspProtocol.** The exchange starts from any `pREPLY` earlier replies can have
  left, and the lines of the answer are chosen as they are read, so an answer may be
  late, cut, empty or not RTSP at all. A request is the lengths of its lines against
  `LineLen` (the formatting buffer) and `mSendLen`; the session name has up to the 63
  characters `sscanf` leaves of it. An unset pointer that is read ends in `"undefined"`.
  When five reads bring nothing, parse works on `malloc(0)` bytes: it sees no status
  line, or one left by an earlier reply.
- **ClientLifecycle.** api_init can fail at every call it makes. `clean` records that
  api_init and api_deinit alternate and that each api_init succeeded or failed where
  the client can cope with it; the properties of a well-used client are stated under
  it. A write that raises SIGPIPE ends the process (`Killed`); `RtspSession` says when.
  Joining two threads that run may wait for good (`"blocked"`); `RtpClient` says when it
  does not. `foreign`: the client closed a descriptor that was someone else's. Another part of
  the process opens and closes descriptors at any time. A handle never set makes
  `pthread_join` crash, wait for good or go on.
- **MemWatch.** One call at a time: the program calls it only from constructors and
  destructors of the queue and the depacketizer (com_queue.cpp, cH264RTP.cpp). The
  depacketizer's constructor runs in parse_thread, the others in the application's thread,
  but before rtp_start and after both joins, so the calls do not overlap. Memory is units, a block takes `Units(size)` of them. `Scribble` is the
  program writing where it should not. Every public function first goes through
  mwAutoInit as in the code (mwWrite does it for those that only log). `mwAbort` runs at
  exit, which is what the last `mwTerm` does. TLC identifies states by `View`: every
  call begins with an empty log, and the levels FREE and ALL differ only in the call
  that sets them, so what is left out has no influence on later steps.
- **SdpParser.** A line is one of six kinds; sub-kinds the code treats alike (an `m=`
  line it cannot read and one of an audio stream) are one kind.

## 3. Runs

`MemWatch` takes one to three minutes, `Protocol` about one, the others seconds.
Deadlock is checked in `MemWatch`, where some call is always possible. It is not
checked elsewhere: pushes, packets, sessions and lines are bounded, so those models
come to rest (a consumer then waits in `sem_wait`, as it does in the program when
nothing is sent).

| Run | Bounds | Shows |
|---|---|---|
| `CQueueGet` | 3 slots, 12 pushes, up to 2 frames held | frames handed out are whole and untouched; count, indices and semaphore agree when no thread is between them; no lost wakeup; a consumer that holds a frame locks itself out only after an overflow, and both threads wait for good only if the consumer sleeps in getbuffer with a frame whose slot push has come round to; no frame is stranded; `LossyChannel` is implemented |
| `CQueueMixed` | 3 slots, 9 pushes, pop and getbuffer, each frame given back before the next is asked for | the two threads never wait at the same time; every push returns, unless the consumer polls with pop; pop, which takes frames without their token, returns |
| `RtpStream` | numbers modulo 4, 6 packets sent, 1 repeated, 1 foreign | the loss counter telescopes; once all has landed it is the loss, less one per packet accepted again and less the wraps; parser exists; stream pinned |
| `H264Loss` | buffer of 5, 3 NAL units, 3 losses | starts never mix, complete NAL units arrive once and in order |
| `RtpClient` | rings of 3 and 2, 3 frames, reads with and without a packet | nothing used after delete, no circle of waits, the reader gets past push, shutdown ends if the reader has a last packet |
| `RtspSession` | 5 reads, 2 sessions, replies cut anywhere, connection closed or reset at any time | threads start only if the server agreed to play, no track or session of an older connection is sent, api_init comes to an end (SIGPIPE is one) and fails only with a reason; while headers come whole, each success is on the own reply and PLAY names its session; SETUP names a track unless the server was late or refused |
| `Protocol` | 4 header lines, 4 fields or description lines, URLs of 28 and 127, tracks of 167, 239 and 300 characters | with a track of up to 167 characters no line is cut or lost and the request lies in the send buffer; with a longer one at most two bytes go behind it; a reply that names another request's number neither succeeds nor is remembered; session and port come from one reply; the port is the one the line names for unicast; the track is of a video stream and the last eligible one is not lost |
| `Lifecycle` | 5 descriptors, 3 sessions, 1 descriptor of the rest of the process | used cleanly, the client closes only what is its own, does nothing undefined once a DESCRIBE was answered, gives back all but tracks, a running session owns its descriptors, no call waits for good but an api_deinit that has running threads to join; api_init returns, and so does any other api_deinit |
| `MemWatch` | 3 units of memory, sizes 1 and 2, limits 0 and 1, 2 remembered frees; nested inits, blocks of no-mans-land and blocks that mwAbort found live: 2 together | lists, holdings and counters agree; memory is refused only when none is left to give up; damage and double frees are reported; `Heap` is implemented |

Runs that end in a counterexample, each a statement the sources make and the code
does not keep:

| Run | Statement | Counterexample |
|---|---|---|
| `CQueueOrder` | old data is covered (com_queue.cpp:121) | getbuffer waits on a slot with an index it read before the overflow and gets the newest frame first, older ones after it |
| `RtpClientStop` | rtp_stop ends both threads (cRTPClient.h:36, cRTPClient.cpp:64) | reader leaves, parser sleeps in getbuffer, join hangs while the server streams on |
| `RtspPort` | the client's port is given to the server (cRTSPClient.cpp:232) | 50400 is sent as -7996 |

The models show more of this kind; a property is stated with the condition under which
it holds, and the condition is there for a reason:

- `Drained` is checked for consumers that use getbuffer only. With pop it fails: pop
  sets `mEffectives = 0` (com_queue.cpp:82) after another thread's push has counted a
  frame, and that frame is never delivered.
- `PopReturns` asks for a caller that holds no frame. For one that keeps a frame of
  getbuffer pop is not "no block" (com_queue.h:26): when the ring comes round to that
  slot, pop waits for the mutex its caller owns.
- `PushReturns` excepts a consumer that polls with pop: on an empty ring it locks the
  slot push waits for again and again, and nothing makes the mutex change hands.
- `NeverBothBlocked` and `PushReturns` ask for a consumer that keeps no frame over a call
  of getbuffer (`MaxHeld = 1`). With two frames allowed both fail without any overflow:
  hold the frame of slot 0, take and give back those of slots 1 and 2, call getbuffer; the
  push that comes round to slot 0 waits for its mutex (com_queue.cpp:105), the consumer for
  a token only that push could post (137). `NeverBlocked` says that this and `SelfLocked`
  are the only ways in which both can wait.
- `StopReturnsOnPacket` asks for a packet. If the reader's last recvfrom brings none it
  leaves without a push, and the parser sleeps on, as in `RtpClientStop`.
- `CallReturns` leaves out the api_deinit of a running session: its join may wait for
  good (cRTPClient.cpp:107, 108). That is what `RtpClientStop` shows.
- `LossExact` has the terms `Repeats` and `SeqMod * wraps`. What show_stream_info prints
  as packets lost (cRTPClient.cpp:159) has them too: each packet accepted again hides one
  loss, each wrap 65536. It asks for a first number that is not 0, as `StreamPinned` does.
- `OwnReplyAccepted` and `PlayHasSession` are conditional on `~cut`. If the network cuts
  a reply behind its status line, the status of a late reply to an earlier request is
  accepted (there is no CSeq line to compare); if it cuts in front of the Session line,
  PLAY goes out with an empty session, although cRTSPprotocol.h:52 requires one.
- `SetupHasTrack` is conditional on a prompt and willing server: when the body of a
  DESCRIBE reply comes after the five reads, the reply is accepted without it, and SETUP
  is sent without the track that cRTSPprotocol.h:32 requires.
- `RequestWhole` is conditional on the length of the track: from 168 characters on a
  SETUP can lose lines whose error nobody looks at (add_line_cmd). `LinesFit` then allows
  the blank line of end_cmd up to two bytes past `mSendbuf`, since nothing tests the room
  left for it (cRTSPprotocol.cpp:53). It happens: the request line of a track of 239
  characters fills the buffer, the other lines are refused, and the blank line goes behind.
- "undefined" in `RtspProtocol` is a `CSeq:` line with nothing behind it: the pointer to
  its parameters is never set.
- `DefinedWhenClean` excepts a destructor before any DESCRIBE reply: it frees
  `fControlPath`, which the constructor does not set.
- `ClosesOwn` needs `clean`. api_deinit leaves the number of a closed socket in
  `m_socket`, and udp_connect closes a descriptor that rtp_deinit closes again; a failed
  api_init afterwards, or a second api_deinit, closes whatever has that number then.
- `OnlyTracksLeak` says which allocation is lost in normal use: the track of the
  description before, overwritten with each DESCRIBE.
- `StreamPinned` begins where the first number is not 0, which is also the mark of "none
  yet" (cRTPClient.cpp:164): after a packet with number 0 the next one, of any source, is
  taken for the first again.
- `InitReturns` counts an end by SIGPIPE. com_net.cpp:125 says it is masked, but
  `MSG_NOSIGNAL` is no option of setsockopt (128) and sendto has no flags (169): once the
  reset was reported, the next write ends the process. `FailureExcused` says that it takes
  a server that hung up.
- `CountersMatchChain` has `<=` for no-mans-land once memory ran short: mwFreeUp gives
  blocks up without counting them down.
- `DamageReported` is about the guard zones of live blocks and the filling of freed and
  grabbed memory. mwTest itself looks at the chain only, although memwatch.h:273 says it
  checks grabbed memory too; grabbed no-mans-land is checked when it is dropped.
- `LastControlFound` excludes video sections that directly follow a video section: the
  `m=` line at which the inner loop stops is stepped over (cRTSPprotocol.cpp:293).
- `fMultiplexRTCPWithRTP` is cleared by every line that follows `a=rtcp-mux`
  (cRTSPprotocol.cpp:211); nothing reads it.

Why the bounds are enough. The queue's indices wrap after 3 pushes, so 9 to 12
pushes overflow it several times and let a stale index lag by a whole turn; 12 pushes
on 3 slots are the first size at which getbuffer finds a token but no frame. The
invariants were also run with 16 pushes. The receiver's state depends on differences
modulo `SeqMod` only; 6 packets wrap a modulus of 4. Three NAL units give a
predecessor and a successor to one that is cut by loss or by the buffer limit. The
description parser looks back at most one section, which four lines contain (it was
also run with five). Two sessions are what it takes to see something left over from the
first. In `Protocol` the lengths of tracks lie on both sides of both limits, and four
fields are one of each kind that matters to the port and the destination, in all orders.
In `Lifecycle` a third api_init meets what a failed second one left; five descriptors
are the three of a session, one of the process and one kept in error. In `MemWatch`
three units hold one block of each fate (live, no-mans-land, grabbed) or one large one,
and two remembered frees wrap their ring; with bounds of two
each for nested inits and no-mans-land, instead of two together, the run takes twice as
long and passes too.

Fairness. `CQueue` assumes that both threads keep running and that frames are given
back (`WF` of `Producer`, `Consumer` and `Release`): the threads are ordinary
pthreads, and test_main and parse_thread release each frame. A consumer that has called
getbuffer gives nothing back before it returns; one that is in no call makes the next, as
the loops of both do. `RtpClient` assumes that the three threads run, and, for the shutdown properties only, that the server sends on
(`SF` of `Packet`): the client sends no TEARDOWN, so it does, and reads that bring
nothing do not keep its packets out for good. `RtspSession` assumes that the
client's thread runs and nothing of the server or the network, since `SO_RCVTIMEO`
ends each read. `ClientLifecycle` assumes that a call in progress goes on (`WF` of
`InCall`): connect gets an answer of the kernel and replies are waited for five times
50 ms; `Join` may end in waiting for good. `SF` of `Packet` is the only strong fairness.

Several invariants are conjunctions of named parts that belong together and are checked
as one: `NeverBlocked` (`NoSelfLock`, `BlockedByKeptFrame`), `FramesSound`
(`FramesOrdered`, `PushedOnce`), `RequestsComplete` (`PlayHasSession`,
`SetupHasTrack`), `RequestSent` (`LinesFit`, `RequestWhole`), `PortAsNamed`
(`UnicastPort`, `PortZero`), `TrackOfVideo` (`ControlFromVideo`, `LastControlFound`),
`HoldsItsOwn` (`AllReleased`, `OnlyTracksLeak`, `SessionSound`) and `BooksKept`
(`HoldsWhatItLists`, `CountersMatchChain`). The type invariants of `RtspSession`,
`RtspProtocol`, `ClientLifecycle`, `H264Depacketizer` and `MemWatch` are conjuncts of
these; those of `RtpReceiver` and `RtpClient` are part of what is proved. That the
queue keeps frames whole and implements its channel with pop too is a theorem
(section 4).

Every property is broken by at least one plausible change of the code; these changes
stand, named, in front of the action they alter ("slips").

## 4. Proofs

All theorems hold for every value of the constants that satisfies the named
assumptions (`...Assumption`, one in each model, which TLC evaluates in every run). Two
groups have a hypothesis of their own: the last four of the queue (three for consumers that
use getbuffer alone, one for those that hold one frame at a time) and `RequestIsSent` (`Room`, the sizes of the two buffers). Each safety
theorem follows from an inductive invariant, which TLC checked before it was proved.

| Module | Theorem | States |
|---|---|---|
| `CQueueProofs` | `TypeCorrect`, `HeldFramesKept` | `TypeOK`, `FrameKept` |
| | `QueueImplementsChannel` | `ImplementsChannel` |
| | `IndicesAgree`, `WakeupKept`, `NeverStuck` | `CountMatchesIndices`, `NoLostWakeup`, `NeverBlocked` |
| | `OneFrameNeverBlocks` | `NeverBothBlocked` |
| `RtpReceiverProofs` | `LossTelescopes`, `ParserExists`, `StreamStaysPinned` | `LostCountTelescopes`, `ParserForType`, `StreamPinned` |
| | `LossesCounted` | `LossExact` |
| `H264DepacketizerProofs` | `FramesStaySound`, `WholeNalsArrive` | `FramesSound`, `WholeNalsSurvive` |
| `RtpClientProofs` | `NothingUsedAfterDelete`, `WaitsNeverClose` | `NoUseAfterDelete`, `NoCircularWait` |
| `RtspSessionProofs` | `OwnReply`, `StartedMeansPlaying`, `NothingOfOldSessions` | `OwnReplyAccepted`, `StartedWhenPlaying`, `NothingStale` |
| | `RequestsAreComplete`, `FailureHasReason` | `RequestsComplete`, `FailureExcused` |
| `RtspProtocolProofs` | `TrackIsVideo`, `PortTaken` | `TrackOfVideo`, `PortAsNamed` |
| | `ForeignRepliesIgnored`, `NothingMixed`, `RequestIsSent` | `ForeignIgnored`, `NoMixture`, `RequestSent` |
| `ClientLifecycleProofs` | `ClosesOnlyItsOwn`, `DefinedBehaviour`, `ClientHoldsItsOwn` | `ClosesOwn`, `DefinedWhenClean`, `HoldsItsOwn` |
| `MemWatchProofs` | `BooksAlwaysKept`, `LimitAlwaysRespected`, `FailsOnlyThen` | `BooksKept`, `LimitRespected` (proved only), `FailsOnlyWhenFull` |
| | `DamageAlwaysReported`, `DoubleFreesKnown`, `IsAHeap` | `DamageReported`, `DoubleFreeKnown`, `ImplementsHeap` |

**Queue.** `IInv` conjoins the type invariant with

- `LockInv`: who owns the mutex of a slot, from the two program counters and `held`;
- `WholeInv`: a slot not being written has the data and the length of one push;
- `FrameKept`: what `plen` recorded is what is in a slot that is held;
- `RingInv`: which push was the last to write each slot (the `maxFrames` most recent
  pushes, one slot each);
- `FifoInv`: until the first overflow, counted and in-between frames are exactly the
  distance from `mOutindex` to `mInindex`, and the consumer's copy of the index is
  still the right one;
- `FilledInv`: a slot about to be handed out has been written.

`FrameKept` alone is not inductive: that push leaves a held slot alone follows from
`LockInv`. For the refinement, `FifoInv` yields "the next frame in order" before an
overflow and `RingInv` "one of the last `maxFrames`" after it.

`IndicesAgree`, `WakeupKept` and `NeverStuck` assume `"pop" \notin Calls`: parse_thread and
test_main take frames with getbuffer only (cRTPClient.cpp:123, 213). api_getFrame, which
nothing in the repository calls, would take them with pop (cRTPClient.cpp:131), and with
pop TLC refutes all three: it sets `mEffectives = 0` without a lock (com_queue.cpp:82) and
ignores what `sem_trywait` returned. Their invariant `GInv` says that
the distance of the indices is the count plus what each thread is in the middle of
(`CountInv`), that tokens never fall short of frames and that a call that finds its frame
covered leaves a token to spare (`TokenInv`), with equality before an overflow (`ExactInv`),
and whose call or frame a locked slot belongs to (`OwnerInv`, `GivenInv`).

`OneFrameNeverBlocks` assumes `MaxHeld = 1` instead, with pop as well: a consumer that waits
is then in a call, so it holds no frame, and the slot push waits for can only be the one the
consumer has locked in that call, in a step that waits for nothing.

**Packets.** `RInv` adds to the type invariant that the last header is the pinned
stream's. `LossesCounted` is about the receiver behind its network: `Known` says which
sent packets `mfistSequenceNumber` and `mlastRtpInfo` come from and that each packet sent is in
flight, lost or counted. When nothing is in flight, the packets from the first to the
newest are then the ones seen and the lost ones, and the cardinalities add up
(`FiniteSetTheorems`); what was counted beyond those seen is `Repeats`, and the rest is the
division that defines `Epoch`.

**Depacketizer.** Order of frames rests on the network: what is in flight is a tail of the
newest NAL unit, and all that was delivered was sent before it (`NetInv`). So a fragment
that arrives is new and later than all that is in the buffer and in frames
(`BufferInv`, `QueueInv`); the lemmas on frames say that pushing or appending it then
keeps both sorted and disjoint. `WholeNalsArrive` adds `WInv`: what is in flight is the
rest of the newest NAL unit (`RestInv`); as long as nothing of it was lost the buffer holds
exactly the parts before (`BuiltInv`), so its end completes it; and no end waits in the
buffer (`OpenInv`), so a buffer that a start flushes or that was cut is never
mistaken for a complete NAL unit.

**Threads.** `CInv` relates a slot that is held to the step of the thread that holds it
(`HeldInv`), and the stage of the shutdown to the steps the threads may be in and to what
is still alive (`StageInv`).

**Session.** The proof looks at the replies as one sequence, `Stream`: what the request in
progress has read, then what is in the socket, then what is on its way. `ShapeInv` is
the grammar of replies in it, of which only a reset loses the end (`StreamCut`), and then no
request is left to be answered (`LinkInv`; `ResetInv`: it is a reason to fail); `OrderInv` says their numbers never fall and none
is newer than the last request, `WholeInv` that without a cut what was read never stops inside
a header. So the
first CSeq that parse meets is that of the oldest reply (`ExactInv`: no later than the
request), and a match means the request's own reply has arrived. `PlayInv`, `ServedInv`
and `StartedInv` follow the server's state, since a request is only written when the one
before it was answered; `SessionInv` and `FreshInv` say from which connection the stored track and session are.

**Exchange.** For parseSDP: an outer loop is never inside of a video section it could
take a track from (`LoopInv`), and what it stored is not before any eligible line it has
read (`FoundSoFar`). For parseTransportParams: the destination and port so far are those
the fields read so far decide (`TrInv`). For parse: `KeptInv`, `ForeignInv` and `PortInv`
tie `pREPLY` to the phase of the reply. For the request: what is written and what is
still to write are together the `whole` request (`RequestInv`). `RequestIsSent` assumes
`Room`: a send buffer of at least 254 bytes and a line buffer no smaller (both are 256,
cRTSPClient.cpp:17, 185). For requests without a track 254 is the longest the limits on URL,
number, ports and session allow, so the hypothesis is the exact one; the rest of it is
what `RequestWhole` says about the track. For longer tracks it leaves `LinesFit`.

**Lifecycle.** `IInv` is `TypeOK /\ (clean => CleanInv)`: a client that has been used as
its comments say keeps, at every step of a call, the numbers of exactly the descriptors
it has open (`LogInv`, `TcpInv`, `UdpInv`), and threads and memory to match
(`ThreadInv`, `HeapInv`).

**Memory checker.** `IInv` conjoins four parts. `Lists`: chain and grab list have
different addresses and are, piece by piece, what the C library gave, nothing over anything
else. `Counters`: what `CountersMatchChain` says, in every state inside of a call as well.
`Ring`: the array `mwLastFree` read from its oldest entry (`Age`) is the history `freed`.
And without mwInit there is nothing in the lists. The first is what keeps a free from taking
two blocks, and with the third a double free is recognised exactly. Helpers of the model
are described by what they may change (`GivesUp` for mwDrop_ and mwFreeUp, `Reports` and
`Judges` for calls that find a mistake, `Moves` for a realloc), and these relations compose:
an allocation is `GivesUp` and then `Link`. `NextSound` shows for every call the four
action properties and the step of `Heap` at once: calls that leave the blocks alone are
`Quiet`, the others are malloc, free, realloc and the end. The counters of bytes need a sum
over a set, which the prover cannot define by recursion: `Bytes` counts pairs of an address and
a position instead, and `Pick` selects from a sequence in order without recursion.

Only model-checked:

- liveness (`PushReturns`, `PopReturns`, `Drained`, `ReaderMoves`, `StopReturnsOnPacket`,
  `InitReturns`, `CallReturns`): the prover has no rules for fairness and `ENABLED`.

## 5. Not modelled, and plan

Not modelled: `Pcapfile` (reachable only from a branch that is compiled out),
`com_debug` (printf macros), the destruction of a queue while it is used other than by
rtp_deinit, reordering in front of the depacketizer (a defect README.md declares),
makeSocketNonBlocking (never called). What lies outside of the limits the code assumes
but does not test is not modelled either: a session of more than 63 characters and a
host longer than `serverIp` (cRTSPprotocol.cpp:561), the byte in front of an empty copy
(402), a last byte of a reply that is overwritten with the end of the string (401; it is
never one `RtspProtocol` tells apart), a freed pointer whose header still looks valid
after mwFreeUp or mwAbort gave it back (memwatch.cpp:2110), the inner pointer mwFree_
hands to free (memwatch.cpp:1168, never called). Of `memwatch`: marks, mwAssert and
mwVerify, tracing, the statistics by file, the checksums and mwRelink (which repairs a
header the program overwrote), the freed-block information, and mwStrdup and mwCalloc,
which are mwMalloc and a copy. Four modules view the same session (`RtspSession`,
`RtspProtocol`, `ClientLifecycle`, `RtpClient`); no run has all of them at once, their
product is too large for TLC.

Next, in this order:

1. `Pipeline`: an abstract specification of the whole media path (packets in, NAL
   units out, drops only at a full ring), implemented by `RtpClient` with
   `H264Depacketizer` in the parse thread.
2. memwatch marks and mwRelink.
