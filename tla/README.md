# A TLA+ model of the IP camera host software

The repository holds the host side of an IP camera development kit: an RTSP
server library, two programs built on it (a file and camera streamer, and the CGI
server that configures the camera), and a small support library, in about
thirteen thousand lines of C++ under `src/src/host/src`. Everything else in the
repository, nine tenths of its lines, is the vendor SDK (its headers four times, once
for each platform), third-party code, firmware images and generated documentation:
none of it is modelled, so the share of the repository's lines that the models cover is
small whatever they model. This directory holds TLA+ modules of the parts whose correctness
depends on the order in which threads run or on arithmetic at a boundary, the
TLC configurations that check them on small instances, and proofs, checked by
TLAPS, of the main results for every value of the constants.

Paths below are relative to `src/src/host/src`.

## The system

| Component | Source | State it keeps | Operations |
|---|---|---|---|
| Server | `lib/rtsp/rtsp_server.*`, `rtsp.cpp` | source map, lock, packet tick | accept connections, `get_source(id)` for the SDK callback, `packet_wait`, `set_temporal_level`, `client_count` |
| Talker (one thread per connection) | `lib/rtsp/rtsp_talker.*` | receive buffer, its source, its client, its RTCP parser, session id | receive, `get_source(name)`, `setup_tcp/udp`, `teardown` |
| Parser, Responder | `lib/rtsp/rtsp_parser.*`, `rtsp_responder.*` | state of the session; text of the reply | parse a request; carry it out and write the reply |
| Source map | `lib/rtsp/source_map.*` | name to source, id to source | find, save, erase |
| Live source | `lib/rtsp/live_source.h`, `rtsp_source.*` | `_playing`, parameter sets, time stamp | `send_frame` (SDK callback), play, teardown |
| File source (a thread per PLAY) | `lib/rtsp/file_source.*` | `_playing`, a window on the file | create, play, `next_frame`, teardown |
| Streamer | `lib/rtsp/rtp_streamer.*` | client list with its lock, frame index, headers of the packet | `send_frame`, `add_client`, `delete_client`, `set_temporal_level` |
| Client | `lib/rtsp/rtp_streamer.*` | STOP/REQUEST/PLAY, temporal level, sequence number, byte counts | send, play, raise and lower the level, sender reports |
| RTCP parser (a thread per UDP client) | `lib/rtsp/rtcp.*` | loss history, thread flag | parse, `adjust_bitrate`, kill |
| Support library | `lib/sbl` | mutexes, sockets, log, options, parameter sets | lock/wait/signal, send/recv, checkpoint/revert |
| Board to board streaming (a2a) | `bin/rtsp_server/a2a_*` | index FIFO, binary semaphore, current segment | push (callback of the A2A library), `next_frame` (player thread) |
| rtsp_server program | `bin/rtsp_server` | SDK channels | start the server, deliver frames, describe streams |
| CGI server | `bin/cgi_server/cgi_server.*` | parameters, state file, status file, login, fatal-error flag | process a command, start, reset, reboot |
| Parameter sets | `lib/sbl/sbl_param_set.*`, `bin/cgi_server/cgi_param_set.*` | values and their checkpoint | set, checkpoint, revert, reset, read and write the state file |
| SDK manager | `bin/cgi_server/sdk_manager.*` | channel handle, sensor rate, callback buffer with its semaphore | set and get the image, streams and regions; snapshots; raw commands |
| Regions of interest | `bin/cgi_server/roi.*` | rectangles, and their text in the parameters | set, add, delete, clear |
| Watchdog, temperature, network recovery | `bin/cgi_server/watchdog.*`, `temperature.*`, `net_recovery.*` | frame counts; a file; sockets | reboot; log; a second way to send commands |

How they interact. A Talker thread looks a source up by name in the source map, or creates it,
under the server lock; it adds a client to the source's streamer under the streamer's lock; PLAY
changes the client and the source without any lock; teardown takes the server lock and, inside,
the streamer's. The SDK callback looks a source up by number (or creates it) under the server
lock, then uses it without; frames are cut into packets, and each packet is given to all clients
while the streamer's lock is held, with a send() that has no timeout. A file source has a thread
of its own that sends frames and is joined, with the server lock held, by the talker that
removes its last client. The RTCP thread of a client changes its temporal level without a lock.
In the CGI server one lock serialises commands, watchdog, temperature log and network recovery;
the SDK callback answers snapshot requests through a condition variable with a timeout. A
command changes the parameters, tells the SDK what changed, and writes all of them to the state
file; an exception reverts the parameters. A start reads the file by executing its lines as
commands.

What is hard about it: objects shared by threads and deleted by one of them; checks made under a
lock and used outside it; a join with a lock held; flags set by the new thread and not by its
creator; pointer arithmetic that writes headers over data already sent; state read once per
packet and changed meanwhile; late answers after a timeout; commands that fail half way, and
power that goes half way. `PROJECT.json` lists these hazards by line with the properties that
would find them. What makes each component correct:

* source map and talkers: what a lookup returns exists; one source per stream;
  leaving removes the client and nothing else; a teardown ends;
* streamer: every byte of a frame is sent once, headers stay inside the room
  provided, the bits that delimit pictures and NAL units are right;
* clients: key frames are never lost, lower levels get more, frames arrive whole;
* session: replies pair with requests, SETUP makes all or nothing, every end of a
  connection is a teardown, packets follow the reply to PLAY;
* a2a: no segment is lost or played twice, no wake-up is lost, something is always
  ordered, frames go out in the order of the file;
* requests to the camera: what is sent is not yet released, an answer belongs to its
  request, nothing is released twice, every wait ends;
* settings: they survive a restart or are all reset; the camera runs what they say; a
  start that fails is not the beginning of starts that always fail.

## The modules

**`SourceMap`** is the class of that name: `byName` and `byId` are its map and its
vector, `SaveName`, `SaveId` and `Erase` its operations. It has no lock.

**`RtspServer`** (extends `SourceMap`) models how talkers, the SDK callback and file
threads share sources, streamers and clients. A source and its streamer are
created and deleted together and are one identifier of `Sources`; a client is a
pair of a talker and the number of its SETUP. `pc[t]` says what a talker is about
to do. A step is the code between two points at which another thread can make a
difference:

| Action | Code |
|---|---|
| `Describe`, `CreateLive`, `CreateFile`, `CreateFails`, `DescribeReply` | `Talker::get_source` (two critical sections) and the rest of `reply_describe` |
| `Setup` | `setup_tcp`, `setup_udp`: a new client, in the streamer's list |
| `PlayClient`, `PlaySource` | `reply_play`, `Client::play`, `LiveSource/FileSource::play` |
| `Hangup`, `LockMaster`, `DeleteClient`, `StopSource`, `DeleteSource`, `Unlock` | the end of `start_thread` and `Talker::teardown`, one step per statement other threads can observe |
| `CallbackFind`, `CallbackCreate`, `CallbackFrame`, `CallbackLock`, `CallbackPacket` | `rtsp_send_frame`, `Server::get_source`, `LiveSource::send_frame`, `send_packet` |
| `FileStart`, `FileLock`, `FileSend`, `FileAgain` | `FileSource::start_thread`, `play_file` |
| `LevelFind`, `LevelSet` | `Server::set_temporal_level`, which takes no lock (with `SetsLevel`) |

`send_packet` is two steps: one takes the streamer's lock and one has sent to every client of
the list. Between them the thread is in `Streaming`, for as long as a client does not read what
it is sent, and `Setup`, `DeleteClient` and other packets of the source wait.

`kind` and `state` keep deleted objects apart from ones never created, and an
address is not used again, so a use after deletion is visible: `undefined` becomes
TRUE and `Next` is disabled, for nothing can be said of what the program does
then. The safety properties are therefore about all that happens up to such a use;
`NothingDangles` says in which five ways the threads of this module can come to it, and that
there is no other: a file source deleted while another talker still had its address, a file torn
down that was never played, a second thread of a file that nobody joined, a client replaced by a
second SETUP, whose talker ended before it, and a walk of `set_temporal_level` through map and
lists without a lock. The threads that read RTCP reports are in `RtspTalker`.
`MaxSetups` bounds the SETUPs of a connection, `MaxThreads` the threads of a file
source.

**`RtpPacketizer`** is the cutting of a frame by `h264_`, `mpeg4_` and
`mjpeg_send_frame`, with exact positions relative to the frame: `frame`, `left` and
`first` are the variables `frame`, `frame_size` and `first_fragment` of the loops,
`clobbered` collects every position a header was written to, `covered` those sent
as payload with their own byte still in place. Frames have at least one byte.

**`RtpStreamer`** (extends `RtpPacketizer`) gives each packet to the clients.
Each packet is a step, because the streamer's lock is held for one packet; PLAY,
TEARDOWN, the RTCP thread and the application act between packets. `index` is
`_frame_index` modulo 4, all that `skip_frame` looks at. `count`, `got` and `follows` are
there for the properties: the packets of this frame, how many of them each client
was sent, and whether it has been playing, and at one level, since the frame began.

**`RtspDialogue`** is what one connection promises its client, without any of the
code: a request is answered with its own CSeq, at most once and in the order of
asking; an error reply may come more than once, but never goes back behind an
answer; nothing is said after the connection was closed.

**`RtspTalker`** is one connection in detail, and implements `RtspDialogue`
(`AnswersInOrder`, with `open` mapped to `socket`): the Talker's thread with its parser and
responder, the client it added last, the threads of its RTCP parsers, and the packets
of the Streamer. TCP is a stream, so a request is a sequence of pieces and
`Receive(k)` takes as many as recv() happens to return; the last piece of a request
holds the empty line that ends it. The field `cut` of a piece says that its first byte was
written over: the code ends a request in the buffer with a `'\0'` (`Cut`), which hits what
came behind it in the same recv(). A request that begins so has no method that can be read
(`Spoilt`), an RTCP packet no `'$'` (`IsRtcp`). `pc` is the place in the loop of `start_thread`:

| Action | Code |
|---|---|
| `Ask`, `HangUp` | the client; it may send any request at any time, SETUP again included |
| `Receive`, `Overflow`, `Reset`, `TakeRtcp` | `receive_msg`, `receive_rtsp`, `receive_rtcp`, `receive` and what the loop does with their result |
| `ParseFails`, `Parses` | `Parser::parse`, which moves `_state` even if it then throws |
| `Options`, `Describe`, `Setup...`, `Play`, `Teardown` | the `reply_` functions; a request accepted leaves a reply in `out`, one refused an error |
| `DescribeFails`, `SetupTcpFails`, `SetupUdpFails` | the same, left by an `SBL::Exception`, which ends the loop |
| `SendReply`, `ReplyFails`, `PlayClient`, `SendRefusal` | the rest of the loop and its two handlers |
| `KillRtcp`, `DeleteClient`, `Close` | `teardown()`, called inside a TEARDOWN request and again at the end |
| `RtcpStarts`, `Packet` | the RTCP thread; `Streamer::send_packet` |

`strays` are the RTCP threads nobody will end: those of a parser that a second SETUP replaced
(`NewRtcp`), and one that `kill()` missed because it had not begun to run (`"orphan"`).
`Waiting` is where the thread waits for what this module does not have: the locks and the
join of `RtspServer`, and a client that does not read.

`reply` carries a bit that changes with each reply, so that the same reply sent twice
is two steps of `RtspDialogue`, not a stutter.

**`A2aQueue`** is what the file source of another board relies on: a bounded queue of
segments. One that arrives is pushed or, when the queue is full, refused and given back; the
player takes the first and finishes it, and does so eventually.

**`A2aFileSource`** is `A2aFileSource` with the `IndexFifo` and the `BinarySemaphore` of
`a2a_file_source.*` and the callback of `a2a_communications.cpp`, and implements `A2aQueue`
(`ImplementsQueue`, and `QueueSteps`, its steps without the fairness; the queue is what the ring
holds between its two indices). A step is one access to what the other thread uses, or one
critical section of the semaphore's mutex:

| Action | Code |
|---|---|
| `Answer`, `Stray` | the peer sends a segment, ordered or not, and its header is good or bad |
| `BadTwice`, `LendFreed`, `RefuseFreed`, `PlayFreed` | the ways in which a buffer given back is given back again, lent again, or read |
| `PushOverflow`, `PushStore`, `AdvanceWrite`, `Post`, `Signal` | `push_buffer`, `IndexFifo::push`, `BinarySemaphore::post` |
| `Start`, `PlayFrame`, `FreeBuffer`, `OrderNext` | `play`, `next_frame`, `request_next_segment` |
| `Look`, `Wait`, `Wake`, `SpuriousWake`, `TakeSlot`, `AdvanceRead` | `wait_buffer`, `BinarySemaphore::wait`, `IndexFifo::pop` |

The three checks of a header in `a2a_file_buf_recv_callback` give the buffer back and, having no
`return`, push it all the same (`BadHeader`). `freed` are the buffers in that state, `spoilt` says
that a header was bad, and after `broken`, the first use of such a buffer, nothing is said of the
program.

**`SnapshotChannel`** is the path of an answer from the camera to a client of the CGI server:
the command thread asks (`AskSnapshot`, `AskRaw`), waits with a time limit (`Wake`, `TimeOut`),
reads and sends the payload (`CheckBuffer`, `ReadPayload`, `Reply`) and releases it in three
steps (`Release`, `Free`, `Clear`); the callback stores what arrives (`Arrive`, `Store`), also
when nobody waits. A request, its answer and the buffer of the answer are one number.
`abandoned` is history: the requests that ended without their buffer released.

**`CgiServer`** is the life of the settings. Every parameter is treated in one of a few ways, so
one of each is kept: `flip` is sent only if it changed, `osd` is passed on to the streams,
`sensor_rate` acts on the next start, `fps` is limited by it, `stream_osd` is sent first by a
stream command, `rectangles`, one list for each of `RoiCount` regions, have a second copy in
`Roi`, `device` is kept by a reset. `value` is `_param_state`, `camera` what the SDK was told,
`file` the state file, `loops` and `last` what `watchdog_loop()` would find in the status file.
A command is one action, for the server lock is held; it either works, or fails after any of its
calls. Writing and reading the file go line by line:

| Action | Code |
|---|---|
| `SetImage`, `GetImage`, `SetStream`, `GetStream`, `SetRoi`, `MisreadRoi`, `SetDevice`, `Reset`, `OtherCommand` | the `cmd_` functions with `process` around them, and `SDKManager::set_image`, `set_stream`, `set_roi`, `reset` |
| `ReplyFails`, `Written` | `run` |
| `PowerOn`, `ReadImage`, `ReadStream`, `ReadRoi`, `ReadDevice`, `ReadEnd` | the constructor, and `ParamState::read_file` with the same `cmd_` functions |
| `ResetAtStart`, `Enable`, `EnableTooEarly`, `Started` | the rest of the constructor and its exception handler |
| `Stop`, `WatchdogReboot` | the power, the thread `reboot_system`, and the watchdog |

The file is the parameters it was written from and how many lines of it exist, with
perhaps a piece of one more; it may not be there (`found`). Writing it may fail at once, if it
cannot be opened, which leaves the old one, or when the flash is full, which leaves a part of the
new one (`WriteFile`, `FlashFull`): no caller asks. A region with rectangles has a line, and
every such line says `id=0`, so a start puts each list into region 0 in place of the one before.
The rest is history since the power came on: `doubt` is what a failure left open (`flip`,
`stream`), with `boot` if the camera refused a call during the start; `open` are the regions one
left open, `drawn` the region the camera was sent last, and `unsaved` says that the last write
failed.
The properties are stated with it, because a failed command reverts the parameters and not
the camera, and what is equal to a parameter is not sent again.

**`MCRtspServer`, `MCRtpStreamer`, `MCRtspTalker`, `MCCgiServer`** give the
constants values for TLC, the symmetry used by the runs that check only safety, and a constraint.

**`RtspServerProofs`, `RtpPacketizerProofs`, `RtpStreamerProofs`, `RtspTalkerProofs`,
`RtspAnswersProofs`, `A2aFileSourceProofs`, `SnapshotProofs`, `CgiServerProofs`** hold the
theorems.

Definitions that a comment calls mutants (`EraseNothing`, `DontStop`, `LastPacketBelow`
and so on) are not part of any specification. Each is the definition after it with
a plausible mistake, and is there to show that a property notices it.

## The runs

| Run | Checks | Instance |
|---|---|---|
| `server_safety` | `TypeOK`, `MapSound`, `ListsSound`, `NobodyToPlayFor`, `TeardownComplete`, `NothingDangles`, `DeletedUnderLock` | 2 talkers with up to 2 SETUPs, 2 sources, a live stream with two names, a file with one thread |
| `server_live` | `NothingDangles`, `TeardownEnds` (with fairness) | 2 talkers with 1 SETUP, 2 sources, no files, a thread that sets levels |
| `server_file_teardown` | finds `TeardownEnds` violated (with fairness) | 1 talker, 2 sources, a file |
| `streamer_safety` | `TypeOK`, `FrameComplete`, `HeadersFit`, `EndBitAlmost`, `PictureMarked`, `KeyFramesWhole`, `WholeAtOneLevel` | 2 clients, packets of 2 bytes, frames up to 5 |
| `talker_safety` | `TypeOK`, `RtcpHasClient`, `SetupWhole`, `TornDown`, `NothingLost`, `AnswersInOrder`, `PlayAfterReply` | 4 requests out of 12 kinds, 3 pieces in flight, a buffer of 2 |
| `talker_live` | `Answered`, `HangupEnds` (with fairness) | 3 requests out of 8 kinds |
| `talker_sequence` | finds `AnnouncedSequence` violated | 3 requests out of 5 kinds, sequence numbers modulo 4 |
| `talker_pipeline` | finds `ReadAsSent` violated | 3 requests out of 8 kinds, a buffer of 2 |
| `a2a_player` | `TypeOK`, `Accounted`, `NoLostWakeUp`, `AlwaysOrdered`, `FramesInOrder`, `ImplementsQueue`, `PlaysOn` (with fairness) | a ring of 2 slots, 3 buffers, a file of 4 frames in segments that end inside frames, 2 segments nobody ordered, headers good and bad |
| `a2a_frames` | finds `EveryFrame` violated | the same, only segments that were ordered |
| `snapshot` | `TypeOK`, `ReleasedOnce`, `RightAnswer`, `EverythingEnds` (with fairness) | 4 requests |
| `cgi_settings` | `TypeOK`, `Preserved`, `CameraFollows`, `FailedStartHeals` | 2 regions, 1 axis, 2 rates, 2 device settings, 2 rectangles, one of them at the border |

Bounds. Two talkers are enough for every conflict the code has between a connection and another
one, and the callback is a third thread; two sources allow the callback and a talker, or both
talkers, to create one for the same stream, and a source to be created after another was
deleted. The stream has the number under which the callback saves it and a name from a URL, the
case in which one source is entered under more than one name. Two SETUPs are enough for a client
that its talker has forgotten. Levels are set in `server_live` only, where two clients in one
list and nothing else to go wrong are enough for the walk to come too late. Packets of 2 bytes
and frames of 1 to 5 give whole frames, a fragmented frame one byte longer than a packet, last
packets that are full and not full, and frames of three packets, so that something can happen
after the first and before the last. Levels are the code's own three. Four requests are a whole
session (DESCRIBE, SETUP, PLAY, TEARDOWN) and three are enough to pipeline behind an error or
behind a request being answered; requests of 1 to 3 pieces and a buffer of 2 give requests that
fit twice, once, and not at all. Sequence numbers are counted modulo 1, that is not at all,
where no property speaks of them. A ring of 2 slots is empty, full and goes around with every
segment, and two segments that nobody ordered make it overflow with the third buffer; more slots
add no case, and the theorems are about every size. Segments of 4 units hold frames that end
exactly, early and late. A fourth request is the shortest way for an answer to be late, be taken
for the next one's, and leave the one after that to be answered rightly. One axis can be flipped
and flipped back; rates 25 and 30 make the default frame rate too fast for the slower sensor; of
two rectangles one cannot be read again after a restart; two device settings tell what a reset
keeps. In `cgi_settings` the number of restarts is not bounded, watchdog reboots are counted up
to the 3 the code looks for; two regions are enough for one to replace the other. Two
constraints keep the run finite in time: a region left open is followed without another doubt,
and a failed write of the file without either (`OneTrouble`); and regions are set while the
other settings, but for the frame rate, have their defaults (`Apart`). What they share is the
file and the reset, which treat them one after the other; the theorems do without both
constraints. The proofs below hold for all values of their modules' constants.

Deadlock is checked in `streamer_safety` and `cgi_settings`, where something can always go on.
Elsewhere the system really stops: a connection ends, so the talker runs stop; `snapshot` stops
when its requests are used up; the server runs stop after a use of a deleted object, when all
connections have ended, or when the bounds on sources and threads are reached; the a2a runs stop
after the use of a buffer that was given back.

Fairness. `TeardownEnds` assumes that a talker that has begun to tear down keeps running, and so
do the threads of files (weak fairness of each step but two): these are threads of one process
under a preemptive scheduler. `DeleteClient` and `FileLock` wait for the streamer's lock, which
other threads take and give back all the time; that one who waits for a mutex gets it when it is
free again and again is strong fairness, and is what the scheduler is trusted with. Nothing is
assumed of the end of a packet (`CallbackPacket`, `FileSend`): send() has no timeout
(`sbl_socket.cpp:158-171`), and a client over TCP that stops reading can hold the streamer's
lock, and with it a teardown and the server's lock, as long as it likes. So the property has
that as its premise, `[]<>~Streaming(s)`: no packet is being sent for ever. Without it, it is
false. `Answered` and `HangupEnds` assume that the Talker's thread runs when it can and does not
wait for anything outside of the module (`WF_vars(~Waiting /\ TalkerStep)`): a recv() that has
data, or sees the end of the connection, returns. A thread may stay in `Waiting` for ever (for
the locks of server and streamer, the join of a file, a client that does not read its reply),
and both properties name that case; what ends it is `TeardownEnds`' to say, and for a file
nothing does (`server_file_teardown`). `PlaysOn` and `ImplementsQueue` assume that the player's
thread and the callback run when they can, and that the peer answers what was ordered (`WF` of
each): if it does not, the code waits for ever, which is what it says it does. `EverythingEnds`
assumes the same of the command thread and the callback; that a wait ends needs no answer,
because the wait has a time limit. Nothing is assumed of clients, connections, frames, or of
talkers that wait for a request, and nothing at all in `CgiServer`, which has no liveness
property.

### What the violations show

Each is the behaviour of the code and contradicts a sentence of its documentation,
quoted in `PROJECT.json`:

* *Teardown of a file that hangs* (`server_file_teardown`). `_playing` is set by the new thread; a
  teardown that comes first is undone, and the join never returns, with the server lock held.
* *A sequence number nobody sees* (`talker_sequence`). RTP-Info announces the streamer's counter;
  packets carry the client's.
* *A message damaged by the one before it* (`talker_pipeline`). The `'\0'` behind a request is
  written over the first byte of what came with it. A second request is then refused for its
  method, and what is behind it thrown away; an RTCP packet is not seen to be one, and is read
  as the beginning of the next request. `NothingLost` states the other side: it is that byte
  only.
* *Frames that are never played* (`a2a_frames`). The size of the segment header is taken off the
  bytes of a segment twice, and the next segment is ordered from where frames were counted
  without that, so a frame that ends in the last bytes of a segment is skipped.

Other differences between the documents, the comments and the code, which the properties state
as exceptions or which were met while reading, and which no run is about:

* Streaming. Two sources for one stream: `get_source` does not look again after taking the lock
  for the second time (`rtsp_talker.cpp:164`), and the callback saves a stream under its number
  only, against `rtsp_server.dox:62`; `MapSound` allows two. A second SETUP forgets the first
  client, which stays in the list (`Replaced` in `TeardownComplete`), and overwrites the only
  pointer to the RTCP parser of a first SETUP over UDP (`rtsp_talker.cpp:211`): its thread is
  never killed and goes on with a talker and a client that are deleted in the end (`strays` in
  `RtcpHasClient` and `TornDown`). `Server::set_temporal_level` walks the map and the lists
  without a lock (`rtsp_server.cpp:41-47`, called in `bin/rtsp_server/main_rtsp_server.cpp:120`;
  `LevelTooLate`). A client that does not read holds up every other client of its stream, and
  whoever waits for the server's lock behind a teardown. A SETUP and PLAY between the look at
  the empty list and `teardown()` of the source leave a client that gets nothing
  (`rtsp_talker.cpp:230`). A NAL unit of `_packet_size + 1` bytes is sent as one fragment
  without its End bit (`rtp_streamer.cpp:266`; `EndBitAlmost`). A level changed between two
  packets takes effect at once, so a frame can arrive in half (425; `WholeAtOneLevel`).
  `rtp_streamer.h:96` and `rtsp_server.dox:18` ask for 17 bytes of room before a frame, MJPEG
  writes 24 (`HeadersFit` states both). `rtp_streamer.h:103` names 1434 as the default packet
  size, the code has 8900 and 1456. `rtsp_server.dox:119` promises all clients of a stream the
  same packets, which temporal levels deliberately break. The reply to TEARDOWN of
  `rtsp_server.dox:257` cannot be sent, since the socket is closed first; a TEARDOWN with a
  wrong session is refused and ends the session all the same. `rtcp.h:182` says that `kill()`
  kills the thread, but one that was created and has not begun to run goes on, with a deleted
  object (the `"orphan"` that `TornDown` admits). What `parse_transport` returns is not looked
  at (`rtsp_parser.cpp:107`). DESCRIBE of another stream on a connection answers for the first
  one.
* a2a. A segment with a bad header is given back and pushed all the same, since the three error
  branches of the callback have no `return` (`a2a_communications.cpp:171-186`); a file index out
  of range is used as one (`BadHeader`, `BadTwice`). A frame that does not fit into a segment
  makes the player order the same segment for ever (`FileAssumption` excludes it).
* Requests to the camera. After one timeout the answers can stay out of step for ever: each
  request gets the answer to the one before. The comment at `sdk_manager.cpp:869-871`, that
  `_callback_buffer` is NULL after a timeout, does not hold when the answer comes late
  (`RightAnswer` and `ReleasedOnce` say when). A reply that
  fails, and an ipp command answered with a buffer, keep that buffer, against line 607.
  An unknown subsystem throws before the mutex is locked and unlocks it all the same (1186, 1207).
* Settings. Borders of a rectangle are rounded outwards to 32 when a list is stored
  (`roi.cpp:57`), so that one reaching down to 1079 or 1080 is stored as 1088, which the next
  start refuses (`roi.cpp:40`), and resets every setting (`cgi_server.cpp:484`), against
  `cgi_server.dox:291` (`Edge` and `Readable` in `Preserved`). A command that fails leaves the
  camera changed, against `cgi_server.dox:67`: flip stays when a later call fails, the display
  of a stream is switched before its frame rate is refused (`sdk_manager.cpp:1041`), and setting
  the old value again sends nothing, since it did not change (`doubt` in `CameraFollows`).
  `reset` leaves the regions of interest in the camera and in `Roi::_rects`, against
  `cgi_server.dox:300`. A text of rectangles that cannot be read has cleared the list
  (`roi.cpp:62`). `cgi_server.dox:510` says that only region 0 is supported, but the code takes
  0 to 4: setting one removes the others from the camera (`sdk_manager.cpp:1272`; `drawn` in
  `CameraFollows`), and since `Roi::id` stays 0 in every line of the file, a restart puts all of
  them into region 0, of which the last one stays (`ListAfter` in `Preserved`). That the state
  file cannot be written is logged and otherwise ignored: the settings are gone at the next
  start, with no error to the user (`unsaved`). After three watchdog reboots and a start with
  defaults, a power cycle before anything else is written to the status file resets once more. A
  transient refusal by the camera at a start resets the settings for good, because the file is
  then written again. The file keeps a value that a failed command changed in the camera and a
  `get` read back only until the next write.

What `Answered` excuses is behaviour of the code too. An error reply throws away
everything received, requests behind the faulty one included. And `receive_msg` calls
recv() before it looks at its buffer, so that the second of two requests that came in
one segment waits until the client says something else (`Stalled`), and is then refused, since
its first byte was written over.

## What is proved

TLAPS proves these for every value of the constants that satisfies the modules'
assumptions (`SourceMapAssumption`, `ServerAssumption`, `PacketizerAssumption`,
`TalkerAssumption`, `FifoAssumption`, `FileAssumption`, `RequestAssumption`, `CgiAssumption`); TLC
checks those assumptions in each run.

`RtspServerProofs`: `TypeOK`, `MapSound`, `ListsSound`, `NobodyToPlayFor`, `DeletedUnderLock`,
`TeardownComplete` and `NothingDangles` for any number of connections, sources, names, setups
and threads, whether or not levels are set. None of them is inductive alone. The invariant
`IInv` adds that

* a talker past `LockMaster`, and nobody else, holds the lock (`LockHeld`);
* a file source is in the map under its own name and nowhere else, and a live one is
  never deleted, so erasing one name is enough (`MapEntries`) although two sources may
  have been created for that name;
* a talker's client belongs to it, to the list of its own source and to no other list
  (`ClientPlaced`, `ListEntries`);
* at each program point the talker's pointers are set or not as the code there
  relies on (`TalkerKnows`, `CallbackKnows`);
* a source not yet constructed has no thread and does not play (`NoThreads`).

`KnownClients` adds, for `TeardownComplete`, that a client in a list is its talker's or was
replaced; `SourcesKnown`, for `NothingDangles`, what is true of sources as long as nothing was
undefined: a talker only has sources that were constructed, the callback only live ones, who
joins has a thread to join, and the last thread of a deleted source has ended. From
`SourcesKnown` follow also `CallbackIsSafe` (`rtsp_send_frame` checks nothing and needs not to)
and `HolderWaitsForOne`, which says what the holder of the server's lock can be waiting for: at
`DeleteClient`, until nobody is inside `send_packet` of its client's streamer, where one thread
at most is (`OneSends`), which asks for no lock there; at `DeleteSource`, for the thread of a
file that was started last, which has not ended and itself waits for one such packet at most;
anywhere else for nobody. So the locks alone never stop everybody: what can is a send() that
does not return, or a file that goes on playing, as `server_file_teardown` shows. That is the
safety half of `TeardownEnds`. `LiveStreamsNeverDangle` is the promise that can be made: if all
names are live streams (`OnlyLiveNames`), no connection sets up twice (`OneSetup`) and nobody
sets temporal levels (`NoLevels`), `undefined` never becomes TRUE, that is, no talker, callback
or file thread uses a deleted object. The hypotheses exclude the five ways, and all three are
about how the server is used. It does not speak of RTCP threads: over UDP, one that was killed
before it began to run uses a deleted talker all the same (`"orphan"` in `RtspTalker`). TLC's
instances have one thread per file, so the way that takes two threads is only in the theorem.

`RtpPacketizerProofs`: `FrameComplete`, `HeadersFit`, `EndBitAlmost` and `PictureMarked` for
every packet size and frame size. The invariant (`InLoop`) is the loop invariant of the code:
what was sent is exactly what stands before `NextByte`, headers were only written
below it, and `left` counts the NAL header until the first fragment is gone. From it
follows why `size = PacketSize + 1` is the only exception.

`RtpStreamerProofs`: the streamer implements the packetizer (`StreamerPacketizes`: every step of
it is a step of the packetizer or leaves the packetizer's variables alone), so the four
properties hold of it too; and `TypeOK`, `KeyFramesWhole`, `WholeAtOneLevel` and `LayersNest` (a
lower level gets all that a higher one gets, which no run checks) for any number of clients. The
invariant adds that the index stays 0 during a key frame (`KeyFrameIndex`), that a client
followed is playing, and that at each packet the share of a steady client is all or nothing as
its level says (`ShareSoFar`).

`RtspTalkerProofs`: `RtcpHasClient`, `SetupWhole`, `TornDown` and `PlayAfterReply`, whatever the
client sends, as many SETUPs as it likes included. The invariant (`SessionInv`) goes through the
places of `start_thread`: in the loop the SETUP is whole and the connection open (`Whole`),
after `DeleteClient` nothing of it is left (`Gone`), `send` is either of them because the reply
to a TEARDOWN is sent after the teardown, and at `play` the reply just sent was the one to this
PLAY (`Replies`). `Leaks` says that any thread left over, but an orphan, takes more than one
session. The receive buffer does not occur in it.

`RtspAnswersProofs`: `TypeOK`, and that the connection implements `RtspDialogue`
(`AnswersInOrder`), for every set of requests, every buffer and any number of pieces in
flight. The argument is about `Line`, the buffer and what is on its way behind it: recv()
leaves the line as it is, a message taken or thrown away shortens it at the front, a hang-up at
the end, and a request asked is added at the end with the next CSeq. So the line is always in the
order of asking (`InOrder`). `Turns` says, place by place, that no piece in the line
begins a request that was answered already. An error reply is the case that needs care:
it may carry the CSeq of the end of a garbled message, or the one of the request before,
and what is left of the buffer is only behind it because it is thrown away
(`UnansweredAfter`).

The other half of the promise is `NothingLost` (`NothingIsLost`): unless an error reply threw
something away, the line holds every request not answered, whole. Its invariant (`WaitInv`) adds
three things. The line has no gap: each piece is followed by the next of its message or ends it,
and none but the first is written over (`Unbroken`). As long as the client is there, all that
was asked after any request in the line is in it too, and the line does not stop inside a
message (`ToTheEnd`); this needs no assumption about errors, for they only shorten the line at
the front. And after a good reply the line begins with a message, and holds all that is after
the request answered (`Aligned`); a good reply after an error restores this, since a message
that was accepted began with its own first piece and ended with its last. From a first piece, a
line without a gap runs through its message to the last (`Run`), so what waits, waits whole
(`WaitsWhole`).

`A2aFileSourceProofs`: `TypeOK`, `Accounted`, `NoLostWakeUp`, `AlwaysOrdered`, `FramesInOrder`,
and that the ring with its semaphore takes the steps of `A2aQueue` (`RingIsQueue`: all of
`ImplementsQueue` but its fairness), for every size of ring, file and segment, and headers good
and bad (`HeadersGood`: nothing is given back or used wrongly before a bad one came). The
invariant accounts for every buffer (in the ring, in the callback's hand, being played, or with
the library: `Places`, `Accounted`), says at each place that a sleeper will be signalled
(`Announced`), what has been ordered (`Orders`), and between which frames the player stands
(`FileOrder`).

`SnapshotProofs`: `TypeOK`, `ReleasedOnce` and `RightAnswer` for any number of requests. The
invariant says that an answer is in one place only (`OnePlace`), that one out of order comes after
a request that was given up (`OldAreLate`, `ReachedOrLate`), and what the shared pointer can be
at each place of the thread (`Pointer`, `Shown`).

`CgiServerProofs`: `TypeOK`, `Preserved`, `CameraFollows` and `FailedStartHeals` for any sets of
values. The invariant follows a start through the file: after `n` lines the parameters are what
the properties say a start makes of `n` lines (`HalfRead`), and camera and parameters agree in
what was sent so far (`Follows`); a reset at a start has one of three reasons (`Resets`); a
server whose start failed has no regions of interest that could make the next one fail
(`Heals`), and one without an initialised board has nothing in the camera (`BoardSound`). The
lemmas `StreamOutcome`, `ImageOutcome`, `SetImageOutcome` and `ResetOutcome` say what each call
of the SDK manager leaves whether it works or not.

Model-checked only: `TeardownEnds`, `Answered`, `HangupEnds`, `PlaysOn`, `EverythingEnds` and the
fairness of `A2aQueue` (liveness is out of the prover's reach), and the violations.

## Abstractions

* What a request says, and the order the parser accepts requests in, is left to
  `RtspTalker`: `RtspServer` allows any order in which each request finds what
  it needs.
* The clients of a list get a packet in one step, the one that ends `send_packet`; before it the
  lock is held for any time. The level or the state of a client that changes inside the step
  takes effect before or after it. What this leaves out: a
  PLAY that falls between a failing `send` and the assignment `_state = STOP` is lost.
* `RtpStreamer` changes the levels of all clients at once; the walk of `set_temporal_level` is in
  `RtspServer`, where the iterators of map and list are taken to stay valid, so that only the
  objects they lead to can be gone.
* A `DeleteClient` of `RtspTalker` is one step, for all of `teardown` from the server's lock to
  its release; how long it waits is open (`Waiting`), and what it waits for is in `RtspServer`.
* In `RtspTalker` the source is found or not, and finding it is one step; PLAY and TEARDOWN
  always carry a Session field (without one the code follows a NULL pointer); a message
  glued together from two requests is taken to be an error, as its first line is in the
  middle of something; a reply is sent in one step, so that the sharing of one TCP socket with
  the packets is not seen.
* The bytes of frames and headers, time stamps and byte counts are not modelled.
* `A2aFileSource` has one callback thread, as the A2A library calls it; its source is never put
  into the source map, so its `teardown` and a second `play` never happen. A segment with a bad
  header has the file position and the frames of a good one (the frames of a damaged one are not
  looked at), and `broken` ends the model. Memory is sequentially consistent, and positions do
  not overflow 32 bits.
* `SnapshotChannel`: the SDK's pool of buffers is not bounded; the clock of the timeout is not
  modelled, a timeout may come at any time.
* `CgiServer`: the camera's own defaults are those of the parameters (the code relies on it: a
  default is never sent). Each line of the state file is flushed when it is written, and a line
  that is cut is one that cannot be read; one cut so that it still can be read is left out. A
  missing file cannot be read either, but writes nothing to the status file. The fifteen seconds
  of `watchdog_loop` are a choice (`quick`). A device setting that the SDK refuses changes
  nothing. One stream stands for all streams. The file of raw commands, the login, user,
  snapshot and date lines (kept as `device` is), and the order of encoders being enabled are
  left out.
* Memory is not reused, so a stale pointer never happens to point at a new object.

## Plan

1. `RtspServer`, `SourceMap` and their proofs: done.
2. `RtpPacketizer`, `RtpStreamer` and their proofs: done.
3. `RtspDialogue`, `RtspTalker` and their proofs: done.
4. `A2aQueue`, `A2aFileSource`, the refinement and their proofs: done.
5. `SnapshotChannel` and its proofs: done.
6. `CgiServer` and its proofs: done.

## Not modelled

* Replies and packets on one TCP socket: the model sends each in one step.
* RTCP's loss accounting and sender reports: arithmetic on the fields of a report; its effect, a
  changed level, can happen at any time in `RtpStreamer`.
* The gap between packets (`packet_wait`): it delays, and nothing else.
* The parameter sets of DESCRIBE, and cutting a file into NAL units: they read data, and their
  errors are replies `RtspTalker` has.
* Rounding and removing rectangles: `CgiServer` takes any list, and which of them cannot be read
  back.
* The gateway to the web server, passwords, the date, the temperature log, the network recovery
  thread (it enters `process` under the same lock), option parsing, the logger.
* The text of requests and replies, translation of parameters into SDK calls, flashing, the web
  pages: no state a property could be about.
