------------------------------ MODULE RtspTalker ------------------------------
(***************************************************************************)
(* One RTSP connection: the thread of an RTSP::Talker with its Parser and  *)
(* Responder, the client of a Streamer it has, and the threads of the      *)
(* RTCP::Parsers it made (lib/rtsp/rtsp_talker.cpp, rtsp_parser.cpp,       *)
(* rtsp_responder.cpp, rtcp.cpp).  Sharing sources with other connections  *)
(* is module RtspServer; here the source is only there or not, and for the *)
(* locks of the server and of the Streamer the thread just waits.          *)
(*                                                                         *)
(* TCP is a stream: a message arrives in pieces, and a recv() may return   *)
(* the end of one message and the beginning of the next.  A request is a   *)
(* record: its method, the number of its pieces, whether its text has an   *)
(* error the parser reports, the session it names, whether the stream it   *)
(* names is one that can be found, and the transport it asks for.  PLAY    *)
(* and TEARDOWN always carry a Session field.                              *)
(***************************************************************************)
EXTENDS Integers, Sequences, FiniteSets

CONSTANTS
  Requests,      (* the requests the client may send                       *)
  Capacity,      (* pieces the receive buffer holds (BUFFER_SIZE - 1)      *)
  MaxRequests,   (* bound: RTSP requests of the connection                 *)
  InFlight,      (* bound: pieces sent and not received yet                *)
  SeqModulus     (* RTP sequence numbers are counted modulo this (2^16)    *)

Methods == {"OPTIONS", "DESCRIBE", "SETUP", "PLAY", "TEARDOWN", "RTCP"}
RequestRecord ==
  [method : Methods, size : Nat \ {0}, bad : BOOLEAN, session : Nat,
   known : BOOLEAN, transport : {"TCP", "UDP"}]

ASSUME TalkerAssumption ==
  /\ Requests \subseteq RequestRecord
  /\ Capacity \in Nat \ {0} /\ MaxRequests \in Nat /\ InFlight \in Nat
  /\ SeqModulus \in Nat \ {0}

VARIABLES
  inbox,         (* pieces on their way to the server                      *)
  up,            (* the client has not hung up                             *)
  asked,         (* RTSP requests asked so far: the CSeq of the last one   *)
  buffer,        (* Talker::_rx_buffer                                     *)
  pc,            (* what the Talker's thread does next                     *)
  method,        (* start_thread()'s variable method                       *)
  socket,        (* is Talker::_socket open                                *)
  source,        (* is Talker::_source set                                 *)
  client,        (* state of Talker::_client, or "none"                    *)
  session,       (* Talker::_session_id: the n-th one made, 0 for none     *)
  rtcp,          (* Talker::_rtcp_parser and its thread                    *)
  strays,        (* RTCP threads no pointer names: "orphan" was created for *)
                 (* a Parser deleted before it ran, "starting" and          *)
                 (* "running" are those of a Parser a later SETUP replaced  *)
  state,         (* Parser::_state                                         *)
  cseq,          (* Parser::data.cseq                                      *)
  out,           (* the reply in Talker::_tx_buffer                        *)
  reply,         (* the last reply sent, and if it is odd in number        *)
  answered,      (* the highest CSeq of a reply sent                       *)
  streamSeq,     (* Streamer::_seq_number                                  *)
  clientSeq,     (* Client::_seq_number                                    *)
  announced,     (* the sequence number of RTP-Info in the last PLAY reply *)
  first          (* the sequence number of the first packet after it       *)

peerVars   == << inbox, up, asked >>
parserVars == << state, cseq >>
talkVars   == << socket, source, client, session, rtcp, strays >>
wireVars   == << reply, answered, announced, first >>
seqVars    == << streamSeq, clientSeq >>
vars == << peerVars, buffer, pc, method, talkVars, parserVars, out, wireVars, seqVars >>

NoSeq == -1
Reply(n, ok, odd) == [cseq |-> n, ok |-> ok, odd |-> odd]
Nothing == [cseq |-> 0, ok |-> TRUE, seq |-> NoSeq]
Streaming == {"REQUEST", "PLAY"}
Alive == {"STOP"} \cup Streaming

Init ==
  /\ inbox = << >> /\ up = TRUE /\ asked = 0
  /\ buffer = << >> /\ pc = "receive" /\ method = "OPTIONS"
  /\ socket = TRUE /\ source = FALSE /\ client = "none" /\ session = 0
  /\ rtcp = "none" /\ strays = {}
  /\ state = "INIT" /\ cseq = 0
  /\ out = Nothing
  /\ reply = Reply(0, TRUE, FALSE) /\ answered = 0
  /\ streamSeq \in 0 .. SeqModulus - 1 /\ clientSeq = 0
  /\ announced = NoSeq /\ first = NoSeq

--------------------------------------------------------------------------------
(* The client                                                              *)

(* The last field says whether the server has written over the first byte. *)
Pieces(r, n) == [k \in 1 .. r.size |-> [request |-> r, n |-> n, part |-> k, cut |-> FALSE]]

Ask(r) ==
  /\ up
  /\ Len(inbox) + r.size <= InFlight
  /\ r.method # "RTCP" => asked < MaxRequests
  /\ asked' = IF r.method = "RTCP" THEN asked ELSE asked + 1
  /\ inbox' = inbox \o Pieces(r, asked')
  /\ UNCHANGED << up, buffer, pc, method, talkVars, parserVars, out, wireVars, seqVars >>

(* What is on its way may be lost.                                         *)
HangUp ==
  /\ up
  /\ up' = FALSE
  /\ inbox' \in {inbox, << >>}
  /\ UNCHANGED << asked, buffer, pc, method, talkVars, parserVars, out, wireVars, seqVars >>

--------------------------------------------------------------------------------
(* Receiving: receive_msg() calls recv() before it looks at what is in the *)
(* buffer already.                                                         *)

EndsMessage(p) == p.request.method # "RTCP" /\ p.part = p.request.size
IsRtcp(b) == b # << >> /\ b[1].request.method = "RTCP" /\ b[1].part = 1 /\ ~b[1].cut

(* A mutant of MessageEnds: an empty line at the very end is overlooked.   *)
MessageEndsBefore(b) ==
  IF IsRtcp(b) THEN {b[1].request.size} \cap DOMAIN b
               ELSE {i \in DOMAIN b : EndsMessage(b[i]) /\ i < Len(b)}

(* Where a message in the buffer ends: an RTCP packet says how long it is, *)
(* a request ends with the first empty line.                               *)
MessageEnds(b) ==
  IF IsRtcp(b) THEN {b[1].request.size} \cap DOMAIN b
               ELSE {i \in DOMAIN b : EndsMessage(b[i])}

Complete(b) == MessageEnds(b) # {}
MessageLength(b) == CHOOSE i \in MessageEnds(b) : \A j \in MessageEnds(b) : i <= j

(* A mutant of Rest: what came with the message in one recv() goes with it. *)
KeepNone(b) == << >>

Rest(b) == SubSeq(b, MessageLength(b) + 1, Len(b))

(* The '\0' that ends a request "for logging" (rtsp_talker.cpp:130) is       *)
(* written over the first byte of what came behind it.  (NotCut is how the  *)
(* test has it, test_rtsp_server.cpp:34.)                                   *)
NotCut(b) == b
Cut(b) == IF b = << >> THEN b ELSE [b EXCEPT ![1].cut = TRUE]

(* A mutant of Room: what is in the buffer is not counted.                 *)
RoomWhenEmpty(b) == Capacity

Room(b) == Capacity - Len(b)

MustReceive == pc = "receive" \/ (pc = "read" /\ ~Complete(buffer))

Receive(k) ==
  /\ MustReceive
  /\ k <= Room(buffer) /\ k <= Len(inbox)
  /\ buffer' = buffer \o SubSeq(inbox, 1, k)
  /\ inbox'  = SubSeq(inbox, k + 1, Len(inbox))
  /\ pc' = "read"
  /\ UNCHANGED << up, asked, method, talkVars, parserVars, out, wireVars, seqVars >>

(* receive() finds no room, or the channel of an interleaved packet is not *)
(* the one of RTCP: an error of no request, sent with the CSeq parsed last.*)
Overflow ==
  /\ \/ MustReceive /\ Room(buffer) <= 0
     \/ pc = "read" /\ IsRtcp(buffer) /\ buffer[1].request.bad
  /\ out' = [cseq |-> cseq, ok |-> FALSE, seq |-> NoSeq]
  /\ pc' = "refuse"
  /\ UNCHANGED << peerVars, buffer, method, talkVars, parserVars, wireVars, seqVars >>

(* A mutant of AfterReset: the end of the stream is taken for a message.   *)
ReadOn == "receive"

AfterReset == "kill"

(* recv() returns 0, or an error.                                          *)
Reset ==
  /\ MustReceive
  /\ Room(buffer) > 0
  /\ ~up /\ inbox = << >>
  /\ method' = "TEARDOWN"
  /\ pc' = AfterReset
  /\ UNCHANGED << peerVars, buffer, talkVars, parserVars, out, wireVars, seqVars >>

(* An RTCP report on the connection is parsed and nothing else.            *)
TakeRtcp ==
  /\ pc = "read"
  /\ IsRtcp(buffer) /\ ~buffer[1].request.bad /\ Complete(buffer)
  /\ buffer' = Rest(buffer)
  /\ pc' = "receive"
  /\ UNCHANGED << peerVars, method, talkVars, parserVars, out, wireVars, seqVars >>

--------------------------------------------------------------------------------
(* Parsing                                                                 *)

(* A message that is not the whole of one request: its first line is in    *)
(* the middle of something, and its CSeq field may be gone.                *)
Garbled(b) == b[1].part # 1 \/ b[1].n # b[MessageLength(b)].n
               \/ b[1].request.method = "RTCP"

(* The first word of the message is not there to be read.                  *)
Spoilt(b) == b[1].cut

(* Parser::_state moves before an error of the text is thrown, unless the  *)
(* error is a method that is not known.                                    *)
NextState(s, m) ==
  CASE s = "INIT" /\ m = "SETUP"    -> "READY"
    [] s = "READY" /\ m = "PLAY"    -> "PLAYING"
    [] s # "INIT" /\ m = "TEARDOWN" -> "INIT"
    [] OTHER                        -> s

PlayTooEarly(s, m) == s = "INIT" /\ m = "PLAY"

(* Every field is read before the first error is thrown, so an error reply *)
(* has the CSeq of its request, if that came with one.                     *)
ParseFails ==
  /\ pc = "read"
  /\ Complete(buffer) /\ ~IsRtcp(buffer)
  /\ LET last == buffer[MessageLength(buffer)]
         r    == buffer[1].request
     IN \/ /\ Garbled(buffer)
           /\ cseq' \in {0, last.n}
           /\ UNCHANGED state
        \/ /\ ~Garbled(buffer) /\ Spoilt(buffer)
           /\ cseq' = last.n
           /\ UNCHANGED state
        \/ /\ ~Garbled(buffer) /\ ~Spoilt(buffer)
           /\ r.bad \/ PlayTooEarly(state, r.method)
           /\ cseq'  = last.n
           /\ state' \in {NextState(state, r.method)} \cup (IF r.bad THEN {state} ELSE {})
  /\ out' = [cseq |-> cseq', ok |-> FALSE, seq |-> NoSeq]
  /\ pc' = "refuse"
  /\ UNCHANGED << peerVars, buffer, method, talkVars, wireVars, seqVars >>

(* The request parsed is r; the Responder then carries it out.             *)
Reads(r) ==
  /\ pc = "read"
  /\ Complete(buffer) /\ ~IsRtcp(buffer) /\ ~Garbled(buffer) /\ ~Spoilt(buffer)
  /\ r = buffer[1].request
  /\ ~r.bad /\ ~PlayTooEarly(state, r.method)
  /\ state'  = NextState(state, r.method)
  /\ cseq'   = buffer[1].n
  /\ UNCHANGED << peerVars, wireVars >>

Parses(r) == Reads(r) /\ method' = r.method

(* A mutant of Accepts: the message stays in the buffer.                   *)
AcceptsAgain(seq) ==
  /\ out' = [cseq |-> cseq', ok |-> TRUE, seq |-> seq]
  /\ pc' = "send"
  /\ UNCHANGED buffer

(* The reply is written; the message is taken out of the buffer.           *)
Accepts(seq) ==
  /\ out' = [cseq |-> cseq', ok |-> TRUE, seq |-> seq]
  /\ buffer' = Cut(Rest(buffer))
  /\ pc' = "send"

(* The Responder throws an Errcode.                                        *)
Rejects ==
  /\ out' = [cseq |-> cseq', ok |-> FALSE, seq |-> NoSeq]
  /\ pc' = "refuse"
  /\ UNCHANGED buffer

(* A mutant of AfterException: the error is taken for one of the request.  *)
TryAgain == "receive"

AfterException == "kill"

(* An SBL::Exception ends the thread; no reply is sent.                    *)
Throws(r) ==
  /\ Reads(r)
  /\ method' = "TEARDOWN"
  /\ pc' = AfterException
  /\ UNCHANGED << buffer, out >>

--------------------------------------------------------------------------------
(* Carrying a request out (Responder)                                      *)

(* OPTIONS, and GET_PARAMETER with it: nothing but a reply.                *)
Options ==
  \E r \in Requests :
    /\ r.method = "OPTIONS" /\ Parses(r)
    /\ Accepts(NoSeq)
    /\ UNCHANGED << talkVars, seqVars >>

(* The Talker keeps the source it found even if describing it then fails   *)
(* (no parameter sets yet).  Once it has one, it looks for no other.       *)
Describe ==
  \E r \in Requests :
    /\ r.method = "DESCRIBE" /\ Parses(r)
    /\ source' = (source \/ r.known)
    /\ \/ source' /\ Accepts(NoSeq)
       \/ Rejects
    /\ UNCHANGED << socket, client, session, rtcp, strays, seqVars >>

(* What it is described with is void (encode64, get_bitrate).              *)
DescribeFails ==
  \E r \in Requests :
    /\ r.method = "DESCRIBE" /\ Throws(r)
    /\ source \/ r.known
    /\ source' = TRUE
    /\ UNCHANGED << socket, client, session, rtcp, strays, seqVars >>

SetupRefused ==
  \E r \in Requests :
    /\ r.method = "SETUP" /\ Parses(r)
    /\ ~(r.known /\ source)
    /\ Rejects
    /\ UNCHANGED << talkVars, seqVars >>

(* add_client and SessionID::generate.  A client made by an earlier SETUP   *)
(* stays in the Streamer (module RtspServer has both), and only the pointer *)
(* to it is gone.                                                          *)
AddClient ==
  /\ client'    = "STOP"
  /\ session'   = session + 1
  /\ clientSeq' = 0
  /\ UNCHANGED << socket, source, streamSeq >>

(* _rtcp_parser is overwritten: the thread of the Parser it named goes on. *)
NewRtcp(parser) ==
  /\ rtcp'   = parser
  /\ strays' = strays \cup ({rtcp} \cap {"starting", "running"})

SetupTcp ==
  \E r \in Requests :
    /\ r.method = "SETUP" /\ r.transport = "TCP" /\ Parses(r)
    /\ r.known /\ source
    /\ AddClient /\ NewRtcp("tcp")
    /\ Accepts(NoSeq)

SetupUdp ==
  \E r \in Requests :
    /\ r.method = "SETUP" /\ r.transport = "UDP" /\ Parses(r)
    /\ r.known /\ source
    /\ AddClient /\ NewRtcp("starting")
    /\ Accepts(NoSeq)

(* An option of the socket cannot be set, or the client has just gone: all *)
(* of it before the client is added.                                       *)
SetupTcpFails ==
  \E r \in Requests :
    /\ r.method = "SETUP" /\ r.transport = "TCP" /\ Throws(r)
    /\ r.known /\ source
    /\ UNCHANGED << talkVars, seqVars >>

(* A socket cannot be opened or bound, whether or not the client was added *)
(* already, or the RTCP thread cannot be created.                          *)
SetupUdpFails ==
  \E r \in Requests :
    /\ r.method = "SETUP" /\ r.transport = "UDP" /\ Throws(r)
    /\ r.known /\ source
    /\ \/ UNCHANGED << talkVars, seqVars >>
       \/ AddClient /\ UNCHANGED << rtcp, strays >>
       \/ AddClient /\ NewRtcp("tcp")

(* RTP-Info carries Client::seq_number(), which asks the Streamer.         *)
Play ==
  \E r \in Requests :
    /\ r.method = "PLAY" /\ Parses(r)
    /\ IF r.session = session /\ client \in Alive THEN Accepts(streamSeq) ELSE Rejects
    /\ UNCHANGED << talkVars, seqVars >>

(* The teardown comes before its reply is sent.  A wrong session is an     *)
(* error, but the method it leaves behind ends the thread all the same.    *)
Teardown ==
  \E r \in Requests :
    /\ r.method = "TEARDOWN" /\ Parses(r)
    /\ \/ /\ r.session = session
          /\ out' = [cseq |-> cseq', ok |-> TRUE, seq |-> NoSeq]
          /\ pc' = "kill"
          /\ UNCHANGED buffer
       \/ r.session # session /\ Rejects
    /\ UNCHANGED << talkVars, seqVars >>

--------------------------------------------------------------------------------
(* Replying                                                                *)

(* A send to a client that hung up may fail, or not yet.                   *)
Sends ==
  /\ socket
  /\ reply'    = Reply(out.cseq, out.ok, ~reply.odd)
  /\ answered' = IF out.cseq = 0 THEN answered ELSE out.cseq
  /\ out' = Nothing

CannotSend ==
  /\ ~up \/ ~socket
  /\ out' = Nothing
  /\ UNCHANGED << reply, answered >>

AfterReply == IF method = "PLAY" THEN "play" ELSE "receive"

SendReply ==
  /\ pc = "send"
  /\ Sends
  /\ announced' = IF method = "PLAY" THEN out.seq ELSE announced
  /\ first'     = IF method = "PLAY" THEN NoSeq ELSE first
  /\ pc' = AfterReply
  /\ UNCHANGED << peerVars, buffer, method, talkVars, parserVars, seqVars >>

(* Mutants of AfterFailedSend: the error is not looked at; the thread      *)
(* returns at once.                                                        *)
GoOn     == AfterReply
Vanishes == "exited"

AfterFailedSend == "kill"

(* A break out of the loop, or, with the socket closed, an SBL::Exception. *)
ReplyFails ==
  /\ pc = "send"
  /\ CannotSend
  /\ pc' = AfterFailedSend
  /\ UNCHANGED << peerVars, buffer, method, talkVars, parserVars, announced, first, seqVars >>

PlayClient ==
  /\ pc = "play"
  /\ client' = "REQUEST"
  /\ pc' = "receive"
  /\ UNCHANGED << peerVars, buffer, method, socket, source, session, rtcp, strays,
                  parserVars, out, wireVars, seqVars >>

(* An error reply; what was received already is thrown away.               *)
SendRefusal ==
  /\ pc = "refuse"
  /\ \/ Sends /\ method' = method
     \/ CannotSend /\ method' = "TEARDOWN"
  /\ buffer' = << >>
  /\ pc' = IF method' = "TEARDOWN" THEN "kill" ELSE "receive"
  /\ UNCHANGED << peerVars, talkVars, parserVars, announced, first, seqVars >>

--------------------------------------------------------------------------------
(* Talker::teardown                                                        *)

(* A mutant of Survives: the thread is not cancelled.                      *)
SurvivesAlways(thread) == {thread} \cap {"starting", "running"}

(* RTCP::Parser::kill() cancels a thread that has begun to run.  One that  *)
(* was created and has not is missed: it will run on a deleted Parser.     *)
Survives(thread) == IF thread = "starting" THEN {"orphan"} ELSE {}

(* Only the thread of the last Parser is killed.                           *)
KillRtcp ==
  /\ pc = "kill"
  /\ rtcp'   = "none"
  /\ strays' = strays \cup Survives(rtcp)
  /\ pc' = "delete"
  /\ UNCHANGED << peerVars, buffer, method, socket, source, client, session, parserVars,
                  out, wireVars, seqVars >>

NoClient ==
  /\ pc = "delete" /\ client \notin Alive
  /\ pc' = "close"
  /\ UNCHANGED << peerVars, buffer, method, talkVars, parserVars, out, wireVars, seqVars >>

(* Here the thread waits for the lock of the server, for that of the       *)
(* Streamer, and for the thread of a file to end.                          *)
DeleteClient ==
  /\ pc = "delete" /\ client \in Alive
  /\ client' = "deleted"
  /\ pc' = "close"
  /\ UNCHANGED << peerVars, buffer, method, socket, source, session, rtcp, strays,
                  parserVars, out, wireVars, seqVars >>

(* After a TEARDOWN request the thread goes on to send the reply; the loop *)
(* then ends and teardown() is called again.                               *)
Close ==
  /\ pc = "close"
  /\ socket' = FALSE
  /\ pc' = IF out # Nothing THEN "send" ELSE "exited"
  /\ UNCHANGED << peerVars, buffer, method, source, client, session, rtcp, strays,
                  parserVars, out, wireVars, seqVars >>

--------------------------------------------------------------------------------
(* The other threads                                                       *)

RtcpStarts ==
  /\ \/ rtcp = "starting" /\ rtcp' = "running" /\ UNCHANGED strays
     \/ /\ "starting" \in strays
        /\ \E rest \in {strays, strays \ {"starting"}} : strays' = rest \cup {"running"}
        /\ UNCHANGED rtcp
  /\ UNCHANGED << peerVars, buffer, pc, method, socket, source, client, session,
                  parserVars, out, wireVars, seqVars >>

(* The Streamer sends a packet to its clients: this one may get it, and    *)
(* may be switched off because it cannot be sent to.                       *)
Packet(starter) ==
  LET plays == client = "PLAY" \/ (client = "REQUEST" /\ starter)
  IN /\ source
     /\ streamSeq' = (streamSeq + 1) % SeqModulus
     /\ \/ /\ plays
           /\ client'    = "PLAY"
           /\ clientSeq' = (clientSeq + 1) % SeqModulus
           /\ first'     = IF first = NoSeq THEN clientSeq ELSE first
        \/ /\ plays /\ (up => rtcp # "tcp")
           /\ client' = "STOP"
           /\ UNCHANGED << clientSeq, first >>
        \/ /\ ~plays
           /\ UNCHANGED << client, clientSeq, first >>
     /\ UNCHANGED << peerVars, buffer, pc, method, socket, source, session, rtcp,
                     strays, parserVars, out, reply, answered, announced >>

TalkerStep ==
  \/ \E k \in 1 .. InFlight : Receive(k)
  \/ Overflow \/ Reset \/ TakeRtcp \/ ParseFails
  \/ Options \/ Describe \/ DescribeFails
  \/ SetupRefused \/ SetupTcp \/ SetupTcpFails \/ SetupUdp \/ SetupUdpFails
  \/ Play \/ Teardown
  \/ SendReply \/ ReplyFails \/ PlayClient \/ SendRefusal
  \/ KillRtcp \/ NoClient \/ DeleteClient \/ Close

Next ==
  \/ \E r \in Requests : Ask(r)
  \/ HangUp
  \/ TalkerStep
  \/ RtcpStarts
  \/ \E starter \in BOOLEAN : Packet(starter)

(* What the thread waits for and nothing here makes come: the locks that   *)
(* get_source, add_client and teardown() take and the thread of a file that *)
(* teardown() joins (module RtspServer), and a client that is there but    *)
(* does not read what it is sent, for send() has no timeout.               *)
Waiting ==
  \/ pc = "delete" /\ client \in Alive
  \/ /\ pc = "read" /\ Complete(buffer)
     /\ ~IsRtcp(buffer) /\ ~Garbled(buffer) /\ ~Spoilt(buffer) /\ ~buffer[1].request.bad
     /\ \/ buffer[1].request.method = "DESCRIBE" /\ ~source
        \/ buffer[1].request.method = "SETUP" /\ buffer[1].request.known /\ source
  \/ pc \in {"send", "refuse"} /\ up

(* A thread that can run and does not wait runs; clients and encoders do   *)
(* as they please.                                                         *)
Spec == Init /\ [][Next]_vars /\ WF_vars(~Waiting /\ TalkerStep)

--------------------------------------------------------------------------------
(* Properties                                                              *)

Piece == [request : Requests, n : 0 .. MaxRequests, part : Nat \ {0}, cut : BOOLEAN]

(* The buffer never holds more than there is room for (receive(),          *)
(* rtsp_talker.cpp:138-145), and everything has its type.                  *)
TypeOK ==
  /\ inbox \in Seq(Piece) /\ Len(inbox) <= InFlight
  /\ buffer \in Seq(Piece) /\ Len(buffer) <= Capacity
  /\ up \in BOOLEAN /\ socket \in BOOLEAN /\ source \in BOOLEAN
  /\ asked \in 0 .. MaxRequests
  /\ pc \in {"receive", "read", "send", "play", "refuse", "kill", "delete", "close", "exited"}
  /\ method \in Methods \ {"RTCP"}
  /\ client \in Alive \cup {"none", "deleted"}
  /\ session \in Nat
  /\ rtcp \in {"none", "tcp", "starting", "running"}
  /\ strays \subseteq {"orphan", "starting", "running"}
  /\ state \in {"INIT", "READY", "PLAYING"}
  /\ cseq \in 0 .. MaxRequests /\ answered \in 0 .. MaxRequests
  /\ out \in [cseq : 0 .. MaxRequests, ok : BOOLEAN, seq : Int]
  /\ reply \in [cseq : 0 .. MaxRequests, ok : BOOLEAN, odd : BOOLEAN]
  /\ streamSeq \in 0 .. SeqModulus - 1 /\ clientSeq \in 0 .. SeqModulus - 1
  /\ announced \in -1 .. SeqModulus - 1 /\ first \in -1 .. SeqModulus - 1

(* However requests are cut, joined, garbled and thrown away on their way  *)
(* through the receive buffer, each is answered at most once, with its own *)
(* CSeq and in the order of asking, and nothing is answered after the      *)
(* connection was closed: the connection keeps the promise of RtspDialogue *)
(* ("The sequence number is used to pair requests and reply",              *)
(* rtsp_server.dox:131).                                                   *)
Dialogue == INSTANCE RtspDialogue WITH open <- socket
AnswersInOrder == Dialogue!DialogueSpec

(* The thread that reads RTCP reports over UDP finds a client to adjust    *)
(* whenever it runs: the assertion in adjust_bitrate (rtcp.cpp:109), which *)
(* nothing in that thread would catch.  The thread of a Parser that a      *)
(* second SETUP replaced (rtsp_talker.cpp:211) finds one too, but only     *)
(* until teardown(), which ends no thread but the last.                    *)
RtcpHasClient ==
  /\ rtcp = "running" => client \in Alive
  /\ "running" \in strays => client \in Alive \/ (session > 1 /\ client = "deleted")

(* Packets only begin to flow to a client that has been sent the reply to  *)
(* its PLAY, with the sequence number in it (start_thread,                 *)
(* rtsp_talker.cpp:54-61), even if the send of that reply fails.           *)
PlayAfterReply ==
  [][ client' \in Streaming /\ client \notin Streaming
        => /\ method = "PLAY"
           /\ reply.cseq = cseq /\ reply.ok
           /\ announced # NoSeq ]_vars

(* A connection that goes on after a SETUP has all that SETUP makes, or    *)
(* nothing of it: there is no client without a session and an RTCP parser, *)
(* whatever failed on the way (setup_udp, rtsp_talker.cpp:196-216).        *)
SetupWhole ==
  pc = "receive" => /\ client \in Alive <=> session # 0
                    /\ client \in Alive <=> rtcp # "none"

(* However the loop of start_thread ends (rtsp_talker.cpp:93-96), its      *)
(* client is gone from the Streamer and the connection closed before the   *)
(* Talker is deleted, and no RTCP thread is left: but one that had not     *)
(* begun to run when it was killed, and, if there was more than one SETUP, *)
(* those of the Parsers replaced, which go on with a Talker that is gone   *)
(* (the clients replaced are RtspServer's).                                *)
TornDown ==
  pc = "exited" =>
    /\ client \notin Alive /\ ~socket /\ rtcp = "none"
    /\ session < 2 => strays \subseteq {"orphan"}

(* All that has come or is on its way, and what begins a request in it.    *)
Line == buffer \o inbox
Begins(p) == p.part = 1 /\ p.request.method # "RTCP"

(* Request n is in line with all its pieces, in order, and so is what they *)
(* say, but for the first byte of the line.                                *)
Waits(n) ==
  \E i \in DOMAIN Line :
    /\ Begins(Line[i]) /\ Line[i].n = n
    /\ \A k \in 1 .. Line[i].request.size :
         /\ i + k - 1 \in DOMAIN Line
         /\ Line[i + k - 1] = [Line[i] EXCEPT !.part = k, !.cut = (i + k = 2 /\ @)]

(* As long as no error reply has thrown anything away since the last good   *)
(* one, nothing is lost: each request that was not answered waits whole,    *)
(* however requests and RTCP packets are cut by recv() and taken out of the *)
(* buffer one by one (receive_msg, rtsp_talker.cpp:99-136), unless the      *)
(* client hung up; and what is read next is not the middle of anything.  No *)
(* more than one byte is written over.                                      *)
NothingLost ==
  pc \in {"receive", "read", "play"} /\ reply.ok =>
    /\ up => \A n \in answered + 1 .. asked : Waits(n)
    /\ Complete(buffer) /\ ~Spoilt(buffer) /\ ~IsRtcp(buffer) => ~Garbled(buffer)

(* A request waits in the buffer for the client to say more: receive_msg   *)
(* calls recv() before it looks (rtsp_talker.cpp:101).                     *)
Stalled == pc = "receive" /\ inbox = << >> /\ Complete(buffer)

(* Every request is answered in the end, or a later one is, unless the     *)
(* last reply was an error, which throws away what came before it was      *)
(* sent, the connection ended, the request came in one recv() with the     *)
(* request before it and nothing came after it, or the thread waits for    *)
(* ever for a lock or for the client to read (start_thread,                *)
(* rtsp_talker.cpp:45-93).                                                 *)
Answered ==
  \A n \in 1 .. MaxRequests :
    asked >= n ~> answered >= n \/ ~reply.ok \/ pc = "exited" \/ Stalled \/ []Waiting

(* When the client hangs up, in the middle of a request or with requests   *)
(* still to be read, the connection is torn down, unless the thread waits  *)
(* for ever for the locks of the server and the Streamer or for the thread *)
(* of a file (receive_msg, start_thread and teardown,                      *)
(* rtsp_talker.cpp:71-95, 218-243).                                        *)
HangupEnds == ~up ~> pc = "exited" \/ []Waiting

(* Each message reaches the parser as it was sent, however many came in one *)
(* recv(): if not, that is a "content error for message"                   *)
(* (test_rtsp_server.cpp:154, whose copy of receive_rtsp differs in that).  *)
(* It does not: run talker_pipeline.                                        *)
ReadAsSent == pc = "read" /\ Complete(buffer) => ~Spoilt(buffer)

(* The sequence number PLAY announces is that of the first packet sent:    *)
(* "Server confirms playback and provides an initial TP sequence number    *)
(* and timestamp" (rtsp_server.dox:223).  It is not: run talker_sequence.  *)
AnnouncedSequence == first # NoSeq => first = announced
===============================================================================
