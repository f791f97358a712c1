--------------------------- MODULE RtspTalkerProofs ---------------------------
(***************************************************************************)
(* Theorems about one RTSP connection (RtspTalker): what holds at each     *)
(* place of the loop of start_thread, for every set of requests, every     *)
(* size of the receive buffer and any number of requests.  Nothing here    *)
(* depends on what arrives: the receive buffer does not occur.             *)
(***************************************************************************)
EXTENDS RtspTalker, TLAPS

(* SETUP has made everything, or nothing.                                  *)
Whole ==
  /\ socket
  /\ client # "deleted"
  /\ client \in Alive <=> session # 0
  /\ client \in Alive <=> rtcp # "none"

(* Teardown has removed everything but the connection, and strays.         *)
Gone == client \notin Alive /\ rtcp = "none"

InLoop == {"receive", "read", "refuse", "play"}
InTeardown == {"kill", "delete", "close"}

Domains ==
  /\ pc \in InLoop \cup InTeardown \cup {"send", "exited"}
  /\ client \in Alive \cup {"none", "deleted"}
  /\ rtcp \in {"none", "tcp", "starting", "running"}
  /\ session \in Nat /\ strays \subseteq {"orphan", "starting", "running"}
  /\ streamSeq \in Nat

(* What SETUP makes, place by place.                                       *)
Places ==
  /\ rtcp \in {"tcp", "starting", "running"} => client \in Alive
  /\ pc \in InLoop => Whole
  /\ pc = "send" => IF socket THEN Whole ELSE Gone
  /\ pc = "delete" => rtcp = "none"
  /\ pc = "close" => Gone
  /\ pc = "exited" => Gone /\ ~socket

(* The reply waiting to be sent is that of the request parsed last; only   *)
(* the reply to TEARDOWN waits during a teardown.                          *)
Replies ==
  /\ pc = "send" => out.cseq = cseq /\ out.ok = TRUE
  /\ pc = "send" /\ socket /\ method = "PLAY" => out.seq \in Nat /\ client \in Alive
  /\ pc \in {"receive", "read", "play"} => out = Nothing
  /\ pc \in InTeardown /\ out # Nothing
       => out.cseq = cseq /\ out.ok = TRUE /\ method = "TEARDOWN"
  /\ pc = "play" => /\ method = "PLAY" /\ client \in Alive
                    /\ reply.cseq = cseq /\ reply.ok = TRUE
                    /\ announced # NoSeq

(* Only a second SETUP makes a stray of a thread that can run.             *)
Leaks ==
  /\ client = "none" => session = 0
  /\ session < 2 => strays \subseteq {"orphan"}

SessionInv == Domains /\ Places /\ Replies /\ Leaks

--------------------------------------------------------------------------------

(* Init starts at the top of the loop with nothing set up.                 *)
LEMMA SessionInit == Init => SessionInv
<1>1. ASSUME Init PROVE Domains
  BY <1>1, TalkerAssumption DEF Init, Domains, InLoop, InTeardown
<1>2. ASSUME Init PROVE Places
  BY <1>2 DEF Init, Places, Whole, Alive, Streaming, InLoop
<1>3. ASSUME Init PROVE Replies
  BY <1>3 DEF Init, Replies, InTeardown
<1>4. ASSUME Init PROVE Leaks
  BY <1>4 DEF Init, Leaks
<1> QED BY <1>1, <1>2, <1>3, <1>4 DEF SessionInv

(* The steps that leave the loop where it is, and what it set up.          *)
LEMMA OutsideSteps ==
  ASSUME SessionInv,
         \/ UNCHANGED vars \/ HangUp \/ (\E r \in Requests : Ask(r))
  PROVE  SessionInv'
<1>1. UNCHANGED << pc, method, talkVars, cseq, out, wireVars, streamSeq >>
  BY DEF vars, HangUp, Ask, peerVars, parserVars, seqVars
<1> QED BY <1>1 DEF SessionInv, Domains, Places, Replies, Leaks, Whole, Gone, talkVars, wireVars

(* Receiving ends in the loop, in an error reply or in the teardown.       *)
LEMMA ReceivingSteps ==
  ASSUME SessionInv,
         (\E k \in 1 .. InFlight : Receive(k)) \/ Overflow \/ Reset \/ TakeRtcp \/ ParseFails
  PROVE  SessionInv'
<1>1. UNCHANGED << talkVars, wireVars, streamSeq >>
  BY DEF Receive, Overflow, Reset, TakeRtcp, ParseFails, seqVars
<1>2. pc \in {"receive", "read"}
  BY DEF Receive, Overflow, Reset, TakeRtcp, ParseFails, MustReceive
<1>3. \/ pc' \in {"receive", "read"} /\ out' = out
      \/ pc' = "refuse"
      \/ pc' = "kill" /\ out' = out
  BY DEF Receive, Overflow, Reset, TakeRtcp, ParseFails, AfterReset
<1>4. Domains' 
  BY <1>1, <1>3 DEF SessionInv, Domains, InLoop, InTeardown, talkVars
<1>5. Places'
  BY <1>1, <1>2, <1>3 DEF SessionInv, Places, Whole, Gone, InLoop, talkVars
<1>6. Replies'
  BY <1>2, <1>3 DEF SessionInv, Replies, InTeardown
<1>7. Leaks'
  BY <1>1 DEF SessionInv, Leaks, talkVars
<1> QED BY <1>4, <1>5, <1>6, <1>7 DEF SessionInv

(* A request accepted without a change to the session, or refused.         *)
LEMMA PlainRequests ==
  ASSUME SessionInv, Options \/ Describe \/ SetupRefused \/ Play
  PROVE  SessionInv'
<1>1. pc = "read" /\ UNCHANGED << socket, client, session, rtcp, strays, wireVars, streamSeq >>
  BY DEF Options, Describe, SetupRefused, Play, Parses, Reads, talkVars, seqVars
<1>2. \/ pc' = "refuse"
      \/ pc' = "send" /\ out'.cseq = cseq' /\ out'.ok = TRUE
  BY DEF Options, Describe, SetupRefused, Play, Accepts, Rejects
<1>3. ASSUME pc' = "send", method' = "PLAY"
      PROVE  out'.seq \in Nat /\ client \in Alive
  <2>1. Play
    BY <1>3 DEF Options, Describe, SetupRefused, Parses, Rejects
  <2>2. client \in Alive /\ out'.seq = streamSeq
    BY <1>3, <2>1 DEF Play, Accepts, Rejects
  <2> QED BY <2>2 DEF SessionInv, Domains
<1>4. Domains'
  BY <1>1, <1>2 DEF SessionInv, Domains, InLoop
<1>5. Places'
  BY <1>1, <1>2 DEF SessionInv, Places, Whole, Gone, InLoop
<1>6. Replies'
  BY <1>1, <1>2, <1>3 DEF Replies, InTeardown
<1>7. Leaks'
  BY <1>1 DEF SessionInv, Leaks
<1> QED BY <1>4, <1>5, <1>6, <1>7 DEF SessionInv

(* An exception takes the request to the teardown, whatever SETUP had made *)
(* of the client and the RTCP parser by then.                              *)
LEMMA FailingRequests ==
  ASSUME SessionInv, DescribeFails \/ SetupTcpFails \/ SetupUdpFails
  PROVE  SessionInv'
<1>1. /\ pc = "read" /\ pc' = "kill" /\ out' = out
      /\ UNCHANGED << socket, wireVars, streamSeq >>
  BY DEF DescribeFails, SetupTcpFails, SetupUdpFails, Throws, Reads, AfterException, AddClient,
         talkVars, seqVars
<1>2. Whole /\ out = Nothing
  BY <1>1 DEF SessionInv, Places, Replies, InLoop
<1>3. \/ UNCHANGED << client, session, rtcp, strays >>
      \/ AddClient /\ UNCHANGED << rtcp, strays >>
      \/ AddClient /\ NewRtcp("tcp")
  BY DEF DescribeFails, SetupTcpFails, SetupUdpFails, talkVars
<1>4. Domains'
  <2>1. /\ session' \in Nat /\ client' \in {client, "STOP"} /\ rtcp' \in {rtcp, "tcp"}
        /\ strays' \subseteq strays \cup {"starting", "running"}
    BY <1>3 DEF SessionInv, Domains, AddClient, NewRtcp
  <2> QED BY <1>1, <2>1 DEF SessionInv, Domains, InTeardown, Alive
<1>5. Places'
  BY <1>1, <1>2, <1>3 DEF SessionInv, Places, Whole, InLoop, Alive, AddClient, NewRtcp
<1>6. Replies'
  BY <1>1, <1>2 DEF Replies, InTeardown
<1>7. Leaks'
  <2>1. CASE UNCHANGED << client, session, strays >>
    BY <2>1 DEF SessionInv, Leaks
  <2>2. CASE AddClient /\ UNCHANGED strays
    BY <2>2 DEF SessionInv, Domains, Leaks, AddClient
  <2>3. CASE AddClient /\ NewRtcp("tcp")
    <3>1. session' = session + 1 /\ client' = "STOP"
      BY <2>3 DEF AddClient
    <3>2. session' < 2 => strays' = strays
      <4>1. session' < 2 => rtcp = "none"
        BY <1>2, <3>1 DEF SessionInv, Domains, Whole
      <4>2. rtcp = "none" => strays' = strays
        BY <2>3 DEF NewRtcp
      <4> QED BY <4>1, <4>2
    <3>3. session' < 2 => session < 2
      BY <3>1 DEF SessionInv, Domains
    <3>4. session' < 2 => strays' \subseteq {"orphan"}
      BY <3>2, <3>3 DEF SessionInv, Leaks
    <3> QED BY <3>1, <3>4 DEF Leaks
  <2> QED BY <1>3, <2>1, <2>2, <2>3
<1> QED BY <1>4, <1>5, <1>6, <1>7 DEF SessionInv

(* SETUP makes everything at once; the thread of the Parser it replaces is *)
(* a stray from then on.                                                   *)
LEMMA SetupRequests ==
  ASSUME SessionInv, SetupTcp \/ SetupUdp
  PROVE  SessionInv'
<1>1. pc = "read" /\ UNCHANGED << socket, wireVars, streamSeq >>
  BY DEF SetupTcp, SetupUdp, Parses, Reads, AddClient
<1>2. Whole /\ out = Nothing
  BY <1>1 DEF SessionInv, Places, Replies, InLoop
<1>3. /\ pc' = "send" /\ out'.cseq = cseq' /\ out'.ok = TRUE /\ method' = "SETUP"
      /\ AddClient /\ \E p \in {"tcp", "starting"} : NewRtcp(p)
  BY <1>2 DEF SetupTcp, SetupUdp, Parses, Accepts
<1>4. Domains'
  BY <1>1, <1>3 DEF SessionInv, Domains, Alive, AddClient, NewRtcp
<1>5. Places'
  BY <1>1, <1>2, <1>3 DEF SessionInv, Domains, Places, Whole, InLoop, Alive, AddClient, NewRtcp
<1>6. Replies'
  BY <1>3 DEF Replies, InTeardown
<1>7. Leaks'
  BY <1>2, <1>3 DEF SessionInv, Domains, Leaks, Whole, AddClient, NewRtcp
<1> QED BY <1>4, <1>5, <1>6, <1>7 DEF SessionInv

(* TEARDOWN goes to the teardown with its reply, or to an error reply.     *)
LEMMA TeardownRequest ==
  ASSUME SessionInv, Teardown
  PROVE  SessionInv'
<1>1. pc = "read" /\ UNCHANGED << talkVars, wireVars, streamSeq >>
  BY DEF Teardown, Parses, Reads, seqVars
<1>2. \/ pc' = "refuse"
      \/ pc' = "kill" /\ out'.cseq = cseq' /\ out'.ok = TRUE /\ method' = "TEARDOWN"
  BY DEF Teardown, Parses, Rejects
<1>3. Domains'
  BY <1>1, <1>2 DEF SessionInv, Domains, InLoop, InTeardown, talkVars
<1>4. Places'
  BY <1>1, <1>2 DEF SessionInv, Places, Whole, InLoop, talkVars
<1>5. Replies'
  BY <1>2 DEF Replies, InTeardown
<1>6. Leaks'
  BY <1>1 DEF SessionInv, Leaks, talkVars
<1> QED BY <1>3, <1>4, <1>5, <1>6 DEF SessionInv

--------------------------------------------------------------------------------

(* A reply that could be sent was sent on an open connection.              *)
LEMMA ReplyingSteps ==
  ASSUME SessionInv, SendReply \/ ReplyFails \/ SendRefusal
  PROVE  SessionInv'
<1>1. out' = Nothing /\ UNCHANGED << talkVars, cseq, streamSeq >>
  BY DEF SendReply, ReplyFails, SendRefusal, Sends, CannotSend, parserVars, seqVars
<1>l. Leaks'
  BY <1>1 DEF SessionInv, Leaks, talkVars
<1>2. CASE SendReply
  <2>1. socket /\ pc = "send" /\ method' = method
    BY <1>2 DEF SendReply, Sends
  <2>2. \/ pc' = "receive"
        \/ pc' = "play" /\ method = "PLAY" /\ announced' = out.seq
    BY <1>2 DEF SendReply, AfterReply
  <2>3. Whole /\ out.cseq = cseq /\ out.ok = TRUE
    BY <2>1 DEF SessionInv, Places, Replies
  <2>4. reply'.cseq = cseq /\ reply'.ok = TRUE
    BY <1>2, <2>3 DEF SendReply, Sends, Reply
  <2>5. Domains' /\ Places'
    BY <1>1, <2>1, <2>2, <2>3 DEF SessionInv, Domains, Places, Whole, Gone, InLoop, talkVars
  <2>6. ASSUME pc' = "play" PROVE client \in Alive /\ announced' # NoSeq
    <3>1. out.seq \in Nat /\ client \in Alive
      BY <2>1, <2>2, <2>6 DEF SessionInv, Replies
    <3> QED BY <2>2, <2>6, <3>1 DEF NoSeq
  <2>7. Replies'
    BY <1>1, <2>1, <2>2, <2>4, <2>6 DEF Replies, InTeardown, talkVars
  <2> QED BY <1>l, <2>5, <2>7 DEF SessionInv
<1>3. CASE ReplyFails
  <2>1. pc = "send" /\ pc' = "kill"
    BY <1>3 DEF ReplyFails, AfterFailedSend
  <2>2. Domains' /\ Places'
    BY <1>1, <2>1 DEF SessionInv, Domains, Places, Whole, Gone, InLoop, InTeardown, talkVars
  <2>3. Replies'
    BY <1>1, <2>1 DEF Replies
  <2> QED BY <1>l, <2>2, <2>3 DEF SessionInv
<1>4. CASE SendRefusal
  <2>1. pc = "refuse" /\ pc' \in {"kill", "receive"}
    BY <1>4 DEF SendRefusal
  <2>2. Domains' /\ Places'
    BY <1>1, <2>1 DEF SessionInv, Domains, Places, Whole, Gone, InLoop, InTeardown, talkVars
  <2>3. Replies'
    BY <1>1, <2>1 DEF Replies
  <2> QED BY <1>l, <2>2, <2>3 DEF SessionInv
<1> QED BY <1>2, <1>3, <1>4

(* The client that is played is there.                                     *)
LEMMA PlayStep ==
  ASSUME SessionInv, PlayClient
  PROVE  SessionInv'
<1>1. /\ pc = "play" /\ pc' = "receive" /\ client' = "REQUEST"
      /\ UNCHANGED << socket, session, rtcp, strays, out, streamSeq >>
  BY DEF PlayClient, seqVars
<1>2. client \in Alive /\ Whole /\ out = Nothing
  BY <1>1 DEF SessionInv, Places, Replies, InLoop
<1>3. Domains' /\ Places'
  BY <1>1, <1>2 DEF SessionInv, Domains, Places, Whole, InLoop, Alive, Streaming
<1>4. Replies'
  BY <1>1, <1>2 DEF Replies, InTeardown
<1>5. Leaks'
  BY <1>1 DEF SessionInv, Leaks
<1> QED BY <1>3, <1>4, <1>5 DEF SessionInv

(* teardown(): the RTCP thread first, then the client, then the socket.    *)
LEMMA TeardownSteps ==
  ASSUME SessionInv, KillRtcp \/ NoClient \/ DeleteClient \/ Close
  PROVE  SessionInv'
<1>1. UNCHANGED << method, cseq, out, wireVars, streamSeq >>
  BY DEF KillRtcp, NoClient, DeleteClient, Close, parserVars, seqVars
<1>2. CASE KillRtcp
  <2>1. /\ pc = "kill" /\ pc' = "delete" /\ rtcp' = "none"
        /\ strays \subseteq strays' /\ strays' \subseteq strays \cup {"orphan"}
        /\ UNCHANGED << socket, client, session >>
    BY <1>2 DEF KillRtcp, Survives
  <2>2. Domains' /\ Places' /\ Leaks'
    BY <1>1, <2>1 DEF SessionInv, Domains, Places, Leaks, InLoop, InTeardown
  <2>3. Replies'
    BY <1>1, <2>1 DEF SessionInv, Replies, InTeardown
  <2> QED BY <2>2, <2>3 DEF SessionInv
<1>3. CASE NoClient \/ DeleteClient
  <2>1. /\ pc = "delete" /\ pc' = "close"
        /\ client' \notin Alive /\ client' \in {client, "deleted"}
        /\ UNCHANGED << socket, session, rtcp, strays >>
    BY <1>3 DEF NoClient, DeleteClient, Alive, Streaming, talkVars
  <2>2. Domains' /\ Places' /\ Leaks'
    BY <1>1, <2>1
    DEF SessionInv, Domains, Places, Leaks, Gone, InLoop, InTeardown
  <2>3. Replies'
    BY <1>1, <2>1 DEF SessionInv, Replies, InTeardown
  <2> QED BY <2>2, <2>3 DEF SessionInv
<1>4. CASE Close
  <2>1. /\ pc = "close" /\ socket' = FALSE
        /\ pc' = IF out # Nothing THEN "send" ELSE "exited"
        /\ UNCHANGED << client, session, rtcp, strays >>
    BY <1>4 DEF Close
  <2>2. Domains' /\ Places' /\ Leaks'
    BY <1>1, <2>1 DEF SessionInv, Domains, Places, Leaks, Gone, InLoop, InTeardown
  <2>3. Replies'
    BY <1>1, <2>1 DEF SessionInv, Replies, InTeardown
  <2> QED BY <2>2, <2>3 DEF SessionInv
<1> QED BY <1>2, <1>3, <1>4

--------------------------------------------------------------------------------

(* The RTCP thread and the encoder leave alone what the Talker relies on.  *)
LEMMA OtherThreads ==
  ASSUME SessionInv, RtcpStarts \/ \E starter \in BOOLEAN : Packet(starter)
  PROVE  SessionInv'
<1>1. UNCHANGED << pc, method, socket, session, cseq, out, reply, announced >>
  BY DEF RtcpStarts, Packet, parserVars, wireVars
<1>2. CASE RtcpStarts
  <2>1. /\ UNCHANGED << client, streamSeq >>
        /\ rtcp' = rtcp \/ (rtcp = "starting" /\ rtcp' = "running")
        /\ strays' = strays \/ ("starting" \in strays /\ strays' \subseteq strays \cup {"running"})
    BY <1>2 DEF RtcpStarts, seqVars
  <2>2. Domains' /\ Places'
    BY <1>1, <2>1 DEF SessionInv, Domains, Places, Whole, Gone, InLoop
  <2>3. Replies' /\ Leaks'
    BY <1>1, <2>1 DEF SessionInv, Replies, Leaks
  <2> QED BY <2>2, <2>3 DEF SessionInv
<1>3. ASSUME NEW starter \in BOOLEAN, Packet(starter) PROVE SessionInv'
  <2>1. /\ rtcp' = rtcp /\ strays' = strays
        /\ client' = client \/ (client \in Alive /\ client' \in Alive)
    BY <1>3 DEF Packet, Alive, Streaming
  <2>2. streamSeq' \in Nat
    BY <1>3, TalkerAssumption DEF Packet, SessionInv, Domains
  <2>3. Domains' /\ Places' /\ Leaks'
    BY <1>1, <2>1, <2>2
    DEF SessionInv, Domains, Places, Leaks, Whole, Gone, InLoop, Alive, Streaming
  <2>4. Replies'
    BY <1>1, <2>1 DEF SessionInv, Replies
  <2> QED BY <2>3, <2>4 DEF SessionInv
<1> QED BY <1>2, <1>3

(* The invariant is inductive.                                             *)
LEMMA SessionStep == SessionInv /\ [Next]_vars => SessionInv'
<1> SUFFICES ASSUME SessionInv, [Next]_vars PROVE SessionInv'
  OBVIOUS
<1>1. CASE UNCHANGED vars \/ HangUp \/ \E r \in Requests : Ask(r)
  BY <1>1, OutsideSteps
<1>2. CASE TalkerStep
  BY <1>2, ReceivingSteps, PlainRequests, SetupRequests, FailingRequests, TeardownRequest,
     ReplyingSteps, PlayStep, TeardownSteps DEF TalkerStep
<1>3. CASE RtcpStarts \/ \E starter \in BOOLEAN : Packet(starter)
  BY <1>3, OtherThreads
<1> QED BY <1>1, <1>2, <1>3 DEF Next

(* What each place of the loop of start_thread knows of the socket, the    *)
(* client, the session, the RTCP thread and the reply, whatever is asked,  *)
(* SETUP again and again included, and what a second SETUP leaves behind.  *)
THEOREM SessionInvariant == Spec => []SessionInv
<1>1. Init => SessionInv
  BY SessionInit
<1>2. SessionInv /\ [Next]_vars => SessionInv'
  BY SessionStep
<1> QED BY <1>1, <1>2, PTL DEF Spec

(* The assertion of the RTCP thread (rtcp.cpp:109) holds for the thread of *)
(* the Parser teardown() knows, which it ends before it deletes the client; *)
(* and for one a later SETUP replaced (rtsp_talker.cpp:211) until then.    *)
THEOREM RtcpThreadHasClient == Spec => []RtcpHasClient
<1>1. SessionInv => RtcpHasClient
  <2> SUFFICES ASSUME SessionInv PROVE RtcpHasClient
    OBVIOUS
  <2>1. rtcp = "running" => client \in Alive
    BY DEF SessionInv, Places
  <2>2. "running" \in strays => session > 1 /\ client # "none"
    BY DEF SessionInv, Domains, Leaks
  <2> QED BY <2>1, <2>2 DEF SessionInv, Domains, RtcpHasClient
<1> QED BY <1>1, SessionInvariant, PTL

(* A connection that goes on has all that SETUP makes, or nothing of it.   *)
THEOREM SetupIsWhole == Spec => []SetupWhole
<1>1. SessionInv => SetupWhole
  BY DEF SessionInv, Places, Whole, InLoop, SetupWhole
<1> QED BY <1>1, SessionInvariant, PTL

(* However a connection ends, it ends torn down, but for the threads that  *)
(* more than one SETUP leaves behind and one killed before it ran.         *)
THEOREM EndsTornDown == Spec => []TornDown
<1>1. SessionInv => TornDown
  BY DEF SessionInv, Places, Leaks, Gone, TornDown
<1> QED BY <1>1, SessionInvariant, PTL

(* Only PLAY, its reply sent, makes packets flow to a client.              *)
LEMMA StreamingBegins ==
  ASSUME SessionInv, [Next]_vars, client' \in Streaming, client \notin Streaming
  PROVE  /\ method = "PLAY"
         /\ reply.cseq = cseq /\ reply.ok
         /\ announced # NoSeq
<1>1. CASE PlayClient
  <2>1. pc = "play"
    BY <1>1 DEF PlayClient
  <2> QED BY <2>1 DEF SessionInv, Replies
<1>2. CASE TalkerStep /\ ~PlayClient
  <2>1. client' \in {client, "STOP", "deleted"}
    BY <1>2
    DEF TalkerStep, Receive, Overflow, Reset, TakeRtcp, ParseFails, Options, Describe,
        SetupRefused, SetupTcp, SetupTcpFails, SetupUdp, SetupUdpFails, DescribeFails, AddClient, Play, Teardown, SendReply,
        ReplyFails, SendRefusal, KillRtcp, NoClient, DeleteClient, Close, talkVars
  <2> QED BY <2>1 DEF Streaming
<1>3. CASE UNCHANGED vars \/ HangUp \/ (\E r \in Requests : Ask(r)) \/ RtcpStarts
  BY <1>3 DEF vars, HangUp, Ask, RtcpStarts, talkVars
<1>4. ASSUME NEW starter \in BOOLEAN, Packet(starter) PROVE FALSE
  BY <1>4 DEF Packet, Streaming
<1> QED BY <1>1, <1>2, <1>3, <1>4 DEF Next

(* PlayAfterReply, for any requests and however sends fail.                *)
THEOREM PacketsFollowReply == Spec => PlayAfterReply
<1>1. SessionInv /\ [Next]_vars
        => [ client' \in Streaming /\ client \notin Streaming
               => /\ method = "PLAY"
                  /\ reply.cseq = cseq /\ reply.ok
                  /\ announced # NoSeq ]_vars
  BY StreamingBegins
<1> QED BY <1>1, SessionInvariant, PTL DEF Spec, PlayAfterReply
===============================================================================
