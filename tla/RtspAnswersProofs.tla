--------------------------- MODULE RtspAnswersProofs --------------------------
(***************************************************************************)
(* Theorems about the requests of one RTSP connection (RtspTalker) on      *)
(* their way through the receive buffer: the types, and that the           *)
(* connection keeps the promise of RtspDialogue, for every set of requests,*)
(* every size of the buffer and any number of requests.                    *)
(***************************************************************************)
EXTENDS RtspTalkerProofs, SequenceTheorems, WellFoundedInduction

(* A set of natural numbers has a least element.                           *)
LEMMA LeastElement ==
  ASSUME NEW T, T \subseteq Nat, T # {}
  PROVE  \E x \in T : \A y \in T : x <= y
<1>1. PICK x \in T : \A y \in T : ~(<< y, x >> \in OpToRel(<, Nat))
  BY WFMin, NatLessThanWellFounded, Zenon
<1>2. ASSUME NEW y \in T PROVE x <= y
  <2>1. ~(y < x)
    BY <1>1 DEF OpToRel
  <2> QED BY <2>1
<1> QED BY <1>2

(* The length of a complete message is a place in the buffer, the first at *)
(* which a message ends.                                                   *)
LEMMA MessageIsThere ==
  ASSUME NEW b \in Seq(Piece), Complete(b)
  PROVE  /\ MessageLength(b) \in 1 .. Len(b) /\ MessageLength(b) \in MessageEnds(b)
         /\ \A j \in MessageEnds(b) : MessageLength(b) <= j
<1>1. MessageEnds(b) \subseteq 1 .. Len(b)
  BY DEF MessageEnds
<1>2. MessageEnds(b) \subseteq Nat /\ MessageEnds(b) # {}
  BY <1>1 DEF Complete
<1>3. \E i \in MessageEnds(b) : \A j \in MessageEnds(b) : i <= j
  BY <1>2, LeastElement
<1>4. MessageLength(b) \in MessageEnds(b) /\ \A j \in MessageEnds(b) : MessageLength(b) <= j
  BY <1>3 DEF MessageLength
<1> QED BY <1>1, <1>4

(* What is left of the buffer once a message is taken out.                 *)
LEMMA RestOfBuffer ==
  ASSUME NEW b \in Seq(Piece), Complete(b)
  PROVE  /\ Rest(b) \in Seq(Piece)
         /\ Len(Rest(b)) = Len(b) - MessageLength(b)
         /\ \A i \in 1 .. Len(Rest(b)) : Rest(b)[i] = b[MessageLength(b) + i]
<1> DEFINE m == MessageLength(b)
<1>1. m \in 1 .. Len(b) /\ Len(b) \in Nat
  BY MessageIsThere
<1> HIDE DEF m
<1>2. \A i \in m + 1 .. Len(b) : b[i] \in Piece
  BY <1>1
<1>3. /\ SubSeq(b, m + 1, Len(b)) \in Seq(Piece)
      /\ Len(SubSeq(b, m + 1, Len(b))) = IF m + 1 <= Len(b) THEN Len(b) - (m + 1) + 1 ELSE 0
      /\ \A i \in 1 .. Len(b) - (m + 1) + 1 : SubSeq(b, m + 1, Len(b))[i] = b[(m + 1) + i - 1]
  BY <1>1, <1>2, SubSeqProperties
<1>4. Rest(b) = SubSeq(b, m + 1, Len(b))
  BY DEF Rest, m
<1>5. Len(Rest(b)) = Len(b) - m
  BY <1>1, <1>3, <1>4
<1>6. ASSUME NEW i \in 1 .. Len(Rest(b)) PROVE Rest(b)[i] = b[m + i]
  <2>1. i \in 1 .. Len(b) - (m + 1) + 1 /\ (m + 1) + i - 1 = m + i
    BY <1>1, <1>5
  <2> QED BY <1>3, <1>4, <2>1
<1> QED BY <1>3, <1>4, <1>5, <1>6 DEF m

(* Two pieces are the same part of the same request, damaged or not.       *)
Like(p, q) == p.n = q.n /\ p.part = q.part /\ p.request = q.request

(* Whether or not its first byte was written over, what is left is the     *)
(* buffer without the message.                                             *)
LEMMA LeftInBuffer ==
  ASSUME NEW b \in Seq(Piece), Complete(b), NEW t \in {Rest(b), Cut(Rest(b))}
  PROVE  /\ t \in Seq(Piece)
         /\ Len(t) = Len(b) - MessageLength(b)
         /\ \A i \in 1 .. Len(t) : /\ Like(t[i], b[MessageLength(b) + i])
                                   /\ 1 < i => t[i] = b[MessageLength(b) + i]
<1> DEFINE s == Rest(b)
<1>1. /\ s \in Seq(Piece) /\ Len(s) = Len(b) - MessageLength(b) /\ Len(s) \in Nat
      /\ \A i \in 1 .. Len(s) : s[i] = b[MessageLength(b) + i]
  BY RestOfBuffer
<1>2. t \in {s, Cut(s)}
  OBVIOUS
<1> HIDE DEF s
<1>3. /\ t \in Seq(Piece) /\ Len(t) = Len(s)
      /\ \A i \in 1 .. Len(t) : Like(t[i], s[i]) /\ (1 < i => t[i] = s[i])
  <2>1. CASE t = s \/ s = << >>
    BY <1>1, <1>2, <2>1 DEF Cut, Like
  <2>2. CASE t = Cut(s) /\ s # << >>
    <3> DEFINE c == [s[1] EXCEPT !.cut = TRUE]
    <3>1. 1 \in 1 .. Len(s)
      BY <1>1, <2>2, EmptySeq
    <3>2. s[1] \in Piece
      BY <1>1, <3>1, ElementOfSeq
    <3>3. c \in Piece /\ Like(c, s[1])
      BY <3>2 DEF Piece, Like
    <3>4. t = [s EXCEPT ![1] = c]
      BY <2>2 DEF Cut
    <3> HIDE DEF c
    <3>5. t \in Seq(Piece) /\ Len(t) = Len(s)
          /\ \A i \in 1 .. Len(s) : t[i] = IF i = 1 THEN c ELSE s[i]
      BY <1>1, <3>1, <3>3, <3>4
    <3> QED BY <3>3, <3>5 DEF Like
  <2> QED BY <1>2, <2>1, <2>2
<1> QED BY <1>1, <1>3

(* The pieces of a request, in order, all with its number.                 *)
LEMMA PiecesOfRequest ==
  ASSUME NEW r \in Requests, NEW n \in 0 .. MaxRequests
  PROVE  /\ Pieces(r, n) \in Seq(Piece)
         /\ Len(Pieces(r, n)) = r.size /\ r.size \in Nat
         /\ \A k \in 1 .. r.size : /\ Pieces(r, n)[k].n = n
                                   /\ Pieces(r, n)[k].part = k
                                   /\ Pieces(r, n)[k].request = r
                                   /\ ~Pieces(r, n)[k].cut
<1>1. r.size \in Nat
  BY TalkerAssumption DEF RequestRecord
<1>2. \A k \in 1 .. r.size : [request |-> r, n |-> n, part |-> k, cut |-> FALSE] \in Piece
  BY DEF Piece
<1> QED BY <1>1, <1>2, IsASeq DEF Pieces

(* A request that ends in an exception leaves the queues as they are, and  *)
(* no reply.                                                               *)
LEMMA Throwing ==
  ASSUME DescribeFails \/ SetupTcpFails \/ SetupUdpFails
  PROVE  /\ pc = "read" /\ pc' = "kill" /\ method' = "TEARDOWN" /\ Complete(buffer)
         /\ ~Garbled(buffer) /\ cseq' = buffer[1].n /\ \E m : state' = NextState(state, m)
         /\ source' \in {source, TRUE} /\ clientSeq' \in {clientSeq, 0}
         /\ UNCHANGED << inbox, up, asked, buffer, out, wireVars, socket, streamSeq >>
<1>1. \E r \in Requests : Throws(r)
  BY DEF DescribeFails, SetupTcpFails, SetupUdpFails
<1>2. /\ source' \in {source, TRUE} /\ clientSeq' \in {clientSeq, 0}
      /\ UNCHANGED << socket, streamSeq >>
  BY DEF DescribeFails, SetupTcpFails, SetupUdpFails, AddClient, talkVars, seqVars
<1> QED BY <1>1, <1>2 DEF Throws, Reads, AfterException, peerVars

--------------------------------------------------------------------------------
(* Types                                                                   *)

QueueTypes ==
  /\ inbox \in Seq(Piece) /\ Len(inbox) <= InFlight
  /\ buffer \in Seq(Piece) /\ Len(buffer) <= Capacity
  /\ asked \in 0 .. MaxRequests

(* recv() moves pieces from one queue to the other and loses none.         *)
LEMMA ReceiveMoves ==
  ASSUME QueueTypes, NEW k \in 1 .. InFlight, Receive(k)
  PROVE  /\ QueueTypes'
         /\ Len(inbox') = Len(inbox) - k /\ Len(buffer') = Len(buffer) + k
         /\ \A i \in 1 .. Len(inbox') : inbox'[i] = inbox[k + i]
         /\ \A i \in 1 .. Len(buffer') :
              buffer'[i] = IF i <= Len(buffer) THEN buffer[i] ELSE inbox[i - Len(buffer)]
<1>1. /\ Len(inbox) \in Nat /\ Len(buffer) \in Nat /\ Capacity \in Nat /\ InFlight \in Nat
      /\ inbox \in Seq(Piece) /\ buffer \in Seq(Piece)
  BY TalkerAssumption DEF QueueTypes
<1>2. /\ k \in Int /\ 1 <= k /\ k <= Capacity - Len(buffer) /\ k <= Len(inbox)
      /\ buffer' = buffer \o SubSeq(inbox, 1, k)
      /\ inbox' = SubSeq(inbox, k + 1, Len(inbox))
      /\ asked' = asked
  BY DEF Receive, Room
<1>3. /\ SubSeq(inbox, 1, k) \in Seq(Piece)
      /\ Len(SubSeq(inbox, 1, k)) = k
      /\ \A i \in 1 .. k : SubSeq(inbox, 1, k)[i] = inbox[i]
  <2>1. \A i \in 1 .. k : inbox[i] \in Piece
    BY <1>1, <1>2
  <2>2. /\ SubSeq(inbox, 1, k) \in Seq(Piece)
        /\ Len(SubSeq(inbox, 1, k)) = IF 1 <= k THEN k - 1 + 1 ELSE 0
        /\ \A i \in 1 .. k - 1 + 1 : SubSeq(inbox, 1, k)[i] = inbox[1 + i - 1]
    BY <1>2, <2>1, SubSeqProperties
  <2> QED BY <1>2, <2>2
<1>4. /\ inbox' \in Seq(Piece)
      /\ Len(inbox') = Len(inbox) - k
      /\ \A i \in 1 .. Len(inbox') : inbox'[i] = inbox[k + i]
  <2>1. \A i \in k + 1 .. Len(inbox) : inbox[i] \in Piece
    BY <1>1, <1>2
  <2>2. /\ inbox' \in Seq(Piece)
        /\ Len(inbox') = IF k + 1 <= Len(inbox) THEN Len(inbox) - (k + 1) + 1 ELSE 0
        /\ \A i \in 1 .. Len(inbox) - (k + 1) + 1 : inbox'[i] = inbox[(k + 1) + i - 1]
    BY <1>1, <1>2, <2>1, SubSeqProperties
  <2>3. Len(inbox') = Len(inbox) - k
    BY <1>1, <1>2, <2>2
  <2>4. ASSUME NEW i \in 1 .. Len(inbox') PROVE inbox'[i] = inbox[k + i]
    <3>1. i \in 1 .. Len(inbox) - (k + 1) + 1 /\ (k + 1) + i - 1 = k + i
      BY <1>1, <1>2, <2>3
    <3> QED BY <2>2, <3>1
  <2> QED BY <2>2, <2>3, <2>4
<1>5. /\ buffer' \in Seq(Piece)
      /\ Len(buffer') = Len(buffer) + k
      /\ \A i \in 1 .. Len(buffer') :
           buffer'[i] = IF i <= Len(buffer) THEN buffer[i] ELSE inbox[i - Len(buffer)]
  <2>1. /\ buffer' \in Seq(Piece)
        /\ Len(buffer') = Len(buffer) + k
        /\ \A i \in 1 .. Len(buffer) + k :
             buffer'[i] = IF i <= Len(buffer) THEN buffer[i]
                          ELSE SubSeq(inbox, 1, k)[i - Len(buffer)]
    BY <1>1, <1>2, <1>3, ConcatProperties
  <2>2. ASSUME NEW i \in 1 .. Len(buffer) + k, ~(i <= Len(buffer))
        PROVE  SubSeq(inbox, 1, k)[i - Len(buffer)] = inbox[i - Len(buffer)]
    <3>1. i - Len(buffer) \in 1 .. k
      BY <1>1, <1>2, <2>2
    <3> QED BY <1>3, <3>1
  <2> QED BY <2>1, <2>2
<1>6. QueueTypes'
  <2>1. Len(inbox) <= InFlight /\ asked \in 0 .. MaxRequests
    BY DEF QueueTypes
  <2>2. Len(inbox') <= InFlight /\ Len(buffer') <= Capacity
    BY <1>1, <1>2, <1>4, <1>5, <2>1
  <2> QED BY <1>2, <1>4, <1>5, <2>1, <2>2, Zenon DEF QueueTypes
<1> QED BY <1>4, <1>5, <1>6

(* A request adds its pieces behind those on their way.                    *)
LEMMA AskAdds ==
  ASSUME QueueTypes, NEW r \in Requests, Ask(r)
  PROVE  /\ QueueTypes'
         /\ r.size \in Nat /\ Len(inbox') = Len(inbox) + r.size
         /\ asked' = IF r.method = "RTCP" THEN asked ELSE asked + 1
         /\ \A i \in 1 .. Len(inbox) : inbox'[i] = inbox[i]
         /\ \A k \in 1 .. r.size : /\ inbox'[Len(inbox) + k].n = asked'
                                   /\ inbox'[Len(inbox) + k].part = k
                                   /\ inbox'[Len(inbox) + k].request = r
                                   /\ ~inbox'[Len(inbox) + k].cut
<1>1. /\ inbox \in Seq(Piece) /\ Len(inbox) \in Nat /\ asked \in 0 .. MaxRequests
      /\ MaxRequests \in Nat /\ InFlight \in Nat
  BY TalkerAssumption DEF QueueTypes
<1>2. /\ Len(inbox) + r.size <= InFlight
      /\ asked' = IF r.method = "RTCP" THEN asked ELSE asked + 1
      /\ asked' \in 0 .. MaxRequests
      /\ inbox' = inbox \o Pieces(r, asked')
      /\ buffer' = buffer
  BY <1>1 DEF Ask
<1> DEFINE new == Pieces(r, asked')
<1>3. /\ new \in Seq(Piece) /\ Len(new) = r.size /\ r.size \in Nat
      /\ \A k \in 1 .. r.size : /\ new[k].n = asked' /\ new[k].part = k
                                /\ new[k].request = r /\ ~new[k].cut
  <2>1. asked' \in 0 .. MaxRequests
    BY <1>2
  <2> QED BY <2>1, PiecesOfRequest
<1>a. inbox' = inbox \o new
  BY <1>2
<1> HIDE DEF new
<1>4. /\ inbox' \in Seq(Piece)
      /\ Len(inbox') = Len(inbox) + r.size
      /\ \A i \in 1 .. Len(inbox) + r.size :
           inbox'[i] = IF i <= Len(inbox) THEN inbox[i] ELSE new[i - Len(inbox)]
  <2>1. /\ inbox \o new \in Seq(Piece)
        /\ Len(inbox \o new) = Len(inbox) + Len(new)
        /\ \A i \in 1 .. Len(inbox) + Len(new) :
             (inbox \o new)[i] = IF i <= Len(inbox) THEN inbox[i] ELSE new[i - Len(inbox)]
    BY <1>1, <1>3, ConcatProperties
  <2> QED BY <1>3, <1>a, <2>1, Zenon
<1>5. \A i \in 1 .. Len(inbox) : inbox'[i] = inbox[i]
  BY <1>1, <1>3, <1>4
<1>6. ASSUME NEW k \in 1 .. r.size PROVE inbox'[Len(inbox) + k] = new[k]
  <2>1. /\ Len(inbox) + k \in 1 .. Len(inbox) + r.size
        /\ ~(Len(inbox) + k <= Len(inbox))
        /\ (Len(inbox) + k) - Len(inbox) = k
    BY <1>1, <1>3
  <2> QED BY <1>4, <2>1
<1>7. QueueTypes'
  BY <1>1, <1>2, <1>3, <1>4 DEF QueueTypes
<1> QED BY <1>2, <1>3, <1>4, <1>5, <1>6, <1>7

(* A message taken out leaves the rest of the buffer, in its order.        *)
LEMMA TakeMessage ==
  ASSUME QueueTypes, Complete(buffer), buffer' \in {Rest(buffer), Cut(Rest(buffer))},
         UNCHANGED << inbox, asked >>
  PROVE  QueueTypes'
<1>1. /\ buffer' \in Seq(Piece)
      /\ Len(buffer') = Len(buffer) - MessageLength(buffer)
      /\ MessageLength(buffer) \in 1 .. Len(buffer)
      /\ Len(buffer) \in Nat /\ Len(buffer) <= Capacity /\ Capacity \in Nat
  BY LeftInBuffer, MessageIsThere, TalkerAssumption DEF QueueTypes
<1> QED BY <1>1 DEF QueueTypes

(* What each step of the Talker does to the queues.                        *)
LEMMA QueueSteps ==
  ASSUME [Next]_vars
  PROVE  \/ \E r \in Requests : Ask(r)
         \/ \E k \in 1 .. InFlight : Receive(k)
         \/ UNCHANGED << inbox, buffer, asked >>
         \/ UNCHANGED << buffer, asked >> /\ inbox' = << >> /\ ~up'
         \/ UNCHANGED << inbox, asked >> /\ buffer' = << >>
         \/ /\ Complete(buffer) /\ buffer' \in {Rest(buffer), Cut(Rest(buffer))}
            /\ UNCHANGED << inbox, asked >>
<1>1. CASE UNCHANGED vars \/ HangUp
  BY <1>1 DEF vars, peerVars, HangUp
<1>t. CASE DescribeFails \/ SetupTcpFails \/ SetupUdpFails
  BY <1>t, Throwing
<1>2. CASE Overflow \/ Reset \/ ParseFails \/ SetupRefused
  BY <1>2 DEF peerVars, Overflow, Reset, ParseFails, SetupRefused, Parses, Reads, Rejects
<1>3. CASE TakeRtcp \/ Options \/ SetupTcp \/ SetupUdp
  BY <1>3 DEF peerVars, TakeRtcp, Options, SetupTcp, SetupUdp, Parses, Reads, Accepts
<1>4. CASE Describe \/ Play \/ Teardown
  BY <1>4 DEF peerVars, Describe, Play, Teardown, Parses, Reads, Accepts, Rejects
<1>5. CASE SendReply \/ ReplyFails \/ PlayClient \/ SendRefusal
  BY <1>5 DEF peerVars, SendReply, ReplyFails, PlayClient, SendRefusal
<1>6. CASE KillRtcp \/ NoClient \/ DeleteClient \/ Close \/ RtcpStarts
  BY <1>6 DEF peerVars, KillRtcp, NoClient, DeleteClient, Close, RtcpStarts
<1>7. CASE \E starter \in BOOLEAN : Packet(starter)
  BY <1>7 DEF peerVars, Packet
<1> QED BY <1>1, <1>t, <1>2, <1>3, <1>4, <1>5, <1>6, <1>7 DEF Next, TalkerStep

(* The queues keep their types, and the buffer its bound.                  *)
LEMMA QueueStep == QueueTypes /\ [Next]_vars => QueueTypes'
<1> SUFFICES ASSUME QueueTypes, [Next]_vars PROVE QueueTypes'
  OBVIOUS
<1>1. CASE \E r \in Requests : Ask(r)
  BY <1>1, AskAdds
<1>2. CASE \E k \in 1 .. InFlight : Receive(k)
  BY <1>2, ReceiveMoves
<1>3. CASE UNCHANGED << inbox, buffer, asked >>
  BY <1>3 DEF QueueTypes
<1>4. CASE \/ UNCHANGED << buffer, asked >> /\ inbox' = << >> /\ ~up'
           \/ UNCHANGED << inbox, asked >> /\ buffer' = << >>
  <2>1. << >> \in Seq(Piece) /\ Len(<< >>) = 0
    BY EmptySeq
  <2>2. 0 <= InFlight /\ 0 <= Capacity
    BY TalkerAssumption
  <2> QED BY <1>4, <2>1, <2>2 DEF QueueTypes
<1>5. CASE /\ Complete(buffer) /\ buffer' \in {Rest(buffer), Cut(Rest(buffer))}
           /\ UNCHANGED << inbox, asked >>
  BY <1>5, TakeMessage
<1> QED BY <1>1, <1>2, <1>3, <1>4, <1>5, QueueSteps

FlagTypes ==
  /\ up \in BOOLEAN /\ socket \in BOOLEAN /\ source \in BOOLEAN
  /\ method \in Methods \ {"RTCP"}
  /\ state \in {"INIT", "READY", "PLAYING"}

NumberTypes ==
  /\ cseq \in 0 .. MaxRequests /\ answered \in 0 .. MaxRequests
  /\ out \in [cseq : 0 .. MaxRequests, ok : BOOLEAN, seq : -1 .. SeqModulus - 1]
  /\ reply \in [cseq : 0 .. MaxRequests, ok : BOOLEAN, odd : BOOLEAN]
  /\ streamSeq \in 0 .. SeqModulus - 1 /\ clientSeq \in 0 .. SeqModulus - 1
  /\ announced \in -1 .. SeqModulus - 1 /\ first \in -1 .. SeqModulus - 1

(* The request parsed is one of those a client may send.                   *)
LEMMA RequestsRead ==
  ASSUME NEW r \in Requests
  PROVE  r.method \in Methods /\ r.known \in BOOLEAN
BY TalkerAssumption DEF RequestRecord

(* The states of the parser are three.                                     *)
LEMMA NextStateType ==
  ASSUME NEW s \in {"INIT", "READY", "PLAYING"}, NEW m
  PROVE  NextState(s, m) \in {"INIT", "READY", "PLAYING"}
BY DEF NextState

(* What has a small type keeps it.                                         *)
LEMMA FlagStep == FlagTypes /\ QueueTypes /\ [Next]_vars => FlagTypes'
<1> SUFFICES ASSUME FlagTypes, QueueTypes, [Next]_vars PROVE FlagTypes'
  OBVIOUS
<1> USE DEF FlagTypes
<1>1. CASE UNCHANGED vars \/ HangUp \/ \E r \in Requests : Ask(r)
  BY <1>1 DEF vars, peerVars, talkVars, parserVars, HangUp, Ask
<1>2. CASE (\E k \in 1 .. InFlight : Receive(k)) \/ Overflow \/ Reset \/ TakeRtcp
  BY <1>2 DEF peerVars, talkVars, parserVars, Receive, Overflow, Reset, TakeRtcp, Methods
<1>3. CASE ParseFails
  <2>1. UNCHANGED << up, socket, source, method >>
    BY <1>3 DEF ParseFails, peerVars, talkVars
  <2>2. \/ state' = state
        \/ state' \in {NextState(state, buffer[1].request.method)} \cup {state}
        \/ state' \in {NextState(state, buffer[1].request.method)} \cup {}
    BY <1>3 DEF ParseFails
  <2>3. NextState(state, buffer[1].request.method) \in {"INIT", "READY", "PLAYING"}
    BY NextStateType
  <2> QED BY <2>1, <2>2, <2>3
<1>4. ASSUME NEW r \in Requests, Parses(r), source' = source \/ source' = (source \/ r.known),
             UNCHANGED socket, r.method # "RTCP"
      PROVE  FlagTypes'
  <2>1. up' = up /\ state' = NextState(state, r.method) /\ method' = r.method
    BY <1>4 DEF Parses, Reads, peerVars
  <2>2. source' \in BOOLEAN
    BY <1>4, RequestsRead, Zenon
  <2>3. state' \in {"INIT", "READY", "PLAYING"}
    BY <2>1, NextStateType
  <2>4. method' \in Methods \ {"RTCP"}
    BY <1>4, <2>1, RequestsRead
  <2> QED BY <1>4, <2>1, <2>2, <2>3, <2>4
<1>5. CASE Options \/ SetupRefused \/ SetupTcp \/ SetupUdp
  BY <1>4, <1>5 DEF Options, SetupRefused, SetupTcp, SetupUdp, AddClient, talkVars
<1>6. CASE Describe \/ Play \/ Teardown
  BY <1>4, <1>6 DEF Describe, Play, Teardown, talkVars
<1>7. CASE DescribeFails \/ SetupTcpFails \/ SetupUdpFails
  <2>1. UNCHANGED << up, socket >> /\ source' \in {source, TRUE} /\ method' = "TEARDOWN"
        /\ \E m : state' = NextState(state, m)
    BY <1>7, Throwing
  <2>2. state' \in {"INIT", "READY", "PLAYING"}
    BY <2>1, NextStateType
  <2> QED BY <2>1, <2>2 DEF Methods
<1>8. CASE SendReply \/ ReplyFails \/ PlayClient \/ SendRefusal
  BY <1>8 DEF SendReply, ReplyFails, PlayClient, SendRefusal, peerVars, talkVars,
     parserVars, Methods
<1>9. CASE KillRtcp \/ NoClient \/ DeleteClient \/ Close \/ RtcpStarts
           \/ \E starter \in BOOLEAN : Packet(starter)
  BY <1>9 DEF KillRtcp, NoClient, DeleteClient, Close, RtcpStarts, Packet, peerVars, talkVars,
     parserVars
<1> QED BY <1>1, <1>2, <1>3, <1>5, <1>6, <1>7, <1>8, <1>9 DEF Next, TalkerStep

(* The pieces at both ends of a message have a CSeq.                       *)
LEMMA MessageNumbers ==
  ASSUME QueueTypes, Complete(buffer)
  PROVE  buffer[1].n \in 0 .. MaxRequests /\ buffer[MessageLength(buffer)].n \in 0 .. MaxRequests
<1>1. /\ buffer \in Seq(Piece) /\ Len(buffer) \in Nat
      /\ MessageLength(buffer) \in 1 .. Len(buffer)
  BY MessageIsThere DEF QueueTypes
<1>2. 1 \in 1 .. Len(buffer)
  BY <1>1
<1>3. buffer[1] \in Piece /\ buffer[MessageLength(buffer)] \in Piece
  BY <1>1, <1>2, ElementOfSeq
<1> QED BY <1>3 DEF Piece

(* CSeqs and sequence numbers stay in their ranges.                        *)
LEMMA NumberStep == NumberTypes /\ QueueTypes /\ [Next]_vars => NumberTypes'
<1> SUFFICES ASSUME NumberTypes, QueueTypes, [Next]_vars PROVE NumberTypes'
  OBVIOUS
<1> DEFINE Out == [cseq : 0 .. MaxRequests, ok : BOOLEAN, seq : -1 .. SeqModulus - 1]
<1>0. MaxRequests \in Nat /\ SeqModulus \in Nat \ {0} /\ NoSeq \in -1 .. SeqModulus - 1
  BY TalkerAssumption DEF NoSeq
<1>1. CASE UNCHANGED << cseq, out, wireVars, seqVars >>
  BY <1>1 DEF NumberTypes, wireVars, seqVars
<1>2. ASSUME UNCHANGED << wireVars, streamSeq >>, clientSeq' \in {clientSeq, 0},
             cseq' \in 0 .. MaxRequests,
             NEW ok \in BOOLEAN, NEW seq \in {NoSeq, streamSeq},
             out' = out \/ out' = [cseq |-> cseq', ok |-> ok, seq |-> seq]
      PROVE  NumberTypes'
  <2>1. seq \in -1 .. SeqModulus - 1
    BY <1>0, <1>2 DEF NumberTypes
  <2>2. [cseq |-> cseq', ok |-> ok, seq |-> seq] \in Out
    BY <1>2, <2>1
  <2>3. out' \in Out
    BY <1>2, <2>2 DEF NumberTypes
  <2>4. clientSeq' \in 0 .. SeqModulus - 1
    BY <1>0, <1>2 DEF NumberTypes
  <2> QED BY <1>2, <2>3, <2>4 DEF NumberTypes, wireVars
<1>t. CASE DescribeFails \/ SetupTcpFails \/ SetupUdpFails
  <2>1. cseq' \in 0 .. MaxRequests
    BY <1>t, Throwing, MessageNumbers
  <2> QED BY <1>t, <1>2, <2>1, Throwing
<1>3. CASE Overflow \/ ParseFails \/ Options \/ Describe \/ SetupRefused
             \/ SetupTcp \/ SetupUdp \/ Play \/ Teardown
  <2>1. UNCHANGED << wireVars, streamSeq >> /\ clientSeq' \in {clientSeq, 0}
    BY <1>3 DEF Overflow, ParseFails, Options, Describe, SetupRefused,
       SetupTcp, SetupUdp, Play, Teardown, Parses, Reads, AddClient, seqVars
  <2>2. cseq \in 0 .. MaxRequests
    BY DEF NumberTypes
  <2>3. cseq' \in 0 .. MaxRequests
    <3>1. CASE Overflow
      BY <2>2, <3>1 DEF Overflow, parserVars
    <3>2. CASE ~Overflow
      <4>1. Complete(buffer)
        BY <1>3, <3>2 DEF ParseFails, Options, Describe, SetupRefused,
           SetupTcp, SetupUdp, Play, Teardown, Parses, Reads
      <4>2. cseq' \in {0, buffer[1].n, buffer[MessageLength(buffer)].n}
        BY <1>3, <3>2 DEF ParseFails, Options, Describe, SetupRefused,
           SetupTcp, SetupUdp, Play, Teardown, Parses, Reads
      <4> QED BY <1>0, <4>1, <4>2, MessageNumbers
    <3> QED BY <3>1, <3>2
  <2>4. \/ out' = out
        \/ out' = [cseq |-> cseq', ok |-> TRUE, seq |-> NoSeq]
        \/ out' = [cseq |-> cseq', ok |-> FALSE, seq |-> NoSeq]
        \/ out' = [cseq |-> cseq', ok |-> TRUE, seq |-> streamSeq]
    <3>1. CASE Overflow \/ ParseFails \/ SetupRefused
      BY <3>1 DEF Overflow, ParseFails, SetupRefused, Rejects, parserVars
    <3>2. CASE Options \/ SetupTcp \/ SetupUdp
      BY <3>2 DEF Options, SetupTcp, SetupUdp, Accepts
    <3>3. CASE Describe \/ Play \/ Teardown
      BY <3>3 DEF Describe, Play, Teardown, Accepts, Rejects
    <3> QED BY <1>3, <3>1, <3>2, <3>3
  <2> QED BY <1>2, <2>1, <2>3, <2>4
<1>4. CASE SendReply \/ ReplyFails \/ SendRefusal
  <2>1. UNCHANGED << cseq, seqVars >> /\ out' = Nothing
    BY <1>4 DEF SendReply, ReplyFails, SendRefusal, Sends, CannotSend, parserVars
  <2>2. out' \in Out
    BY <1>0, <2>1 DEF Nothing
  <2>3. out.cseq \in 0 .. MaxRequests /\ out.seq \in -1 .. SeqModulus - 1
    BY DEF NumberTypes
  <2>4. answered' \in {answered, out.cseq}
        /\ announced' \in {announced, out.seq} /\ first' \in {first, NoSeq}
    BY <1>4 DEF SendReply, ReplyFails, SendRefusal, Sends, CannotSend
  <2>5. reply' \in [cseq : 0 .. MaxRequests, ok : BOOLEAN, odd : BOOLEAN]
    <3>1. out.ok \in BOOLEAN /\ (~reply.odd) \in BOOLEAN
      BY Zenon DEF NumberTypes
    <3>2. reply' = reply \/ reply' = Reply(out.cseq, out.ok, ~reply.odd)
      BY <1>4 DEF SendReply, ReplyFails, SendRefusal, Sends, CannotSend
    <3>3. Reply(out.cseq, out.ok, ~reply.odd)
            \in [cseq : 0 .. MaxRequests, ok : BOOLEAN, odd : BOOLEAN]
      BY <2>3, <3>1, Zenon DEF Reply
    <3> QED BY <3>2, <3>3 DEF NumberTypes
  <2> QED BY <1>0, <2>1, <2>2, <2>3, <2>4, <2>5 DEF NumberTypes, seqVars
<1>5. ASSUME NEW starter \in BOOLEAN, Packet(starter) PROVE NumberTypes'
  <2>1. UNCHANGED << cseq, out, reply, answered, announced >>
    BY <1>5 DEF Packet, parserVars
  <2>2. \A n \in Nat : (n + 1) % SeqModulus \in 0 .. SeqModulus - 1
    BY <1>0
  <2>3. /\ streamSeq' = (streamSeq + 1) % SeqModulus
        /\ clientSeq' \in {clientSeq, (clientSeq + 1) % SeqModulus}
        /\ first' \in {first, clientSeq}
    BY <1>5 DEF Packet
  <2>4. streamSeq \in Nat /\ clientSeq \in Nat
    BY <1>0 DEF NumberTypes
  <2> QED BY <1>0, <2>1, <2>2, <2>3, <2>4 DEF NumberTypes
<1>6. CASE UNCHANGED vars \/ HangUp \/ (\E r \in Requests : Ask(r)) \/ Reset \/ TakeRtcp
             \/ (\E k \in 1 .. InFlight : Receive(k))
  BY <1>1, <1>6 DEF vars, parserVars, HangUp, Ask, Reset, TakeRtcp, Receive
<1>7. CASE PlayClient \/ KillRtcp \/ NoClient \/ DeleteClient \/ Close \/ RtcpStarts
  BY <1>1, <1>7 DEF parserVars, PlayClient, KillRtcp, NoClient, DeleteClient, Close, RtcpStarts
<1> QED BY <1>t, <1>3, <1>4, <1>5, <1>6, <1>7 DEF Next, TalkerStep

(* Everything has its type, and the receive buffer its bound, whatever     *)
(* comes in and however recv() cuts it.                                    *)
THEOREM TypeCorrect == Spec => []TypeOK
<1> DEFINE Types == SessionInv /\ QueueTypes /\ FlagTypes /\ NumberTypes
<1>1. Init => Types
  <2> SUFFICES ASSUME Init PROVE Types
    OBVIOUS
  <2>1. << >> \in Seq(Piece) /\ Len(<< >>) = 0
    BY EmptySeq
  <2>2. QueueTypes
    BY <2>1, TalkerAssumption DEF Init, QueueTypes
  <2>3. FlagTypes
    BY DEF Init, FlagTypes, Methods
  <2>4. NumberTypes
    BY TalkerAssumption DEF Init, NumberTypes, Nothing, Reply, NoSeq
  <2> QED BY <2>2, <2>3, <2>4, SessionInit
<1>2. Types /\ [Next]_vars => Types'
  BY SessionStep, QueueStep, FlagStep, NumberStep
<1>3. Types => TypeOK
  <2> SUFFICES ASSUME Types PROVE TypeOK
    OBVIOUS
  <2>1. out \in [cseq : 0 .. MaxRequests, ok : BOOLEAN, seq : Int]
    BY TalkerAssumption DEF NumberTypes
  <2>2. pc \in {"receive", "read", "send", "play", "refuse", "kill", "delete", "close", "exited"}
    BY DEF SessionInv, Domains, InLoop, InTeardown
  <2> QED BY <2>1, <2>2 DEF SessionInv, Domains, QueueTypes, FlagTypes, NumberTypes, TypeOK
<1> QED BY <1>1, <1>2, <1>3, PTL DEF Spec

--------------------------------------------------------------------------------
(* Order                                                                   *)

(* Piece p may follow request n: it is of n or a later one, and no new     *)
(* request if it is of n.                                                  *)
Beyond(n, p) == n <= p.n /\ (Begins(p) => n < p.n)

InOrder ==
  /\ \A i, j \in 1 .. Len(Line) : i < j => Beyond(Line[i].n, Line[j])
  /\ \A i \in 1 .. Len(Line) : Line[i].n <= asked

Unanswered(n) == \A i \in 1 .. Len(Line) : Beyond(n, Line[i])

(* The same of what is still on its way: the buffer is to be thrown away.  *)
UnansweredAfter(n) == \A i \in Len(buffer) + 1 .. Len(Line) : Beyond(n, Line[i])

(* Who has been answered, place by place: nothing in line begins a request *)
(* answered already.                                                       *)
Turns ==
  /\ cseq <= asked /\ answered <= asked
  /\ pc \in {"receive", "read", "play"} => cseq \in {0, answered} /\ Unanswered(answered)
  /\ pc = "send" /\ socket => answered < cseq /\ Unanswered(cseq)
  /\ pc = "refuse" => /\ out.cseq = cseq /\ out.ok = FALSE
                      /\ cseq = 0 \/ answered <= cseq
                      /\ UnansweredAfter(answered) /\ UnansweredAfter(cseq)

(* The inductive invariant of the connection.                              *)
AnswerInv ==
  SessionInv /\ QueueTypes /\ FlagTypes /\ NumberTypes /\ InOrder /\ Turns

(* What a piece is made of.                                                *)
LEMMA PieceParts ==
  ASSUME NEW p \in Piece
  PROVE  /\ p.n \in Nat /\ p.part \in Nat /\ 1 <= p.part /\ p.cut \in BOOLEAN
         /\ p.request \in Requests /\ p.request.size \in Nat /\ 1 <= p.request.size
<1>1. /\ p.n \in 0 .. MaxRequests /\ p.part \in Nat \ {0} /\ p.cut \in BOOLEAN
      /\ p.request \in Requests
  BY DEF Piece
<1>2. p.request.size \in Nat \ {0}
  BY <1>1, TalkerAssumption DEF RequestRecord
<1> QED BY <1>1, <1>2, TalkerAssumption

(* The line is the buffer and what is on its way behind it.                *)
LEMMA Joined ==
  ASSUME NEW b \in Seq(Piece), NEW t \in Seq(Piece), NEW line, line = b \o t
  PROVE  /\ Len(b) \in Nat /\ Len(t) \in Nat /\ Len(line) \in Nat
         /\ Len(line) = Len(b) + Len(t)
         /\ \A i \in 1 .. Len(line) :
              /\ line[i] = IF i <= Len(b) THEN b[i] ELSE t[i - Len(b)]
              /\ line[i].n \in Nat
<1>1. Len(b) \in Nat /\ Len(t) \in Nat
  OBVIOUS
<1>2. /\ b \o t \in Seq(Piece)
      /\ Len(b \o t) = Len(b) + Len(t)
      /\ \A i \in 1 .. Len(b) + Len(t) : (b \o t)[i] = IF i <= Len(b) THEN b[i] ELSE t[i - Len(b)]
  BY ConcatProperties
<1>3. /\ line \in Seq(Piece)
      /\ Len(line) = Len(b) + Len(t)
      /\ \A i \in 1 .. Len(line) : line[i] = IF i <= Len(b) THEN b[i] ELSE t[i - Len(b)]
  BY <1>2, Zenon
<1>4. ASSUME NEW i \in 1 .. Len(line) PROVE line[i].n \in Nat
  <2>1. line[i] \in Piece
    BY <1>3, ElementOfSeq
  <2> QED BY <2>1, PieceParts
<1> QED BY <1>1, <1>3, <1>4

LEMMA LineIs ==
  ASSUME QueueTypes
  PROVE  /\ Len(buffer) \in Nat /\ Len(inbox) \in Nat /\ Len(Line) \in Nat
         /\ Len(Line) = Len(buffer) + Len(inbox)
         /\ \A i \in 1 .. Len(Line) :
              /\ Line[i] = IF i <= Len(buffer) THEN buffer[i] ELSE inbox[i - Len(buffer)]
              /\ Line[i].n \in Nat
BY Joined, Zenon DEF QueueTypes, Line

(* The same after a step.                                                  *)
LEMMA LineBecomes ==
  ASSUME QueueTypes'
  PROVE  /\ Len(buffer') \in Nat /\ Len(inbox') \in Nat /\ Len(Line') \in Nat
         /\ Len(Line') = Len(buffer') + Len(inbox')
         /\ \A i \in 1 .. Len(Line') :
              /\ Line'[i] = IF i <= Len(buffer') THEN buffer'[i] ELSE inbox'[i - Len(buffer')]
              /\ Line'[i].n \in Nat
BY Joined, Zenon DEF QueueTypes, Line

(* A step that asks nothing: what is left of the line, without the first d *)
(* pieces, keeps its order, and only its first piece may be damaged; as    *)
(* long as the client is there, nothing is lost at the other end.          *)
MovesUp(d) ==
  /\ d \in Nat /\ asked' = asked
  /\ Len(Line') <= Len(Line) - d
  /\ up' => Len(Line') = Len(Line) - d
  /\ \A i \in 1 .. Len(Line') : /\ Like(Line'[i], Line[d + i])
                                /\ 1 < i => Line'[i] = Line[d + i]

(* Both kinds of step that lose pieces for good.                           *)
LEMMA LosingMoves ==
  ASSUME QueueTypes, QueueTypes', asked' = asked,
         \/ UNCHANGED << buffer, inbox >>
         \/ UNCHANGED buffer /\ inbox' = << >> /\ ~up'
         \/ UNCHANGED inbox /\ buffer' = << >>
  PROVE  \/ MovesUp(0)
         \/ MovesUp(Len(buffer)) /\ buffer' = << >>
<1>0. Len(<< >>) = 0
  BY EmptySeq
<1>1. CASE UNCHANGED << buffer, inbox >>
  <2>1. Line' = Line
    BY <1>1 DEF Line
  <2>2. \A i \in 1 .. Len(Line') : i \in Nat /\ 0 + i = i
    BY LineBecomes
  <2> QED BY <2>1, <2>2, LineIs DEF MovesUp, Like
<1>2. CASE UNCHANGED buffer /\ inbox' = << >> /\ ~up'
  <2>1. Len(Line') = Len(buffer) /\ Len(Line') <= Len(Line) - 0
    BY <1>0, <1>2, LineIs, LineBecomes
  <2>2. ASSUME NEW i \in 1 .. Len(Line') PROVE Line'[i] = Line[0 + i]
    <3>1. /\ i \in 1 .. Len(Line) /\ i <= Len(buffer) /\ 0 + i = i /\ i <= Len(buffer')
      BY <1>2, <2>1, LineIs
    <3>2. Line'[i] = buffer'[i] /\ Line[i] = buffer[i]
      BY <3>1, LineIs, LineBecomes
    <3> QED BY <1>2, <3>1, <3>2
  <2> QED BY <1>2, <2>1, <2>2 DEF MovesUp, Like
<1>3. CASE UNCHANGED inbox /\ buffer' = << >>
  <2>1. Len(Line') = Len(inbox) /\ Len(Line') <= Len(Line) - Len(buffer) /\ Len(buffer') = 0
    BY <1>0, <1>3, LineIs, LineBecomes
  <2>2. ASSUME NEW i \in 1 .. Len(Line') PROVE Line'[i] = Line[Len(buffer) + i]
    <3>1. /\ Len(buffer) + i \in 1 .. Len(Line) /\ ~(Len(buffer) + i <= Len(buffer))
          /\ (Len(buffer) + i) - Len(buffer) = i
          /\ ~(i <= Len(buffer')) /\ i - Len(buffer') = i
      BY <2>1, LineIs
    <3>2. Line'[i] = inbox'[i] /\ Line[Len(buffer) + i] = inbox[i]
      BY <3>1, LineIs, LineBecomes
    <3> QED BY <1>3, <3>2
  <2> QED BY <1>3, <2>1, <2>2, LineIs DEF MovesUp, Like
<1> QED BY <1>1, <1>2, <1>3

(* recv() leaves the line as it is.                                        *)
LEMMA ReceivingMoves ==
  ASSUME QueueTypes, NEW k \in 1 .. InFlight, Receive(k)
  PROVE  MovesUp(0)
<1>1. /\ QueueTypes'
      /\ Len(inbox') = Len(inbox) - k /\ Len(buffer') = Len(buffer) + k
      /\ \A i \in 1 .. Len(inbox') : inbox'[i] = inbox[k + i]
      /\ \A i \in 1 .. Len(buffer') :
           buffer'[i] = IF i <= Len(buffer) THEN buffer[i] ELSE inbox[i - Len(buffer)]
  BY ReceiveMoves
<1>2. k \in Nat /\ 1 <= k /\ asked' = asked
  BY TalkerAssumption DEF Receive
<1>3. Len(Line') = Len(Line)
  BY <1>1, <1>2, LineIs, LineBecomes
<1>4. ASSUME NEW i \in 1 .. Len(Line') PROVE Line'[i] = Line[0 + i]
  <2>0. i \in 1 .. Len(Line) /\ i \in Int /\ 0 + i = i
    BY <1>3, LineIs
  <2>1. CASE i <= Len(buffer')
    <3>1. i \in 1 .. Len(buffer')
      BY <2>0, <2>1, <1>1, LineBecomes
    <3>2. Line'[i] = buffer'[i]
      BY <2>1, <1>1, LineBecomes
    <3> QED BY <1>1, <2>0, <3>1, <3>2, LineIs
  <2>2. CASE ~(i <= Len(buffer'))
    <3>1. /\ ~(i <= Len(buffer)) /\ i - Len(buffer') \in 1 .. Len(inbox')
          /\ k + (i - Len(buffer')) = i - Len(buffer)
      BY <1>1, <1>2, <1>3, <2>0, <2>2, LineIs, LineBecomes
    <3>2. Line'[i] = inbox'[i - Len(buffer')] /\ Line[i] = inbox[i - Len(buffer)]
      BY <1>1, <2>0, <2>2, <3>1, LineIs, LineBecomes
    <3> QED BY <1>1, <2>0, <3>1, <3>2
  <2> QED BY <2>1, <2>2
<1> QED BY <1>2, <1>3, <1>4, LineIs DEF MovesUp, Like

(* A message taken out was the first of the line.                          *)
LEMMA TakingMoves ==
  ASSUME QueueTypes, QueueTypes', Complete(buffer),
         buffer' \in {Rest(buffer), Cut(Rest(buffer))}, UNCHANGED << inbox, asked >>
  PROVE  MovesUp(MessageLength(buffer))
<1> DEFINE m == MessageLength(buffer)
<1>1. /\ Len(buffer') = Len(buffer) - m /\ m \in 1 .. Len(buffer)
      /\ \A i \in 1 .. Len(buffer') : /\ Like(buffer'[i], buffer[m + i])
                                      /\ 1 < i => buffer'[i] = buffer[m + i]
  BY LeftInBuffer, MessageIsThere DEF QueueTypes
<1> HIDE DEF m
<1>2. m \in Nat /\ 1 <= m /\ m <= Len(buffer) /\ Len(Line') = Len(Line) - m
  BY <1>1, LineIs, LineBecomes
<1>3. ASSUME NEW i \in 1 .. Len(Line')
      PROVE  Like(Line'[i], Line[m + i]) /\ (1 < i => Line'[i] = Line[m + i])
  <2>0. m + i \in 1 .. Len(Line) /\ i \in Int
    BY <1>2, LineIs
  <2>1. CASE i <= Len(buffer')
    <3>1. i \in 1 .. Len(buffer') /\ m + i <= Len(buffer)
      BY <1>1, <1>2, <2>0, <2>1, LineIs, LineBecomes
    <3>2. Line'[i] = buffer'[i] /\ Line[m + i] = buffer[m + i]
      BY <2>0, <2>1, <3>1, LineIs, LineBecomes
    <3> QED BY <1>1, <3>1, <3>2
  <2>2. CASE ~(i <= Len(buffer'))
    <3>1. ~(m + i <= Len(buffer)) /\ i - Len(buffer') = (m + i) - Len(buffer)
      BY <1>1, <1>2, <2>0, <2>2, LineIs, LineBecomes
    <3>2. Line'[i] = inbox'[i - Len(buffer')] /\ Line[m + i] = inbox[(m + i) - Len(buffer)]
      BY <2>0, <2>2, <3>1, LineIs, LineBecomes
    <3> QED BY <3>1, <3>2 DEF Like
  <2> QED BY <2>1, <2>2
<1>4. m \in Nat /\ Len(Line') = Len(Line) - m /\ Len(Line) - m \in Int /\ asked' = asked
  BY <1>2, LineIs
<1> QED BY <1>3, <1>4 DEF MovesUp, m

(* What moves up keeps its order, and is as unanswered as it was.          *)
LEMMA MovingKeepsOrder ==
  ASSUME QueueTypes, QueueTypes', NEW d, MovesUp(d)
  PROVE  /\ InOrder => InOrder'
         /\ \A n : Unanswered(n) => \A i \in 1 .. Len(Line') : Beyond(n, Line'[i])
<1>0. /\ d \in Nat /\ Len(Line) \in Nat /\ Len(Line') \in Nat
      /\ Len(Line') <= Len(Line) - d /\ asked' = asked
      /\ \A i \in 1 .. Len(Line') : Like(Line'[i], Line[d + i])
  BY LineIs, LineBecomes DEF MovesUp, Like
<1>1. \A i \in 1 .. Len(Line') : d + i \in 1 .. Len(Line)
  BY <1>0
<1>2. ASSUME InOrder PROVE InOrder'
  <2>1. ASSUME NEW i \in 1 .. Len(Line'), NEW j \in 1 .. Len(Line'), i < j
        PROVE  Beyond(Line'[i].n, Line'[j])
    <3>1. d + i < d + j /\ d + i \in 1 .. Len(Line) /\ d + j \in 1 .. Len(Line)
      BY <1>0, <1>1, <2>1
    <3>2. Beyond(Line[d + i].n, Line[d + j])
      BY <1>2, <3>1 DEF InOrder
    <3> QED BY <1>0, <3>2 DEF Beyond, Begins, Like
  <2>2. \A i \in 1 .. Len(Line') : Line'[i].n <= asked'
    BY <1>0, <1>1, <1>2 DEF InOrder, Like
  <2> QED BY <2>1, <2>2 DEF InOrder
<1>3. ASSUME NEW n, Unanswered(n), NEW i \in 1 .. Len(Line')
      PROVE  Beyond(n, Line'[i])
  BY <1>0, <1>1, <1>3 DEF Unanswered, Beyond, Begins, Like
<1> QED BY <1>2, <1>3

(* A request joins the line at its end.                                    *)
LEMMA AskJoins ==
  ASSUME QueueTypes, NEW r \in Requests, Ask(r)
  PROVE  /\ Len(Line) \in Nat /\ Len(Line') \in Nat /\ Len(Line) <= Len(Line')
         /\ Len(Line') = Len(Line) + r.size /\ r.size \in Nat
         /\ \A i \in 1 .. Len(Line) : Line'[i] = Line[i]
         /\ \A i \in Len(Line) + 1 .. Len(Line') :
              /\ Line'[i].n = asked' /\ Line'[i].part = i - Len(Line)
              /\ Line'[i].request = r /\ ~Line'[i].cut
              /\ Begins(Line'[i]) => i = Len(Line) + 1 /\ asked' = asked + 1
<1>1. /\ QueueTypes'
      /\ r.size \in Nat /\ Len(inbox') = Len(inbox) + r.size
      /\ asked' = IF r.method = "RTCP" THEN asked ELSE asked + 1
      /\ \A i \in 1 .. Len(inbox) : inbox'[i] = inbox[i]
      /\ \A k \in 1 .. r.size : /\ inbox'[Len(inbox) + k].n = asked'
                                /\ inbox'[Len(inbox) + k].part = k
                                /\ inbox'[Len(inbox) + k].request = r
                                /\ ~inbox'[Len(inbox) + k].cut
  BY AskAdds
<1>2. buffer' = buffer
  BY DEF Ask
<1>3. Len(Line') = Len(Line) + r.size
  <2>1. /\ Len(inbox') = Len(inbox) + r.size /\ r.size \in Nat
        /\ Len(buffer') = Len(buffer) /\ Len(buffer) \in Nat /\ Len(inbox) \in Nat
    BY <1>1, <1>2, LineIs
  <2>2. Len(Line) = Len(buffer) + Len(inbox) /\ Len(Line') = Len(buffer') + Len(inbox')
    BY <1>1, LineIs, LineBecomes
  <2>3. Len(Line') = Len(buffer) + (Len(inbox) + r.size)
    BY <2>1, <2>2, Zenon
  <2> DEFINE b == Len(buffer)
             t == Len(inbox)
             x == Len(Line)
             y == Len(Line')
             n == r.size
  <2>4. b \in Nat /\ t \in Nat /\ n \in Nat /\ x = b + t /\ y = b + (t + n)
    BY <2>1, <2>2, <2>3, Zenon
  <2> HIDE DEF b, t, x, y, n
  <2>5. y = x + n
    BY <2>4
  <2> QED BY <2>5 DEF x, y, n
<1>4. ASSUME NEW i \in 1 .. Len(Line) PROVE Line'[i] = Line[i]
  <2>0. i \in 1 .. Len(Line') /\ i \in Int
    BY <1>1, <1>3, LineIs
  <2>1. CASE i <= Len(buffer)
    <3>1. Line[i] = buffer[i]
      BY <2>1, LineIs
    <3>2. Line'[i] = buffer'[i]
      BY <1>1, <1>2, <2>0, <2>1, LineBecomes
    <3> QED BY <1>2, <3>1, <3>2
  <2>2. CASE ~(i <= Len(buffer))
    <3>1. i - Len(buffer) \in 1 .. Len(inbox)
      BY <2>0, <2>2, LineIs
    <3>2. Line'[i] = inbox'[i - Len(buffer)] /\ Line[i] = inbox[i - Len(buffer)]
      BY <1>1, <1>2, <2>0, <2>2, LineIs, LineBecomes
    <3> QED BY <1>1, <3>1, <3>2
  <2> QED BY <2>1, <2>2
<1>5. ASSUME NEW i \in Len(Line) + 1 .. Len(Line')
      PROVE  /\ Line'[i].n = asked' /\ Line'[i].part = i - Len(Line)
             /\ Line'[i].request = r /\ ~Line'[i].cut
             /\ Begins(Line'[i]) => i = Len(Line) + 1 /\ asked' = asked + 1
  <2> DEFINE k == i - Len(Line)
  <2>a. /\ Len(Line') = Len(Line) + r.size /\ r.size \in Nat /\ Len(buffer') = Len(buffer)
        /\ Len(buffer) \in Nat /\ Len(inbox) \in Nat /\ Len(Line) = Len(buffer) + Len(inbox)
    BY <1>1, <1>2, <1>3, LineIs
  <2>1. /\ k \in 1 .. r.size /\ i = Len(Line) + k /\ k = i - Len(Line) /\ i \in 1 .. Len(Line') /\ ~(i <= Len(buffer'))
        /\ i - Len(buffer') = Len(inbox) + k
    BY <2>a
  <2> HIDE DEF k
  <2>2. Line'[i] = inbox'[Len(inbox) + k]
    BY <1>1, <2>1, LineBecomes
  <2>3. Line'[i].n = asked' /\ Line'[i].part = k /\ Line'[i].request = r /\ ~Line'[i].cut
    BY <1>1, <2>1, <2>2
  <2> QED BY <1>1, <2>1, <2>3 DEF Begins
<1> QED BY <1>1, <1>3, <1>4, <1>5, LineIs, LineBecomes

LEMMA AskKeepsOrder ==
  ASSUME QueueTypes, InOrder, asked \in Nat, NEW r \in Requests, Ask(r)
  PROVE  /\ InOrder'
         /\ \A n \in Nat : n <= asked /\ Unanswered(n)
                             => \A i \in 1 .. Len(Line') : Beyond(n, Line'[i])
         /\ \A n \in Nat : n <= asked /\ UnansweredAfter(n)
                             => \A i \in Len(buffer) + 1 .. Len(Line') : Beyond(n, Line'[i])
<1>0. asked' \in Nat /\ asked <= asked'
  BY DEF Ask
<1>1. /\ Len(Line) \in Nat /\ Len(Line') \in Nat /\ Len(Line) <= Len(Line')
      /\ \A i \in 1 .. Len(Line) : Line'[i] = Line[i] /\ Line[i].n \in Nat
      /\ \A i \in Len(Line) + 1 .. Len(Line') :
           /\ Line'[i].n = asked'
           /\ Begins(Line'[i]) => i = Len(Line) + 1 /\ asked' = asked + 1
  BY AskJoins, LineIs
<1>2. ASSUME NEW n \in Nat, n <= asked, NEW i \in Len(Line) + 1 .. Len(Line')
      PROVE  Beyond(n, Line'[i])
  BY <1>0, <1>1, <1>2 DEF Beyond
<1>3. \A i \in 1 .. Len(Line') : Line'[i].n <= asked'
  <2> TAKE i \in 1 .. Len(Line')
  <2>1. CASE i <= Len(Line)
    <3>1. i \in 1 .. Len(Line)
      BY <1>1, <2>1
    <3> QED BY <1>0, <1>1, <3>1 DEF InOrder
  <2>2. CASE ~(i <= Len(Line))
    <3>1. i \in Len(Line) + 1 .. Len(Line')
      BY <1>1, <2>2
    <3> QED BY <1>0, <1>1, <3>1
  <2> QED BY <2>1, <2>2
<1>4. ASSUME NEW i \in 1 .. Len(Line'), NEW j \in 1 .. Len(Line'), i < j
      PROVE  Beyond(Line'[i].n, Line'[j])
  <2>1. CASE j <= Len(Line)
    <3>1. i \in 1 .. Len(Line) /\ j \in 1 .. Len(Line)
      BY <1>1, <1>4, <2>1
    <3> QED BY <1>1, <1>4, <3>1 DEF InOrder
  <2>2. CASE i <= Len(Line) /\ ~(j <= Len(Line))
    <3>1. i \in 1 .. Len(Line) /\ j \in Len(Line) + 1 .. Len(Line')
      BY <1>1, <2>2
    <3>2. Line'[i].n \in Nat /\ Line'[i].n <= asked
      BY <1>1, <3>1 DEF InOrder
    <3> QED BY <1>2, <3>1, <3>2
  <2>3. CASE ~(i <= Len(Line)) /\ ~(j <= Len(Line))
    <3>1. /\ i \in Len(Line) + 1 .. Len(Line') /\ j \in Len(Line) + 1 .. Len(Line')
          /\ j # Len(Line) + 1
      BY <1>1, <1>4, <2>3
    <3>2. Line'[i].n = asked' /\ Line'[j].n = asked' /\ ~Begins(Line'[j])
      BY <1>1, <3>1
    <3> QED BY <1>0, <3>2 DEF Beyond
  <2> QED BY <2>1, <2>2, <2>3
<1>5. ASSUME NEW n \in Nat, n <= asked, Unanswered(n), NEW i \in 1 .. Len(Line')
      PROVE  Beyond(n, Line'[i])
  <2>1. i \in 1 .. Len(Line) \/ i \in Len(Line) + 1 .. Len(Line')
    BY <1>1
  <2> QED BY <1>1, <1>2, <1>5, <2>1 DEF Unanswered
<1>6. ASSUME NEW n \in Nat, n <= asked, UnansweredAfter(n),
             NEW i \in Len(buffer) + 1 .. Len(Line')
      PROVE  Beyond(n, Line'[i])
  <2>1. \/ i \in 1 .. Len(Line) /\ i \in Len(buffer) + 1 .. Len(Line)
        \/ i \in Len(Line) + 1 .. Len(Line')
    BY <1>1, LineIs
  <2> QED BY <1>1, <1>2, <1>6, <2>1 DEF UnansweredAfter
<1>7. InOrder'
  BY <1>3, <1>4 DEF InOrder
<1> QED BY <1>5, <1>6, <1>7

(* The steps that ask nothing move the line up.                            *)
LEMMA LineSteps ==
  ASSUME QueueTypes, [Next]_vars
  PROVE  (\E r \in Requests : Ask(r)) \/ (\E d : MovesUp(d))
<1>0. QueueTypes'
  BY QueueStep
<1>1. CASE \E k \in 1 .. InFlight : Receive(k)
  BY <1>1, ReceivingMoves
<1>2. CASE UNCHANGED << inbox, buffer, asked >>
  BY <1>0, <1>2, LosingMoves
<1>3. CASE UNCHANGED << buffer, asked >> /\ inbox' = << >> /\ ~up'
  BY <1>0, <1>3, LosingMoves
<1>4. CASE UNCHANGED << inbox, asked >> /\ buffer' = << >>
  BY <1>0, <1>4, LosingMoves
<1>5. CASE /\ Complete(buffer) /\ buffer' \in {Rest(buffer), Cut(Rest(buffer))}
           /\ UNCHANGED << inbox, asked >>
  BY <1>0, <1>5, TakingMoves
<1> QED BY <1>1, <1>2, <1>3, <1>4, <1>5, QueueSteps

(* The line stays in the order of asking.                                  *)
LEMMA OrderStep ==
  ASSUME QueueTypes, InOrder, [Next]_vars
  PROVE  InOrder'
<1>1. QueueTypes' /\ asked \in Nat
  BY QueueStep, TalkerAssumption DEF QueueTypes
<1>2. CASE \E r \in Requests : Ask(r)
  BY <1>1, <1>2, AskKeepsOrder
<1>3. CASE \E d : MovesUp(d)
  BY <1>1, <1>3, MovingKeepsOrder
<1> QED BY <1>2, <1>3, LineSteps

(* What has not been answered stays unanswered while nothing is answered.  *)
LEMMA StaysUnanswered ==
  ASSUME QueueTypes, InOrder, [Next]_vars, NEW n \in Nat, n <= asked, Unanswered(n)
  PROVE  \A i \in 1 .. Len(Line') : Beyond(n, Line'[i])
<1>1. QueueTypes' /\ asked \in Nat
  BY QueueStep, TalkerAssumption DEF QueueTypes
<1>2. CASE \E r \in Requests : Ask(r)
  BY <1>1, <1>2, AskKeepsOrder
<1>3. CASE \E d : MovesUp(d)
  BY <1>1, <1>3, MovingKeepsOrder
<1> QED BY <1>2, <1>3, LineSteps

(* What is behind a message in the line is beyond the request it ends, and *)
(* so is what is behind a whole request.                                   *)
LEMMA BehindMessage ==
  ASSUME QueueTypes, InOrder, Complete(buffer)
  PROVE  LET last == buffer[MessageLength(buffer)].n
         IN  /\ last \in Nat /\ last <= asked
             /\ MessageLength(buffer) \in 1 .. Len(Line)
             /\ Line[MessageLength(buffer)] = buffer[MessageLength(buffer)]
             /\ \A i \in MessageLength(buffer) + 1 .. Len(Line) : Beyond(last, Line[i])
             /\ UnansweredAfter(last)
<1> DEFINE m == MessageLength(buffer)
<1>1. m \in 1 .. Len(buffer)
  BY MessageIsThere DEF QueueTypes
<1> HIDE DEF m
<1>2. m \in 1 .. Len(Line) /\ Line[m] = buffer[m] /\ buffer[m].n \in Nat
  BY <1>1, LineIs
<1>3. \A i \in m + 1 .. Len(Line) : Beyond(buffer[m].n, Line[i])
  <2>1. \A i \in m + 1 .. Len(Line) : i \in 1 .. Len(Line) /\ m < i
    BY <1>1, LineIs
  <2> QED BY <1>2, <2>1 DEF InOrder
<1>4. UnansweredAfter(buffer[m].n)
  <2>1. \A i \in Len(buffer) + 1 .. Len(Line) : i \in m + 1 .. Len(Line)
    BY <1>1, LineIs
  <2> QED BY <1>3, <2>1 DEF UnansweredAfter
<1>5. buffer[m].n <= asked
  BY <1>2 DEF InOrder
<1> QED BY <1>2, <1>3, <1>4, <1>5 DEF m

LEMMA Numbers ==
  ASSUME AnswerInv
  PROVE  /\ asked \in Nat /\ cseq \in Nat /\ answered \in Nat
         /\ cseq <= asked /\ answered <= asked
<1>1. QueueTypes /\ NumberTypes /\ Turns
  BY DEF AnswerInv
<1>2. asked \in Nat /\ cseq \in Nat /\ answered \in Nat
  BY <1>1, TalkerAssumption DEF QueueTypes, NumberTypes
<1>3. cseq <= asked /\ answered <= asked
  BY <1>1 DEF Turns
<1> QED BY <1>2, <1>3

LEMMA AskedGrows ==
  ASSUME AnswerInv, [Next]_vars
  PROVE  asked' \in Nat /\ asked <= asked'
<1>1. asked' = asked \/ asked' = asked + 1
  <2>1. CASE \E r \in Requests : Ask(r)
    BY <2>1 DEF Ask
  <2>2. CASE \E k \in 1 .. InFlight : Receive(k)
    BY <2>2 DEF Receive
  <2> QED BY <2>1, <2>2, QueueSteps
<1> QED BY <1>1, Numbers

(* A step that answers nothing, parses nothing and does not move pc out of *)
(* the loop leaves the turns as they are.                                  *)
LEMMA QuietTurns ==
  ASSUME AnswerInv, [Next]_vars, UNCHANGED << cseq, answered, out, socket >>,
         \/ pc' = pc /\ pc # "refuse"
         \/ pc \in {"receive", "read", "play"} /\ pc' \in {"receive", "read", "play"}
  PROVE  Turns'
<1>1. /\ asked \in Nat /\ cseq \in Nat /\ answered \in Nat
      /\ cseq <= asked /\ answered <= asked
      /\ cseq' = cseq /\ answered' = answered /\ cseq <= asked' /\ answered <= asked'
  BY Numbers, AskedGrows
<1>2. CASE pc' \in {"receive", "read", "play"}
  <2>1. cseq \in {0, answered} /\ Unanswered(answered)
    BY <1>2 DEF AnswerInv, Turns
  <2>2. \A i \in 1 .. Len(Line') : Beyond(answered, Line'[i])
    BY <1>1, <2>1, StaysUnanswered DEF AnswerInv
  <2> QED BY <1>1, <1>2, <2>1, <2>2 DEF Turns, Unanswered
<1>3. CASE pc' = "send" /\ socket
  <2>1. answered < cseq /\ Unanswered(cseq)
    BY <1>3 DEF AnswerInv, Turns
  <2>2. \A i \in 1 .. Len(Line') : Beyond(cseq, Line'[i])
    BY <1>1, <2>1, StaysUnanswered DEF AnswerInv
  <2> QED BY <1>1, <1>3, <2>1, <2>2 DEF Turns, Unanswered
<1>4. CASE pc' \notin {"receive", "read", "play", "refuse"} /\ ~(pc' = "send" /\ socket)
  BY <1>1, <1>4 DEF Turns
<1> QED BY <1>2, <1>3, <1>4

(* The same of the steps of others while an error reply is to be sent.     *)
LEMMA RefusalTurns ==
  ASSUME AnswerInv, pc = "refuse",
         UNCHANGED << pc, cseq, answered, out, socket, buffer >>,
         \/ \E r \in Requests : Ask(r)
         \/ inbox' = inbox /\ asked' = asked
         \/ inbox' = << >> /\ asked' = asked /\ ~up'
  PROVE  Turns'
<1>1. /\ asked \in Nat /\ cseq \in Nat /\ answered \in Nat
      /\ cseq <= asked /\ answered <= asked
      /\ cseq' = cseq /\ answered' = answered /\ cseq <= asked' /\ answered <= asked'
  <2>1. asked' = asked \/ asked' = asked + 1
    BY DEF Ask
  <2> QED BY <2>1, Numbers
<1>2. /\ out.cseq = cseq /\ out.ok = FALSE
      /\ cseq = 0 \/ answered <= cseq
      /\ UnansweredAfter(answered) /\ UnansweredAfter(cseq)
  BY DEF AnswerInv, Turns
<1>3. ASSUME NEW n \in Nat, n <= asked, UnansweredAfter(n)
      PROVE  \A i \in Len(buffer) + 1 .. Len(Line') : Beyond(n, Line'[i])
  <2>1. CASE \E r \in Requests : Ask(r)
    BY <1>1, <1>3, <2>1, AskKeepsOrder DEF AnswerInv
  <2>2. CASE \/ inbox' = inbox /\ asked' = asked
             \/ inbox' = << >> /\ asked' = asked /\ ~up'
    <3>1. QueueTypes'
      <4>1. << >> \in Seq(Piece) /\ Len(<< >>) = 0 /\ 0 <= InFlight
        BY EmptySeq, TalkerAssumption
      <4> QED BY <2>2, <4>1 DEF AnswerInv, QueueTypes
    <3>2. MovesUp(0)
      BY <2>2, <3>1, LosingMoves, LineIs, EmptySeq DEF AnswerInv, MovesUp
    <3>3. /\ Len(Line') <= Len(Line) /\ Len(Line) \in Nat /\ Len(Line') \in Nat
          /\ Len(buffer) \in Nat
          /\ \A i \in 1 .. Len(Line') : Like(Line'[i], Line[i])
      <4>1. \A i \in 1 .. Len(Line') : 0 + i = i
        OBVIOUS
      <4> QED BY <3>1, <3>2, <4>1, LineIs, LineBecomes DEF MovesUp, AnswerInv, Like
    <3>4. \A i \in Len(buffer) + 1 .. Len(Line') :
            i \in 1 .. Len(Line') /\ i \in Len(buffer) + 1 .. Len(Line)
      BY <3>3
    <3> QED BY <1>3, <3>3, <3>4 DEF UnansweredAfter, Beyond, Begins, Like
  <2> QED BY <2>1, <2>2
<1>4. /\ \A i \in Len(buffer) + 1 .. Len(Line') : Beyond(answered, Line'[i])
      /\ \A i \in Len(buffer) + 1 .. Len(Line') : Beyond(cseq, Line'[i])
  BY <1>1, <1>2, <1>3
<1> QED BY <1>1, <1>2, <1>4 DEF Turns, UnansweredAfter

(* What makes an error reply: it has the CSeq of the request it is about,  *)
(* the one before it, or none.                                             *)
LEMMA RefusingTurns ==
  ASSUME AnswerInv, pc \in {"receive", "read"},
         UNCHANGED << inbox, buffer, asked, answered >>,
         pc' = "refuse", out' = [cseq |-> cseq', ok |-> FALSE, seq |-> NoSeq],
         \/ cseq' \in {0, cseq}
         \/ Complete(buffer) /\ cseq' = buffer[MessageLength(buffer)].n
  PROVE  Turns'
<1>1. /\ asked \in Nat /\ cseq \in Nat /\ answered \in Nat
      /\ cseq <= asked /\ answered <= asked
      /\ cseq \in {0, answered} /\ Unanswered(answered)
  BY Numbers DEF AnswerInv, Turns
<1>2. Line' = Line
  BY DEF Line
<1>3. \A i \in Len(buffer) + 1 .. Len(Line) : i \in 1 .. Len(Line) /\ Line[i].n \in Nat
  BY LineIs DEF AnswerInv
<1>4. UnansweredAfter(answered)
  BY <1>1, <1>3 DEF Unanswered, UnansweredAfter
<1>5. UnansweredAfter(0)
  BY <1>1, <1>3, <1>4 DEF UnansweredAfter, Beyond
<1>6. /\ cseq' \in Nat /\ cseq' <= asked
      /\ cseq' = 0 \/ answered <= cseq'
      /\ UnansweredAfter(cseq')
  <2>1. CASE cseq' \in {0, cseq}
    BY <1>1, <1>4, <1>5, <2>1
  <2>2. CASE Complete(buffer) /\ cseq' = buffer[MessageLength(buffer)].n
    <3> DEFINE m == MessageLength(buffer)
    <3>1. /\ buffer[m].n \in Nat /\ buffer[m].n <= asked /\ m \in 1 .. Len(Line)
          /\ Line[m] = buffer[m] /\ UnansweredAfter(buffer[m].n)
      BY <2>2, BehindMessage DEF AnswerInv
    <3>2. answered <= buffer[m].n
      BY <1>1, <3>1 DEF Unanswered, Beyond
    <3> QED BY <2>2, <3>1, <3>2
  <2> QED BY <2>1, <2>2
<1> QED BY <1>1, <1>2, <1>4, <1>6 DEF Turns, UnansweredAfter

(* A request carried out is one that nobody has answered, and so is all    *)
(* that is behind it.                                                      *)
LEMMA AcceptingTurns ==
  ASSUME AnswerInv, NEW r \in Requests, Parses(r), r.method # "RTCP",
         UNCHANGED socket, Complete(buffer), buffer' = Cut(Rest(buffer)), pc' = "send"
  PROVE  Turns'
<1>1. /\ asked \in Nat /\ answered \in Nat /\ answered <= asked /\ Unanswered(answered)
      /\ QueueTypes /\ InOrder
  BY Numbers DEF AnswerInv, Turns, Parses, Reads
<1> DEFINE m == MessageLength(buffer)
<1>2. /\ cseq' = buffer[1].n /\ buffer[1].n = buffer[m].n
      /\ Begins(buffer[1])
      /\ UNCHANGED << inbox, asked, answered >>
  BY DEF Parses, Reads, Garbled, Begins, peerVars, wireVars
<1>3. /\ buffer[m].n \in Nat /\ buffer[m].n <= asked /\ m \in 1 .. Len(Line)
      /\ \A i \in m + 1 .. Len(Line) : Beyond(buffer[m].n, Line[i])
  BY <1>1, BehindMessage
<1>4. answered < cseq'
  <2>1. 1 \in 1 .. Len(Line) /\ 1 <= Len(buffer)
    BY <1>1, <1>3, LineIs, MessageIsThere DEF QueueTypes
  <2>2. Line[1] = buffer[1]
    BY <1>1, <2>1, LineIs
  <2>3. Beyond(answered, buffer[1])
    BY <1>1, <2>1, <2>2 DEF Unanswered
  <2> QED BY <1>2, <2>3 DEF Beyond
<1>5. MovesUp(m) /\ QueueTypes'
  BY <1>1, <1>2, TakeMessage, TakingMoves
<1> HIDE DEF m
<1>6. \A i \in 1 .. Len(Line') : Beyond(cseq', Line'[i])
  <2>1. /\ Len(Line) \in Nat /\ Len(Line') \in Nat /\ m \in Nat
        /\ Len(Line') <= Len(Line) - m
        /\ \A i \in 1 .. Len(Line') : Like(Line'[i], Line[m + i])
    BY <1>1, <1>5, LineIs, LineBecomes DEF MovesUp, Like
  <2>2. \A i \in 1 .. Len(Line') : m + i \in m + 1 .. Len(Line)
    BY <2>1
  <2> QED BY <1>2, <1>3, <2>1, <2>2 DEF Beyond, Begins, Like
<1> QED BY <1>1, <1>2, <1>3, <1>4, <1>6 DEF Turns, Unanswered

(* On the way out nothing more is promised.                                *)
LEMMA EndingTurns ==
  ASSUME AnswerInv, [Next]_vars, UNCHANGED answered, cseq' <= asked',
         \/ pc' \in {"kill", "delete", "close", "exited"}
         \/ pc' = "send" /\ socket' = FALSE
  PROVE  Turns'
<1>1. answered' <= asked'
  BY Numbers, AskedGrows
<1> QED BY <1>1 DEF Turns

(* A reply is the turn of the request it answers.                          *)
LEMMA ReplyingTurns ==
  ASSUME AnswerInv, SendReply
  PROVE  /\ Turns'
         /\ socket /\ answered < out.cseq /\ out.cseq \in 1 .. asked /\ out.ok = TRUE
         /\ answered' = out.cseq
<1>1. pc = "send" /\ socket /\ pc' \in {"receive", "play"}
      /\ UNCHANGED << inbox, buffer, asked, cseq >>
  BY DEF SendReply, Sends, AfterReply, peerVars, parserVars
<1>2. answered < cseq /\ Unanswered(cseq) /\ out.cseq = cseq /\ out.ok = TRUE
  BY <1>1 DEF AnswerInv, Turns, SessionInv, Replies
<1>3. answered' = cseq /\ cseq \in 1 .. asked
  BY <1>2, Numbers DEF SendReply, Sends
<1>4. Line' = Line
  BY <1>1 DEF Line
<1>5. cseq <= asked
  BY Numbers
<1>6. Turns'
  BY <1>1, <1>2, <1>3, <1>4, <1>5 DEF Turns, Unanswered
<1> QED BY <1>1, <1>2, <1>3, <1>6

(* An error reply does not go back behind a reply; what it throws away is  *)
(* never answered.                                                         *)
LEMMA ErrorTurns ==
  ASSUME AnswerInv, SendRefusal
  PROVE  /\ Turns'
         /\ out.cseq \in 0 .. asked /\ out.ok = FALSE
         /\ out.cseq = 0 \/ answered <= out.cseq
<1>1. /\ pc = "refuse" /\ pc' \in {"receive", "kill"} /\ buffer' = << >>
      /\ UNCHANGED << inbox, asked, cseq, socket >>
  BY DEF SendRefusal, peerVars, parserVars, talkVars
<1>2. /\ out.cseq = cseq /\ out.ok = FALSE
      /\ cseq = 0 \/ answered <= cseq
      /\ UnansweredAfter(answered) /\ UnansweredAfter(cseq)
  BY <1>1 DEF AnswerInv, Turns
<1>3. answered' \in {answered, cseq} /\ answered' <= asked' /\ cseq' <= asked'
  BY <1>1, <1>2, Numbers DEF SendRefusal, Sends, CannotSend
<1>4. pc' = "receive" => cseq' \in {0, answered'}
  BY <1>1, <1>2 DEF SendRefusal, Sends
<1>5. \A i \in 1 .. Len(Line') : Beyond(answered', Line'[i])
  <2>1. UnansweredAfter(answered')
    BY <1>2, <1>3
  <2>2. QueueTypes /\ QueueTypes'
    <3>1. << >> \in Seq(Piece) /\ Len(<< >>) = 0 /\ 0 <= Capacity
      BY EmptySeq, TalkerAssumption
    <3> QED BY <1>1, <3>1 DEF AnswerInv, QueueTypes
  <2>3. /\ Len(buffer') = 0 /\ Len(Line') = Len(inbox) /\ inbox' = inbox
        /\ Len(inbox) \in Nat /\ Len(buffer) \in Nat /\ Len(Line) = Len(buffer) + Len(inbox)
    BY <1>1, <2>2, LineIs, LineBecomes, EmptySeq
  <2>4. ASSUME NEW i \in 1 .. Len(Line') PROVE Line'[i] = Line[Len(buffer) + i]
    <3>1. /\ ~(i <= Len(buffer')) /\ i - Len(buffer') = i /\ i \in 1 .. Len(Line')
          /\ Len(buffer) + i \in 1 .. Len(Line) /\ ~(Len(buffer) + i <= Len(buffer))
          /\ (Len(buffer) + i) - Len(buffer) = i
      BY <2>3
    <3>2. Line'[i] = inbox'[i] /\ Line[Len(buffer) + i] = inbox[i]
      BY <2>2, <3>1, LineIs, LineBecomes
    <3> QED BY <2>3, <3>2
  <2>5. \A i \in 1 .. Len(Line') : Len(buffer) + i \in Len(buffer) + 1 .. Len(Line)
    BY <2>3
  <2> QED BY <2>1, <2>4, <2>5 DEF UnansweredAfter
<1>6. Turns'
  BY <1>1, <1>3, <1>4, <1>5 DEF Turns, Unanswered
<1>7. out.cseq \in 0 .. asked
  BY <1>2, Numbers
<1> QED BY <1>2, <1>6, <1>7

(* The CSeq of a whole request is one that was asked.                      *)
LEMMA ParsedWasAsked ==
  ASSUME AnswerInv, Complete(buffer), ~Garbled(buffer)
  PROVE  buffer[1].n <= asked
<1>1. buffer[1].n = buffer[MessageLength(buffer)].n
  BY DEF Garbled
<1> QED BY <1>1, BehindMessage DEF AnswerInv

(* Turns are kept by every step.                                           *)
LEMMA TurnsStep ==
  ASSUME AnswerInv, [Next]_vars
  PROVE  Turns'
<1>1. CASE UNCHANGED vars \/ HangUp \/ (\E r \in Requests : Ask(r)) \/ RtcpStarts
             \/ \E starter \in BOOLEAN : Packet(starter)
  <2>1. /\ UNCHANGED << pc, cseq, answered, out, socket, buffer >>
        /\ \/ \E r \in Requests : Ask(r)
           \/ inbox' = inbox /\ asked' = asked
           \/ inbox' = << >> /\ asked' = asked /\ ~up'
    BY <1>1 DEF vars, HangUp, Ask, RtcpStarts, Packet, peerVars, talkVars, parserVars, wireVars
  <2>2. CASE pc = "refuse"
    BY <2>1, <2>2, RefusalTurns
  <2>3. CASE pc # "refuse"
    BY <2>1, <2>3, QuietTurns
  <2> QED BY <2>2, <2>3
<1>2. CASE (\E k \in 1 .. InFlight : Receive(k)) \/ TakeRtcp \/ PlayClient
  <2>1. /\ UNCHANGED << cseq, answered, out, socket >>
        /\ pc \in {"receive", "read", "play"} /\ pc' \in {"receive", "read", "play"}
    BY <1>2 DEF Receive, MustReceive, TakeRtcp, PlayClient, talkVars, parserVars, wireVars
  <2> QED BY <2>1, QuietTurns
<1>3. CASE Overflow
  BY <1>3, RefusingTurns DEF Overflow, MustReceive, peerVars, parserVars, wireVars
<1>4. CASE ParseFails
  <2>1. /\ pc = "read" /\ pc' = "refuse" /\ Complete(buffer)
        /\ UNCHANGED << inbox, buffer, asked, answered >>
        /\ out' = [cseq |-> cseq', ok |-> FALSE, seq |-> NoSeq]
        /\ cseq' \in {0, buffer[MessageLength(buffer)].n}
    BY <1>4 DEF ParseFails, peerVars, wireVars
  <2>2. cseq' \in {0, cseq} \/ cseq' = buffer[MessageLength(buffer)].n
    BY <2>1
  <2> QED BY <2>1, <2>2, RefusingTurns
<1>5. ASSUME NEW r \in Requests, Parses(r), Rejects
      PROVE  Turns'
  <2>1. /\ pc = "read" /\ pc' = "refuse" /\ Complete(buffer)
        /\ UNCHANGED << inbox, buffer, asked, answered >>
        /\ out' = [cseq |-> cseq', ok |-> FALSE, seq |-> NoSeq]
        /\ cseq' = buffer[MessageLength(buffer)].n
    BY <1>5 DEF Parses, Reads, Rejects, Garbled, peerVars, wireVars
  <2> QED BY <2>1, RefusingTurns
<1>6. ASSUME NEW r \in Requests, Parses(r), NEW seq, Accepts(seq), UNCHANGED socket,
             r.method # "RTCP"
      PROVE  Turns'
  <2>1. Complete(buffer) /\ buffer' = Cut(Rest(buffer)) /\ pc' = "send"
    BY <1>6 DEF Parses, Reads, Accepts
  <2> QED BY <1>6, <2>1, AcceptingTurns
<1>7. CASE SetupRefused \/ Options \/ SetupTcp \/ SetupUdp
  BY <1>5, <1>6, <1>7 DEF SetupRefused, Options, SetupTcp, SetupUdp, AddClient, talkVars
<1>8. CASE Describe \/ Play
  BY <1>5, <1>6, <1>8 DEF Describe, Play, talkVars
<1>9. CASE Teardown
  <2>1. PICK r \in Requests :
          /\ r.method = "TEARDOWN" /\ Parses(r)
          /\ pc' = "kill" \/ Rejects
    BY <1>9 DEF Teardown
  <2>2. CASE pc' = "kill"
    <3>1. /\ Complete(buffer) /\ ~Garbled(buffer) /\ cseq' = buffer[1].n
          /\ UNCHANGED << asked, answered >>
      BY <2>1 DEF Parses, Reads, peerVars, wireVars
    <3> QED BY <2>2, <3>1, ParsedWasAsked, EndingTurns
  <2> QED BY <1>5, <2>1, <2>2
<1>10. CASE DescribeFails \/ SetupTcpFails \/ SetupUdpFails
  <2>1. /\ Complete(buffer) /\ ~Garbled(buffer) /\ cseq' = buffer[1].n
        /\ UNCHANGED << asked, answered >> /\ pc' = "kill"
    BY <1>10, Throwing DEF wireVars
  <2> QED BY <2>1, ParsedWasAsked, EndingTurns
<1>11. CASE Reset \/ ReplyFails \/ KillRtcp \/ NoClient \/ DeleteClient \/ Close
  <2>1. /\ UNCHANGED << asked, cseq, answered >>
        /\ pc' \in {"kill", "delete", "close", "exited"} \/ (pc' = "send" /\ socket' = FALSE)
    BY <1>11 DEF Reset, AfterReset, ReplyFails, CannotSend, AfterFailedSend, KillRtcp,
       NoClient, DeleteClient, Close, peerVars, parserVars, wireVars
  <2> QED BY <2>1, Numbers, EndingTurns
<1>12. CASE SendReply
  BY <1>12, ReplyingTurns
<1>13. CASE SendRefusal
  BY <1>13, ErrorTurns
<1> QED
  BY <1>1, <1>2, <1>3, <1>4, <1>7, <1>8, <1>9, <1>10, <1>11, <1>12, <1>13 DEF Next, TalkerStep

LEMMA AnswerInit == Init => AnswerInv
<1> SUFFICES ASSUME Init PROVE AnswerInv
  OBVIOUS
<1>1. Len(<< >>) = 0 /\ << >> \in Seq(Piece)
  BY EmptySeq
<1>2. QueueTypes /\ Len(inbox) = 0 /\ Len(buffer) = 0
  BY <1>1, TalkerAssumption DEF Init, QueueTypes
<1>3. Len(Line) = 0
  BY <1>2, LineIs
<1>4. InOrder
  BY <1>3 DEF InOrder
<1>5. Turns
  BY <1>3 DEF Init, Turns, Unanswered
<1>6. FlagTypes
  BY DEF Init, FlagTypes, Methods
<1>7. NumberTypes
  BY TalkerAssumption DEF Init, NumberTypes, Nothing, Reply, NoSeq
<1> QED BY <1>2, <1>4, <1>5, <1>6, <1>7, SessionInit DEF AnswerInv

LEMMA AnswerStep == AnswerInv /\ [Next]_vars => AnswerInv'
BY SessionStep, QueueStep, FlagStep, NumberStep, OrderStep, TurnsStep DEF AnswerInv

(* Every step of the connection is a step of the dialogue, or none of it.  *)
LEMMA DialogueStep ==
  ASSUME AnswerInv, [Next]_vars
  PROVE  [Dialogue!DialogueNext]_(Dialogue!dialogueVars)
<1> USE DEF Dialogue!dialogueVars
<1>1. CASE \E r \in Requests : Ask(r)
  <2>1. PICK r \in Requests : Ask(r)
    BY <1>1
  <2>2. UNCHANGED << answered, reply, socket >>
    BY <2>1 DEF Ask, talkVars, wireVars
  <2>3. asked' = asked \/ (asked < MaxRequests /\ asked' = asked + 1)
    BY <2>1 DEF Ask
  <2> QED BY <2>2, <2>3 DEF Dialogue!DialogueNext, Dialogue!Asks
<1>2. CASE SendReply
  <2>1. /\ socket /\ answered < out.cseq /\ out.cseq \in 1 .. asked /\ out.ok = TRUE
        /\ answered' = out.cseq
    BY <1>2, ReplyingTurns
  <2>2. reply' = Reply(out.cseq, TRUE, ~reply.odd) /\ UNCHANGED << asked, socket >>
    BY <1>2, <2>1 DEF SendReply, Sends, peerVars, talkVars
  <2>3. Dialogue!Answers(out.cseq)
    BY <2>1, <2>2 DEF Dialogue!Answers, Dialogue!Reply, Reply
  <2> QED BY <2>1, <2>3 DEF Dialogue!DialogueNext
<1>3. CASE SendRefusal
  <2>1. /\ out.cseq \in 0 .. asked /\ out.ok = FALSE
        /\ out.cseq = 0 \/ answered <= out.cseq
    BY <1>3, ErrorTurns
  <2>2. CASE Sends
    <3>1. /\ socket /\ reply' = Reply(out.cseq, FALSE, ~reply.odd)
          /\ answered' = IF out.cseq = 0 THEN answered ELSE out.cseq
          /\ UNCHANGED << asked, socket >>
      BY <1>3, <2>1, <2>2 DEF SendRefusal, Sends, peerVars, talkVars
    <3>2. Dialogue!Refuses(out.cseq)
      BY <2>1, <3>1 DEF Dialogue!Refuses, Dialogue!Reply, Reply
    <3> QED BY <2>1, <3>2 DEF Dialogue!DialogueNext
  <2>3. CASE CannotSend
    BY <1>3, <2>3 DEF SendRefusal, CannotSend, peerVars, talkVars
  <2> QED BY <1>3, <2>2, <2>3 DEF SendRefusal
<1>4. CASE Close
  <2>1. Dialogue!Closes
    BY <1>4 DEF Close, Dialogue!Closes, peerVars, wireVars
  <2> QED BY <2>1 DEF Dialogue!DialogueNext
<1>5. CASE UNCHANGED << asked, answered, reply, socket >>
  BY <1>5
<1>6. CASE UNCHANGED vars \/ HangUp \/ (\E k \in 1 .. InFlight : Receive(k)) \/ Overflow
             \/ Reset \/ TakeRtcp \/ ParseFails
  BY <1>5, <1>6 DEF vars, HangUp, Receive, Overflow, Reset, TakeRtcp, ParseFails,
     peerVars, talkVars, wireVars
<1>t. CASE DescribeFails \/ SetupTcpFails \/ SetupUdpFails
  BY <1>5, <1>t, Throwing DEF wireVars
<1>7. CASE Options \/ Describe \/ SetupRefused \/ SetupTcp \/ SetupUdp \/ Play \/ Teardown
  BY <1>5, <1>7 DEF Options, Describe, SetupRefused, SetupTcp, SetupUdp, AddClient, Play,
     Teardown, Parses, Reads, peerVars, talkVars, wireVars
<1>8. CASE ReplyFails \/ PlayClient \/ KillRtcp \/ NoClient \/ DeleteClient \/ RtcpStarts
             \/ \E starter \in BOOLEAN : Packet(starter)
  BY <1>5, <1>8 DEF ReplyFails, CannotSend, PlayClient, KillRtcp, NoClient, DeleteClient,
     RtcpStarts, Packet, peerVars, talkVars, wireVars
<1> QED BY <1>1, <1>t, <1>2, <1>3, <1>4, <1>6, <1>7, <1>8 DEF Next, TalkerStep

(* Requests are answered at most once, with their own CSeq and in the      *)
(* order of asking, and never after the connection was closed, however     *)
(* they are cut, joined, garbled and thrown away on their way through a    *)
(* receive buffer of any size.                                             *)
THEOREM DialogueIsKept == Spec => AnswersInOrder
<1>1. Init => Dialogue!DialogueInit
  BY DEF Init, Reply, Dialogue!DialogueInit, Dialogue!Reply
<1>2. AnswerInv /\ [Next]_vars => [Dialogue!DialogueNext]_(Dialogue!dialogueVars)
  BY DialogueStep
<1> QED BY <1>1, <1>2, AnswerInit, AnswerStep, PTL DEF Spec, AnswersInOrder, Dialogue!DialogueSpec

--------------------------------------------------------------------------------
(* Nothing is lost                                                         *)

(* Piece q comes behind piece p as it was sent.                            *)
Adjoins(p, q) ==
  /\ ~q.cut
  /\ IF p.part < p.request.size
       THEN q.n = p.n /\ q.request = p.request /\ q.part = p.part + 1
       ELSE q.part = 1

(* The line has a beginning and an end, but no gap.                        *)
Unbroken ==
  /\ \A i \in 1 .. Len(Line) : Line[i].part <= Line[i].request.size
  /\ \A i \in 1 .. Len(Line) : i + 1 <= Len(Line) => Adjoins(Line[i], Line[i + 1])

Has(line, k) == \E i \in 1 .. Len(line) : Begins(line[i]) /\ line[i].n = k
AllAfter(n) == \A k \in n + 1 .. asked : Has(Line, k)

(* As long as the client is there, the line goes on to all it asked.       *)
ToTheEnd ==
  up => /\ Len(Line) > 0 => Line[Len(Line)].part = Line[Len(Line)].request.size
        /\ \A i \in 1 .. Len(Line) : AllAfter(Line[i].n)

(* Where it begins: between two messages, unless an error threw the first  *)
(* pieces away, and before all that was not answered.                      *)
AtStart == Len(Line) > 0 => Line[1].part = 1
Aligned ==
  /\ pc \in {"receive", "read", "play"} /\ reply.ok
       => AtStart /\ (up => AllAfter(answered))
  /\ pc = "send" /\ socket => AtStart /\ (up => AllAfter(cseq))

(* The inductive invariant of NothingLost.                                 *)
WaitInv == AnswerInv /\ Unbroken /\ ToTheEnd /\ Aligned

(* The pieces of the line are pieces.                                      *)
LEMMA LinePieces ==
  ASSUME QueueTypes, NEW i \in 1 .. Len(Line)
  PROVE  /\ Line[i] \in Piece /\ Len(Line) \in Nat /\ i \in Nat
         /\ Line[i].n \in Nat /\ Line[i].part \in Nat /\ 1 <= Line[i].part
         /\ Line[i].request.size \in Nat /\ 1 <= Line[i].request.size
<1>1. Line \in Seq(Piece) /\ Len(Line) \in Nat
  BY LineIs DEF QueueTypes, Line
<1>2. Line[i] \in Piece
  BY <1>1, ElementOfSeq
<1> QED BY <1>1, <1>2, PieceParts

(* The pieces of one message follow each other.                            *)
LEMMA Run ==
  ASSUME QueueTypes, Unbroken, NEW i \in 1 .. Len(Line), NEW k \in Nat,
         i + k <= Len(Line), Line[i].part + k <= Line[i].request.size
  PROVE  /\ Line[i + k].n = Line[i].n /\ Line[i + k].request = Line[i].request
         /\ Line[i + k].part = Line[i].part + k
<1> DEFINE Good(x) == /\ Line[i + x].n = Line[i].n /\ Line[i + x].request = Line[i].request
                      /\ Line[i + x].part = Line[i].part + x
           T == {x \in 0 .. k : ~Good(x)}
<1>0. i \in Nat /\ Len(Line) \in Nat /\ Line[i].part \in Nat /\ Line[i].request.size \in Nat
  BY LinePieces
<1>1. SUFFICES ASSUME T # {} PROVE FALSE
  <2>1. k \in 0 .. k
    OBVIOUS
  <2> QED BY <1>1, <2>1
<1>2. PICK x \in T : \A y \in T : x <= y
  <2>1. T \subseteq Nat
    OBVIOUS
  <2> QED BY <1>1, <2>1, LeastElement
<1>3. x # 0
  <2>1. Good(0)
    BY <1>0
  <2> QED BY <1>2, <2>1
<1>4. x - 1 \in 0 .. k /\ x - 1 \notin T
  BY <1>2, <1>3
<1>5. Good(x - 1)
  BY <1>4
<1>6. /\ i + (x - 1) \in 1 .. Len(Line) /\ (i + (x - 1)) + 1 = i + x /\ i + x <= Len(Line)
      /\ Line[i].part + (x - 1) < Line[i].request.size
      /\ (Line[i].part + (x - 1)) + 1 = Line[i].part + x
  <2>1. x \in 1 .. k /\ x \in Int /\ x - 1 \in Nat
    BY <1>2, <1>3
  <2>2. Line[i].part + (x - 1) < Line[i].request.size
    BY <1>0, <2>1
  <2>3. i + (x - 1) \in 1 .. Len(Line) /\ i + x <= Len(Line)
    BY <1>0, <2>1
  <2> QED BY <1>0, <2>1, <2>2, <2>3
<1>7. Adjoins(Line[i + (x - 1)], Line[i + x])
  BY <1>6 DEF Unbroken
<1>8. Good(x)
  BY <1>5, <1>6, <1>7 DEF Adjoins
<1> QED BY <1>2, <1>8

(* A message that has begun has come, or is on its way, to its end.        *)
LEMMA RunEnds ==
  ASSUME QueueTypes, Unbroken, ToTheEnd, up, NEW i \in 1 .. Len(Line), NEW k \in Nat,
         Line[i].part + k <= Line[i].request.size
  PROVE  i + k <= Len(Line)
<1>0. i \in Nat /\ Len(Line) \in Nat /\ Line[i].part \in Nat /\ Line[i].request.size \in Nat
  BY LinePieces
<1>1. SUFFICES ASSUME ~(i + k <= Len(Line)) PROVE FALSE
  OBVIOUS
<1> DEFINE x == Len(Line) - i
<1>2. x \in Nat /\ x < k /\ i + x = Len(Line) /\ Len(Line) > 0
  BY <1>0, <1>1
<1> HIDE DEF x
<1>3. Line[i].part + x <= Line[i].request.size
  BY <1>0, <1>2
<1>4. /\ Line[Len(Line)].request = Line[i].request
      /\ Line[Len(Line)].part = Line[i].part + x
  <2>1. i + x <= Len(Line)
    BY <1>0, <1>2
  <2>2. Line[i + x].request = Line[i].request /\ Line[i + x].part = Line[i].part + x
    BY <1>2, <1>3, <2>1, Run
  <2> QED BY <1>2, <2>2
<1>5. Line[Len(Line)].part = Line[Len(Line)].request.size
  BY <1>2 DEF ToTheEnd
<1> QED BY <1>0, <1>2, <1>4, <1>5

(* What has moved up is still in line, if it was not among what left.      *)
LEMMA MovedIsThere ==
  ASSUME QueueTypes, QueueTypes', NEW d, MovesUp(d), up',
         NEW j \in 1 .. Len(Line), d < j, Begins(Line[j])
  PROVE  Has(Line', Line[j].n)
<1>1. /\ d \in Nat /\ Len(Line) \in Nat /\ Len(Line') = Len(Line) - d
      /\ \A i \in 1 .. Len(Line') : Like(Line'[i], Line[d + i])
  BY LineIs DEF MovesUp
<1>2. j - d \in 1 .. Len(Line') /\ d + (j - d) = j
  BY <1>1
<1>3. Like(Line'[j - d], Line[j])
  BY <1>1, <1>2
<1> QED BY <1>2, <1>3 DEF Like, Begins, Has

(* So all after n is in line, if what left begins nothing after n.         *)
LEMMA MovedAfter ==
  ASSUME QueueTypes, QueueTypes', NEW d, MovesUp(d), up', NEW n \in Nat, AllAfter(n),
         \A j \in 1 .. Len(Line) : j <= d /\ Begins(Line[j]) => Line[j].n <= n
  PROVE  \A k \in n + 1 .. asked' : Has(Line', k)
<1> TAKE k \in n + 1 .. asked'
<1>1. asked' = asked /\ d \in Nat
  BY DEF MovesUp
<1>2. PICK j \in 1 .. Len(Line) : Begins(Line[j]) /\ Line[j].n = k
  BY <1>1 DEF AllAfter, Has
<1>3. j \in Nat
  BY LineIs
<1>4. d < j
  BY <1>1, <1>2, <1>3
<1> QED BY <1>2, <1>4, MovedIsThere

(* A line that moves up stays without a gap, and goes on to its end.       *)
LEMMA MovedUnbroken ==
  ASSUME QueueTypes, QueueTypes', Unbroken, NEW d, MovesUp(d)
  PROVE  Unbroken'
<1>1. /\ d \in Nat /\ Len(Line) \in Nat /\ Len(Line') \in Nat /\ Len(Line') <= Len(Line) - d
      /\ \A i \in 1 .. Len(Line') : /\ Like(Line'[i], Line[d + i])
                                    /\ 1 < i => Line'[i] = Line[d + i]
  BY LineIs, LineBecomes DEF MovesUp
<1>2. ASSUME NEW i \in 1 .. Len(Line') PROVE Line'[i].part <= Line'[i].request.size
  <2>1. d + i \in 1 .. Len(Line)
    BY <1>1
  <2>2. Line[d + i].part <= Line[d + i].request.size
    BY <2>1 DEF Unbroken
  <2>3. Like(Line'[i], Line[d + i])
    BY <1>1
  <2> QED BY <2>2, <2>3 DEF Like
<1>3. ASSUME NEW i \in 1 .. Len(Line'), i + 1 <= Len(Line')
      PROVE  Adjoins(Line'[i], Line'[i + 1])
  <2>1. /\ d + i \in 1 .. Len(Line) /\ (d + i) + 1 <= Len(Line) /\ (d + i) + 1 = d + (i + 1)
        /\ i + 1 \in 1 .. Len(Line') /\ 1 < i + 1
    BY <1>1, <1>3
  <2>2. Adjoins(Line[d + i], Line[d + (i + 1)])
    BY <2>1 DEF Unbroken
  <2>3. Like(Line'[i], Line[d + i]) /\ Line'[i + 1] = Line[d + (i + 1)]
    BY <1>1, <2>1
  <2> QED BY <2>2, <2>3 DEF Adjoins, Like
<1> QED BY <1>2, <1>3 DEF Unbroken

LEMMA MovedToTheEnd ==
  ASSUME QueueTypes, QueueTypes', InOrder, ToTheEnd, up' => up, NEW d, MovesUp(d)
  PROVE  ToTheEnd'
<1> SUFFICES ASSUME up' PROVE ToTheEnd'
  BY DEF ToTheEnd
<1>1. /\ d \in Nat /\ Len(Line) \in Nat /\ Len(Line') \in Nat /\ Len(Line') = Len(Line) - d
      /\ \A i \in 1 .. Len(Line') : Like(Line'[i], Line[d + i])
  BY LineIs, LineBecomes DEF MovesUp
<1>2. ASSUME Len(Line') > 0 PROVE Line'[Len(Line')].part = Line'[Len(Line')].request.size
  <2>1. Len(Line') \in 1 .. Len(Line') /\ d + Len(Line') = Len(Line) /\ Len(Line) > 0
    BY <1>1, <1>2
  <2>2. Like(Line'[Len(Line')], Line[d + Len(Line')])
    BY <1>1, <2>1
  <2>3. Line[Len(Line)].part = Line[Len(Line)].request.size
    BY <2>1 DEF ToTheEnd
  <2> QED BY <2>1, <2>2, <2>3 DEF Like
<1>3. ASSUME NEW i \in 1 .. Len(Line') PROVE \A k \in Line'[i].n + 1 .. asked' : Has(Line', k)
  <2>1. d + i \in 1 .. Len(Line) /\ d < d + i
    BY <1>1
  <2>2. Line'[i].n = Line[d + i].n /\ Line[d + i].n \in Nat
    BY <1>1, <2>1, LineIs DEF Like
  <2>3. AllAfter(Line[d + i].n)
    BY <2>1 DEF ToTheEnd
  <2>4. \A j \in 1 .. Len(Line) : j <= d /\ Begins(Line[j]) => Line[j].n <= Line[d + i].n
    <3>1. \A j \in 1 .. Len(Line) : j <= d => j < d + i
      BY <1>1, <2>1
    <3> QED BY <2>1, <3>1 DEF InOrder, Beyond
  <2>5. \A k \in Line[d + i].n + 1 .. asked' : Has(Line', k)
    BY <2>2, <2>3, <2>4, MovedAfter
  <2> QED BY <2>2, <2>5
<1> QED BY <1>2, <1>3 DEF ToTheEnd, AllAfter

(* A request that joins is behind the end of the one before it.            *)
LEMMA AskedUnbroken ==
  ASSUME QueueTypes, Unbroken, ToTheEnd, NEW r \in Requests, Ask(r)
  PROVE  Unbroken'
<1>1. /\ Len(Line) \in Nat /\ Len(Line') \in Nat
      /\ Len(Line') = Len(Line) + r.size /\ r.size \in Nat
      /\ \A i \in 1 .. Len(Line) : Line'[i] = Line[i]
      /\ \A i \in Len(Line) + 1 .. Len(Line') :
           /\ Line'[i].n = asked' /\ Line'[i].part = i - Len(Line)
           /\ Line'[i].request = r /\ ~Line'[i].cut
  BY AskJoins
<1>2. Len(Line) > 0 => Line[Len(Line)].part = Line[Len(Line)].request.size
  BY DEF ToTheEnd, Ask
<1>3. ASSUME NEW i \in 1 .. Len(Line') PROVE Line'[i].part <= Line'[i].request.size
  <2>1. CASE i \in 1 .. Len(Line)
    BY <1>1, <2>1 DEF Unbroken
  <2>2. CASE i \in Len(Line) + 1 .. Len(Line')
    BY <1>1, <2>2
  <2> QED BY <1>1, <2>1, <2>2
<1>4. ASSUME NEW i \in 1 .. Len(Line'), i + 1 <= Len(Line')
      PROVE  Adjoins(Line'[i], Line'[i + 1])
  <2>1. CASE i + 1 <= Len(Line)
    <3>1. i \in 1 .. Len(Line) /\ i + 1 \in 1 .. Len(Line)
      BY <1>1, <2>1
    <3>2. Adjoins(Line[i], Line[i + 1])
      BY <2>1, <3>1 DEF Unbroken
    <3> QED BY <1>1, <3>1, <3>2
  <2>2. CASE i = Len(Line)
    <3>1. i \in 1 .. Len(Line) /\ i + 1 \in Len(Line) + 1 .. Len(Line') /\ (i + 1) - Len(Line) = 1
      BY <1>1, <1>4, <2>2
    <3>a. Len(Line) > 0
      BY <1>1, <2>2, <3>1
    <3>b. Line'[i] = Line[i] /\ Line[i].part \in Nat
      BY <1>1, <3>1, LinePieces
    <3>c. Line[i].part = Line[i].request.size
      BY <1>2, <2>2, <3>a
    <3>2. Line'[i].part = Line'[i].request.size /\ Line'[i].part \in Nat
      BY <3>b, <3>c
    <3>3. ~Line'[i + 1].cut /\ Line'[i + 1].part = 1
      BY <1>1, <3>1
    <3> QED BY <3>2, <3>3 DEF Adjoins
  <2>3. CASE i > Len(Line)
    <3>1. /\ i \in Len(Line) + 1 .. Len(Line') /\ i + 1 \in Len(Line) + 1 .. Len(Line')
          /\ (i + 1) - Len(Line) = (i - Len(Line)) + 1 /\ i - Len(Line) < r.size
      BY <1>1, <1>4, <2>3
    <3> QED BY <1>1, <3>1 DEF Adjoins
  <2> QED BY <1>1, <2>1, <2>2, <2>3
<1> QED BY <1>3, <1>4 DEF Unbroken

(* What was in line still is, and so is what is asked.                     *)
LEMMA AskedAfter ==
  ASSUME QueueTypes, NEW r \in Requests, Ask(r), NEW n \in Nat, AllAfter(n)
  PROVE  \A k \in n + 1 .. asked' : Has(Line', k)
<1>1. /\ Len(Line) \in Nat /\ Len(Line') \in Nat
      /\ Len(Line') = Len(Line) + r.size /\ r.size \in Nat
      /\ \A i \in 1 .. Len(Line) : Line'[i] = Line[i]
      /\ \A i \in Len(Line) + 1 .. Len(Line') :
           /\ Line'[i].n = asked' /\ Line'[i].part = i - Len(Line)
           /\ Line'[i].request = r
  BY AskJoins
<1>2. /\ asked \in Nat /\ asked' = IF r.method = "RTCP" THEN asked ELSE asked + 1
      /\ 1 <= r.size
  BY TalkerAssumption DEF QueueTypes, Ask, RequestRecord
<1> TAKE k \in n + 1 .. asked'
<1>3. CASE k <= asked
  <2>1. PICK j \in 1 .. Len(Line) : Begins(Line[j]) /\ Line[j].n = k
    BY <1>2, <1>3 DEF AllAfter, Has
  <2>2. j \in 1 .. Len(Line') /\ Line'[j] = Line[j]
    BY <1>1
  <2> QED BY <2>1, <2>2 DEF Has
<1>4. CASE ~(k <= asked)
  <2>1. r.method # "RTCP" /\ k = asked'
    BY <1>2, <1>4
  <2>2. /\ Len(Line) + 1 \in Len(Line) + 1 .. Len(Line') /\ Len(Line) + 1 \in 1 .. Len(Line')
        /\ (Len(Line) + 1) - Len(Line) = 1
    BY <1>1, <1>2
  <2>3. Line'[Len(Line) + 1].n = k /\ Begins(Line'[Len(Line) + 1])
    BY <1>1, <2>1, <2>2 DEF Begins
  <2> QED BY <2>2, <2>3 DEF Has
<1> QED BY <1>3, <1>4

LEMMA NoneBetween ==
  ASSUME NEW a \in Nat
  PROVE  \A k \in a + 1 .. a : FALSE
OBVIOUS

LEMMA AskedToTheEnd ==
  ASSUME QueueTypes, ToTheEnd, NEW r \in Requests, Ask(r)
  PROVE  ToTheEnd'
<1>1. /\ Len(Line) \in Nat /\ Len(Line') \in Nat
      /\ Len(Line') = Len(Line) + r.size /\ r.size \in Nat
      /\ \A i \in 1 .. Len(Line) : Line'[i] = Line[i]
      /\ \A i \in Len(Line) + 1 .. Len(Line') :
           /\ Line'[i].n = asked' /\ Line'[i].part = i - Len(Line)
           /\ Line'[i].request = r
  BY AskJoins
<1>0. asked' \in Nat
  BY AskAdds, TalkerAssumption DEF QueueTypes
<1>2. up /\ 1 <= r.size
  BY TalkerAssumption DEF Ask, RequestRecord
<1>3. Line'[Len(Line')].part = Line'[Len(Line')].request.size
  <2>1. Len(Line') \in Len(Line) + 1 .. Len(Line') /\ Len(Line') - Len(Line) = r.size
    BY <1>1, <1>2
  <2> QED BY <1>1, <2>1
<1>4. ASSUME NEW i \in 1 .. Len(Line') PROVE \A k \in Line'[i].n + 1 .. asked' : Has(Line', k)
  <2>1. CASE i \in 1 .. Len(Line)
    <3>1. AllAfter(Line[i].n) /\ Line[i].n \in Nat /\ Line'[i] = Line[i]
      BY <1>1, <1>2, <2>1, LineIs DEF ToTheEnd
    <3>2. \A k \in Line[i].n + 1 .. asked' : Has(Line', k)
      BY <3>1, AskedAfter
    <3> QED BY <3>1, <3>2
  <2>2. CASE i \in Len(Line) + 1 .. Len(Line')
    <3>1. Line'[i].n = asked'
      BY <1>1, <2>2
    <3>2. \A k \in asked' + 1 .. asked' : FALSE
      BY <1>0, NoneBetween
    <3> QED BY <3>1, <3>2
  <2> QED BY <1>1, <2>1, <2>2
<1> QED BY <1>3, <1>4 DEF ToTheEnd, AllAfter

(* A client that has hung up does not come back.                           *)
LEMMA NobodyReturns ==
  ASSUME [Next]_vars
  PROVE  up' => up
<1> SUFFICES ASSUME up', ~HangUp PROVE up' = up
  BY DEF HangUp
<1>1. CASE UNCHANGED vars \/ \E r \in Requests : Ask(r)
  BY <1>1 DEF vars, peerVars, Ask
<1>2. CASE (\E k \in 1 .. InFlight : Receive(k)) \/ Overflow \/ Reset \/ TakeRtcp \/ ParseFails
  BY <1>2 DEF peerVars, Receive, Overflow, Reset, TakeRtcp, ParseFails
<1>t. CASE DescribeFails \/ SetupTcpFails \/ SetupUdpFails
  BY <1>t, Throwing
<1>3. CASE Options \/ Describe \/ SetupRefused \/ SetupTcp \/ SetupUdp \/ Play \/ Teardown
  BY <1>3 DEF peerVars, Options, Describe, SetupRefused, SetupTcp, SetupUdp, Play, Teardown,
     Parses, Reads
<1>4. CASE SendReply \/ ReplyFails \/ PlayClient \/ SendRefusal
  BY <1>4 DEF peerVars, SendReply, ReplyFails, PlayClient, SendRefusal
<1>5. CASE KillRtcp \/ NoClient \/ DeleteClient \/ Close \/ RtcpStarts
             \/ \E starter \in BOOLEAN : Packet(starter)
  BY <1>5 DEF peerVars, KillRtcp, NoClient, DeleteClient, Close, RtcpStarts, Packet
<1> QED BY <1>1, <1>t, <1>2, <1>3, <1>4, <1>5 DEF Next, TalkerStep

(* The line stays without a gap, and goes on to its end.                   *)
LEMMA GapStep ==
  ASSUME QueueTypes, InOrder, Unbroken, ToTheEnd, [Next]_vars
  PROVE  Unbroken' /\ ToTheEnd'
<1>1. QueueTypes' /\ (up' => up)
  BY QueueStep, NobodyReturns
<1>2. CASE \E r \in Requests : Ask(r)
  BY <1>2, AskedUnbroken, AskedToTheEnd
<1>3. CASE \E d : MovesUp(d)
  BY <1>1, <1>3, MovedUnbroken, MovedToTheEnd
<1> QED BY <1>2, <1>3, LineSteps

(* Nothing is taken out of the line: it is as it was, or has lost its end. *)
LEMMA StayingMoves ==
  ASSUME QueueTypes, QueueTypes', UNCHANGED << buffer, asked >>,
         inbox' = inbox \/ (inbox' = << >> /\ ~up')
  PROVE  MovesUp(0)
<1>1. CASE MovesUp(Len(buffer)) /\ buffer' = << >>
  <2>1. Len(buffer) = 0
    BY <1>1, EmptySeq
  <2> QED BY <1>1, <2>1
<1> QED BY <1>1, LosingMoves

(* Behind the last piece of a message begins another.                      *)
LEMMA StartsBehind ==
  ASSUME QueueTypes, QueueTypes', Unbroken, NEW d \in 1 .. Len(Line), MovesUp(d),
         Line[d].part = Line[d].request.size
  PROVE  AtStart'
<1> SUFFICES ASSUME Len(Line') > 0 PROVE Line'[1].part = 1
  BY DEF AtStart
<1>1. d \in Nat /\ Len(Line) \in Nat /\ Len(Line') \in Nat /\ Len(Line') <= Len(Line) - d
  BY LineIs, LineBecomes DEF MovesUp
<1>2. 1 \in 1 .. Len(Line') /\ d + 1 <= Len(Line)
  BY <1>1
<1>3. Line'[1].part = Line[d + 1].part
  BY <1>2 DEF MovesUp, Like
<1>4. Adjoins(Line[d], Line[d + 1]) /\ Line[d].part \in Nat
  BY <1>2, LinePieces DEF Unbroken
<1> QED BY <1>3, <1>4 DEF Adjoins

(* What is in the buffer is the beginning of the line.                     *)
LEMMA BufferInLine ==
  ASSUME QueueTypes, NEW i \in 1 .. Len(buffer)
  PROVE  i \in 1 .. Len(Line) /\ Line[i] = buffer[i]
BY LineIs

(* An RTCP packet taken out was all there was up to where it ended.        *)
LEMMA RtcpTaken ==
  ASSUME QueueTypes, Unbroken, IsRtcp(buffer), Complete(buffer)
  PROVE  LET m == MessageLength(buffer)
         IN  /\ m \in 1 .. Len(Line) /\ Line[m].part = Line[m].request.size
             /\ \A j \in 1 .. Len(Line) : j <= m => ~Begins(Line[j])
<1> DEFINE m == MessageLength(buffer)
<1>1. m \in 1 .. Len(buffer) /\ m = buffer[1].request.size
  BY MessageIsThere DEF QueueTypes, MessageEnds
<1>2. Len(buffer) \in Nat /\ Len(Line) \in Nat /\ Len(buffer) <= Len(Line)
  BY LineIs
<1> HIDE DEF m
<1>3. 1 \in 1 .. Len(buffer)
  BY <1>1, <1>2
<1>4. /\ 1 \in 1 .. Len(Line) /\ Line[1].part = 1 /\ Line[1].request.method = "RTCP"
      /\ Line[1].request.size = m
  BY <1>1, <1>3, BufferInLine DEF IsRtcp
<1>5. ASSUME NEW j \in 1 .. m PROVE Line[j].request = Line[1].request /\ Line[j].part = j
  <2>1. j - 1 \in Nat /\ 1 + (j - 1) = j /\ 1 + (j - 1) <= Len(Line)
    BY <1>1, <1>2
  <2>2. Line[1].part + (j - 1) <= Line[1].request.size /\ Line[1].part + (j - 1) = j
    BY <1>1, <1>2, <1>4
  <2>3. Line[1 + (j - 1)].request = Line[1].request /\ Line[1 + (j - 1)].part = Line[1].part + (j - 1)
    BY <1>4, <2>1, <2>2, Run
  <2> QED BY <2>1, <2>2, <2>3
<1>6. m \in 1 .. Len(Line) /\ m \in 1 .. m
  BY <1>1, <1>2
<1>7. Line[m].part = Line[m].request.size
  BY <1>4, <1>5, <1>6
<1>8. \A j \in 1 .. Len(Line) : j <= m => ~Begins(Line[j])
  <2>1. \A j \in 1 .. Len(Line) : j <= m => j \in 1 .. m
    BY <1>1, <1>2
  <2> QED BY <1>4, <1>5, <2>1 DEF Begins
<1> QED BY <1>6, <1>7, <1>8 DEF m

(* A line that begins with a message begins with a whole one.              *)
LEMMA GoodStart ==
  ASSUME QueueTypes, Unbroken, AtStart, Complete(buffer), ~Spoilt(buffer), ~IsRtcp(buffer)
  PROVE  ~Garbled(buffer)
<1> DEFINE m == MessageLength(buffer)
           size == buffer[1].request.size
<1>1. /\ m \in 1 .. Len(buffer) /\ m \in MessageEnds(buffer)
      /\ \A j \in MessageEnds(buffer) : m <= j
  BY MessageIsThere DEF QueueTypes
<1>2. Len(buffer) \in Nat /\ Len(Line) \in Nat /\ Len(buffer) <= Len(Line)
  BY LineIs
<1>3. 1 \in 1 .. Len(buffer) /\ Len(Line) > 0 /\ buffer # << >>
  BY <1>1, <1>2, EmptySeq
<1>4. 1 \in 1 .. Len(Line) /\ Line[1] = buffer[1] /\ buffer[1].part = 1
  BY <1>3, BufferInLine DEF AtStart
<1>5. size \in Nat /\ 1 <= size
  BY <1>4, LinePieces
<1>6. buffer[1].request.method # "RTCP"
  BY <1>3, <1>4 DEF IsRtcp, Spoilt
<1>7. ASSUME NEW j \in 1 .. Len(buffer), j <= size
      PROVE  buffer[j].request = buffer[1].request /\ buffer[j].part = j /\ buffer[j].n = buffer[1].n
  <2>1. j - 1 \in Nat /\ 1 + (j - 1) = j /\ 1 + (j - 1) <= Len(Line)
    BY <1>2
  <2>2. Line[1].part + (j - 1) <= Line[1].request.size /\ Line[1].part + (j - 1) = j
    BY <1>4, <1>5, <1>7
  <2>3. /\ Line[1 + (j - 1)].request = Line[1].request /\ Line[1 + (j - 1)].n = Line[1].n
        /\ Line[1 + (j - 1)].part = Line[1].part + (j - 1)
    BY <1>4, <2>1, <2>2, Run
  <2>4. Line[j] = buffer[j]
    BY BufferInLine
  <2> QED BY <1>4, <2>1, <2>2, <2>3, <2>4
<1>8. m <= size
  <2>1. SUFFICES ASSUME size < m PROVE FALSE
    BY <1>1, <1>5
  <2>2. size \in 1 .. Len(buffer)
    BY <1>1, <1>5, <2>1
  <2>3. EndsMessage(buffer[size])
    BY <1>5, <1>6, <1>7, <2>2 DEF EndsMessage
  <2>4. size \in MessageEnds(buffer)
    BY <2>2, <2>3 DEF MessageEnds, QueueTypes
  <2> QED BY <1>1, <1>5, <2>1, <2>4
<1>9. buffer[m].n = buffer[1].n
  BY <1>1, <1>7, <1>8
<1> QED BY <1>4, <1>6, <1>9 DEF Garbled

Looping == {"receive", "read", "play"}

(* A step that takes nothing out of the line and answers nothing.          *)
LEMMA QuietAligned ==
  ASSUME WaitInv, [Next]_vars, UNCHANGED << cseq, answered, reply, socket >>,
         pc' = pc \/ (pc \in Looping /\ pc' \in Looping),
         (\E r \in Requests : Ask(r)) \/ MovesUp(0)
  PROVE  Aligned'
<1>1. /\ QueueTypes /\ QueueTypes' /\ (up' => up)
      /\ cseq \in Nat /\ answered \in Nat /\ Aligned
  BY QueueStep, NobodyReturns, Numbers DEF WaitInv, AnswerInv
<1>2. ASSUME AtStart PROVE AtStart'
  <2> SUFFICES ASSUME Len(Line') > 0 PROVE Line'[1].part = 1
    BY DEF AtStart
  <2>1. CASE \E r \in Requests : Ask(r)
    <3>1. PICK r \in Requests : Ask(r)
      BY <2>1
    <3>2. /\ Len(Line) \in Nat /\ Len(Line') \in Nat
          /\ \A i \in 1 .. Len(Line) : Line'[i] = Line[i]
          /\ \A i \in Len(Line) + 1 .. Len(Line') : Line'[i].part = i - Len(Line)
      BY <1>1, <3>1, AskJoins
    <3>3. CASE Len(Line) > 0
      <4>1. 1 \in 1 .. Len(Line)
        BY <3>2, <3>3
      <4> QED BY <1>2, <3>2, <3>3, <4>1 DEF AtStart
    <3>4. CASE Len(Line) = 0
      <4>1. 1 \in Len(Line) + 1 .. Len(Line') /\ 1 - Len(Line) = 1
        BY <3>2, <3>4
      <4> QED BY <3>2, <4>1
    <3> QED BY <3>2, <3>3, <3>4
  <2>2. CASE MovesUp(0)
    <3>1. /\ Len(Line) \in Nat /\ Len(Line') \in Nat /\ Len(Line') <= Len(Line) - 0
      BY <1>1, <2>2, LineIs, LineBecomes DEF MovesUp
    <3>2. 1 \in 1 .. Len(Line') /\ Len(Line) > 0 /\ 0 + 1 = 1
      BY <3>1
    <3>3. Line'[1].part = Line[0 + 1].part
      BY <2>2, <3>2 DEF MovesUp, Like
    <3> QED BY <1>2, <3>2, <3>3 DEF AtStart
  <2> QED BY <2>1, <2>2
<1>3. ASSUME NEW n \in Nat, up => AllAfter(n), up'
      PROVE  \A k \in n + 1 .. asked' : Has(Line', k)
  <2>1. AllAfter(n)
    BY <1>1, <1>3
  <2>2. CASE \E r \in Requests : Ask(r)
    BY <1>1, <2>1, <2>2, AskedAfter
  <2>3. CASE MovesUp(0)
    <3>1. \A j \in 1 .. Len(Line) : ~(j <= 0)
      BY LineIs, <1>1
    <3> QED BY <1>1, <1>3, <2>1, <2>3, <3>1, MovedAfter
  <2> QED BY <2>2, <2>3
<1>4. CASE pc' \in Looping /\ reply.ok
  <2>1. AtStart /\ (up => AllAfter(answered))
    BY <1>1, <1>4 DEF Aligned, Looping
  <2>2. AtStart' /\ (up' => \A k \in answered + 1 .. asked' : Has(Line', k))
    BY <1>1, <1>2, <1>3, <2>1
  <2> QED BY <1>4, <2>2 DEF Aligned, AllAfter, Looping
<1>5. CASE pc' = "send" /\ socket
  <2>1. AtStart /\ (up => AllAfter(cseq))
    BY <1>1, <1>5 DEF Aligned, Looping
  <2>2. AtStart' /\ (up' => \A k \in cseq + 1 .. asked' : Has(Line', k))
    BY <1>1, <1>2, <1>3, <2>1
  <2> QED BY <1>5, <2>2 DEF Aligned, AllAfter
<1>6. CASE ~(pc' \in Looping /\ reply.ok) /\ ~(pc' = "send" /\ socket)
  BY <1>6 DEF Aligned, Looping
<1> QED BY <1>4, <1>5, <1>6

(* A request carried out ended where the next one begins, and all after it *)
(* is still there.                                                         *)
LEMMA AcceptingAligned ==
  ASSUME WaitInv, [Next]_vars, NEW r \in Requests, Parses(r),
         buffer' = Cut(Rest(buffer)), pc' = "send"
  PROVE  Aligned'
<1> DEFINE m == MessageLength(buffer)
<1>1. /\ QueueTypes /\ QueueTypes' /\ (up' => up) /\ InOrder /\ Unbroken /\ ToTheEnd
  BY QueueStep, NobodyReturns DEF WaitInv, AnswerInv
<1>2. /\ Complete(buffer) /\ ~IsRtcp(buffer) /\ cseq' = buffer[m].n
      /\ UNCHANGED << inbox, asked >>
  BY DEF Parses, Reads, Garbled, peerVars
<1>3. m \in 1 .. Len(buffer) /\ EndsMessage(buffer[m])
  BY <1>1, <1>2, MessageIsThere DEF MessageEnds, QueueTypes
<1>4. MovesUp(m)
  BY <1>1, <1>2, TakingMoves
<1> HIDE DEF m
<1>5. m \in 1 .. Len(Line) /\ Line[m] = buffer[m] /\ Line[m].n \in Nat /\ m \in Nat
  BY <1>1, <1>3, BufferInLine, LinePieces
<1>6. AtStart'
  BY <1>1, <1>3, <1>4, <1>5, StartsBehind DEF EndsMessage
<1>7. ASSUME up' PROVE \A k \in Line[m].n + 1 .. asked' : Has(Line', k)
  <2>1. AllAfter(Line[m].n)
    BY <1>1, <1>5, <1>7 DEF ToTheEnd
  <2>2. \A j \in 1 .. Len(Line) : j <= m => Line[j].n <= Line[m].n
    <3>1. \A j \in 1 .. Len(Line) : j <= m => j < m \/ j = m
      BY <1>5
    <3> QED BY <1>1, <1>5, <3>1 DEF InOrder, Beyond
  <2> QED BY <1>1, <1>4, <1>5, <1>7, <2>1, <2>2, MovedAfter
<1> QED BY <1>2, <1>5, <1>6, <1>7 DEF Aligned, AllAfter, Looping

(* An RTCP packet taken out leaves all requests in line.                   *)
LEMMA RtcpAligned ==
  ASSUME WaitInv, [Next]_vars, TakeRtcp
  PROVE  Aligned'
<1> DEFINE m == MessageLength(buffer)
<1>1. /\ QueueTypes /\ QueueTypes' /\ (up' => up) /\ Unbroken /\ Aligned /\ answered \in Nat
  BY QueueStep, NobodyReturns, Numbers DEF WaitInv, AnswerInv
<1>2. /\ pc = "read" /\ pc' = "receive" /\ Complete(buffer) /\ IsRtcp(buffer)
      /\ buffer' = Rest(buffer) /\ UNCHANGED << inbox, asked, answered, reply >>
  BY DEF TakeRtcp, peerVars, wireVars
<1>3. /\ m \in 1 .. Len(Line) /\ Line[m].part = Line[m].request.size
      /\ \A j \in 1 .. Len(Line) : j <= m => ~Begins(Line[j])
  BY <1>1, <1>2, RtcpTaken
<1>4. MovesUp(m)
  BY <1>1, <1>2, TakingMoves
<1> HIDE DEF m
<1>5. AtStart'
  BY <1>1, <1>3, <1>4, StartsBehind
<1>6. ASSUME reply.ok, up' PROVE \A k \in answered + 1 .. asked' : Has(Line', k)
  <2>1. AllAfter(answered)
    BY <1>1, <1>2, <1>6 DEF Aligned
  <2> QED BY <1>1, <1>3, <1>4, <1>6, <2>1, MovedAfter
<1> QED BY <1>2, <1>5, <1>6 DEF Aligned, AllAfter

(* Where nothing more is to be read, nothing is promised.                  *)
LEMMA EndingAligned ==
  ASSUME \/ pc' \in {"refuse", "kill", "delete", "close", "exited"}
         \/ pc' = "send" /\ socket' = FALSE
         \/ reply'.ok = FALSE /\ pc' # "send"
  PROVE  Aligned'
BY DEF Aligned

LEMMA AlignedStep ==
  ASSUME WaitInv, [Next]_vars
  PROVE  Aligned'
<1>0. QueueTypes /\ QueueTypes' /\ AnswerInv
  BY QueueStep DEF WaitInv, AnswerInv
<1>1. CASE \E r \in Requests : Ask(r)
  BY <1>1, QuietAligned DEF Ask, talkVars, parserVars, wireVars
<1>2. CASE \E k \in 1 .. InFlight : Receive(k)
  <2>1. MovesUp(0)
    BY <1>0, <1>2, ReceivingMoves
  <2> QED BY <1>2, <2>1, QuietAligned DEF Receive, MustReceive, talkVars, parserVars, wireVars,
          Looping
<1>3. CASE UNCHANGED vars \/ HangUp \/ PlayClient \/ RtcpStarts
             \/ \E starter \in BOOLEAN : Packet(starter)
  <2>1. /\ UNCHANGED << cseq, answered, reply, socket, buffer, asked >>
        /\ pc' = pc \/ (pc \in Looping /\ pc' \in Looping)
        /\ inbox' = inbox \/ (inbox' = << >> /\ ~up')
    BY <1>3 DEF vars, HangUp, PlayClient, RtcpStarts, Packet, peerVars, talkVars, parserVars,
       wireVars, Looping
  <2>2. MovesUp(0)
    BY <1>0, <2>1, StayingMoves
  <2> QED BY <2>1, <2>2, QuietAligned
<1>4. CASE TakeRtcp
  BY <1>4, RtcpAligned
<1>t. CASE DescribeFails \/ SetupTcpFails \/ SetupUdpFails
  BY <1>t, Throwing, EndingAligned
<1>5. CASE Overflow \/ Reset \/ ParseFails \/ SetupRefused \/ ReplyFails
             \/ KillRtcp \/ NoClient \/ DeleteClient \/ Close
  BY <1>5, EndingAligned DEF Overflow, Reset, AfterReset, ParseFails, SetupRefused, Rejects,
     ReplyFails, AfterFailedSend, KillRtcp, NoClient, DeleteClient, Close
<1>6. ASSUME NEW r \in Requests, Parses(r), NEW seq, Accepts(seq)
      PROVE  Aligned'
  BY <1>6, AcceptingAligned DEF Accepts
<1>7. CASE Options \/ SetupTcp \/ SetupUdp
  BY <1>6, <1>7 DEF Options, SetupTcp, SetupUdp
<1>8. CASE Describe \/ Play \/ Teardown
  BY <1>6, <1>8, EndingAligned DEF Describe, Play, Teardown, Rejects
<1>9. CASE SendReply
  <2>1. /\ pc = "send" /\ socket /\ pc' \in Looping /\ UNCHANGED << inbox, buffer, asked, up >>
        /\ out.cseq = cseq
    BY <1>0, <1>9 DEF SendReply, Sends, AfterReply, peerVars, AnswerInv, SessionInv, Replies,
       Looping
  <2>2. answered' = cseq
    BY <1>0, <1>9, <2>1, ReplyingTurns
  <2>3. AtStart /\ (up => AllAfter(cseq))
    BY <2>1 DEF WaitInv, Aligned
  <2>4. Line' = Line
    BY <2>1 DEF Line
  <2> QED BY <2>1, <2>2, <2>3, <2>4 DEF Aligned, AtStart, AllAfter, Looping
<1>10. CASE SendRefusal
  <2>1. CASE Sends
    <3>1. out.ok = FALSE /\ reply' = Reply(out.cseq, out.ok, ~reply.odd)
          /\ pc' \in {"receive", "kill"}
      BY <1>0, <1>10, <2>1, ErrorTurns DEF SendRefusal, Sends
    <3>2. reply'.ok = FALSE
      BY <3>1 DEF Reply
    <3> QED BY <3>1, <3>2, EndingAligned
  <2>2. CASE ~Sends
    BY <1>10, <2>2, EndingAligned DEF SendRefusal
  <2> QED BY <2>1, <2>2
<1> QED
  BY <1>t, <1>1, <1>2, <1>3, <1>4, <1>5, <1>7, <1>8, <1>9, <1>10 DEF Next, TalkerStep

LEMMA SamePiece ==
  ASSUME NEW p \in Piece, NEW q \in Piece,
         p.n = q.n, p.part = q.part, p.request = q.request, p.cut = q.cut
  PROVE  p = q
BY DEF Piece

(* A request that is in line is there with all its pieces.                 *)
LEMMA WaitsWhole ==
  ASSUME QueueTypes, Unbroken, ToTheEnd, up, NEW n, Has(Line, n)
  PROVE  Waits(n)
<1>1. PICK i \in 1 .. Len(Line) : Begins(Line[i]) /\ Line[i].n = n
  BY DEF Has
<1>2. /\ Line[i] \in Piece /\ Len(Line) \in Nat /\ i \in Nat /\ Line[i].part = 1
      /\ Line[i].request.size \in Nat
  BY <1>1, LinePieces DEF Begins
<1>3. ASSUME NEW k \in 1 .. Line[i].request.size
      PROVE  /\ i + k - 1 \in 1 .. Len(Line)
             /\ Line[i + k - 1] = [Line[i] EXCEPT !.part = k, !.cut = (i + k = 2 /\ @)]
  <2>1. k - 1 \in Nat /\ i + (k - 1) = i + k - 1 /\ k \in Nat \ {0}
    BY <1>2
  <2>2. Line[i].part + (k - 1) <= Line[i].request.size /\ Line[i].part + (k - 1) = k
    BY <1>2, <2>1
  <2>3. i + (k - 1) <= Len(Line)
    BY <2>1, <2>2, RunEnds
  <2>4. /\ Line[i + (k - 1)].n = Line[i].n /\ Line[i + (k - 1)].request = Line[i].request
        /\ Line[i + (k - 1)].part = k
    BY <2>1, <2>2, <2>3, Run
  <2>5. i + k - 1 \in 1 .. Len(Line)
    BY <1>2, <2>1, <2>3
  <2> DEFINE p == Line[i + k - 1]
             c == i + k = 2 /\ Line[i].cut
             q == [Line[i] EXCEPT !.part = k, !.cut = c]
  <2>6. p \in Piece /\ p.n = Line[i].n /\ p.request = Line[i].request /\ p.part = k
    BY <2>1, <2>4, <2>5, LinePieces
  <2>7. q \in Piece /\ q.n = Line[i].n /\ q.request = Line[i].request /\ q.part = k /\ q.cut = c
    <3>1. c \in BOOLEAN
      BY <1>2, PieceParts
    <3> HIDE DEF c
    <3> QED BY <1>2, <2>1, <3>1 DEF Piece
  <2>8. p.cut = c
    <3>1. CASE i + k = 2
      <4>1. i + k - 1 = i
        BY <1>2, <2>1, <3>1
      <4>2. p = Line[i] /\ Line[i].cut \in BOOLEAN
        BY <1>2, <4>1, PieceParts
      <4> QED BY <3>1, <4>2
    <3>2. CASE i + k # 2
      <4>1. i + k - 2 \in 1 .. Len(Line) /\ (i + k - 2) + 1 = i + k - 1 /\ i + k - 1 <= Len(Line)
        BY <1>2, <2>1, <2>5, <3>2
      <4>2. Adjoins(Line[i + k - 2], Line[i + k - 1])
        BY <4>1 DEF Unbroken
      <4>3. ~p.cut /\ p.cut \in BOOLEAN
        BY <2>6, <4>2, PieceParts DEF Adjoins
      <4> QED BY <3>2, <4>3
    <3> QED BY <3>1, <3>2
  <2> HIDE DEF p, q, c
  <2>9. p = q
    BY <2>6, <2>7, <2>8, SamePiece
  <2> QED BY <2>5, <2>9 DEF p, q, c
<1>4. DOMAIN Line = 1 .. Len(Line)
  BY LineIs DEF QueueTypes, Line
<1> QED BY <1>1, <1>3, <1>4 DEF Waits

LEMMA WaitInit == Init => WaitInv
<1> SUFFICES ASSUME Init PROVE WaitInv
  OBVIOUS
<1>1. AnswerInv
  BY AnswerInit
<1>2. Len(<< >>) = 0 /\ << >> \in Seq(Piece)
  BY EmptySeq
<1>3. Len(Line) = 0
  BY <1>2, LineIs DEF Init, AnswerInv, QueueTypes, Line
<1>4. asked = 0 /\ answered = 0 /\ pc = "receive"
  BY DEF Init
<1>5. \A k \in 0 + 1 .. 0 : FALSE
  BY NoneBetween
<1>6. AllAfter(answered)
  BY <1>4, <1>5 DEF AllAfter
<1> QED BY <1>1, <1>3, <1>4, <1>6 DEF WaitInv, Unbroken, ToTheEnd, Aligned, AtStart

LEMMA WaitStep == WaitInv /\ [Next]_vars => WaitInv'
BY AnswerStep, GapStep, AlignedStep DEF WaitInv, AnswerInv

(* As long as no error reply has thrown anything away since the last good  *)
(* one, every request not answered waits whole in the line of what has     *)
(* come and is on its way, and what is read next begins with a request or  *)
(* an RTCP packet, however recv() cuts them and in whatever order they are *)
(* taken out of the buffer.                                                *)
THEOREM NothingIsLost == Spec => []NothingLost
<1>1. WaitInv => NothingLost
  <2> SUFFICES ASSUME WaitInv, pc \in {"receive", "read", "play"}, reply.ok
               PROVE  /\ up => \A n \in answered + 1 .. asked : Waits(n)
                      /\ Complete(buffer) /\ ~Spoilt(buffer) /\ ~IsRtcp(buffer)
                           => ~Garbled(buffer)
    BY DEF NothingLost
  <2>1. QueueTypes /\ Unbroken /\ ToTheEnd /\ AtStart /\ (up => AllAfter(answered))
    BY DEF WaitInv, AnswerInv, Aligned
  <2>2. ASSUME up, NEW n \in answered + 1 .. asked PROVE Waits(n)
    <3>1. Has(Line, n)
      BY <2>1, <2>2 DEF AllAfter
    <3> QED BY <2>1, <2>2, <3>1, WaitsWhole
  <2>3. ASSUME Complete(buffer), ~Spoilt(buffer), ~IsRtcp(buffer) PROVE ~Garbled(buffer)
    BY <2>1, <2>3, GoodStart
  <2> QED BY <2>2, <2>3
<1> QED BY <1>1, WaitInit, WaitStep, PTL DEF Spec
===============================================================================
