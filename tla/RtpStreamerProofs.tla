--------------------------- MODULE RtpStreamerProofs ---------------------------
(***************************************************************************)
(* What holds of RtpStreamer for any number of clients, any packet size    *)
(* and frames of any length.                                               *)
(***************************************************************************)
EXTENDS RtpStreamer, RtpPacketizerProofs

(* The packets of the streamer are those of the packetizer.                *)
LEMMA StepsOfThePacketizer == [Next]_vars => [PacketNext]_packetVars
<1> SUFFICES ASSUME [Next]_vars  PROVE [PacketNext]_packetVars
  OBVIOUS
<1>1. ASSUME NEW e \in Encoders, NEW k \in FrameTypes, NEW n \in 1 .. MaxFrame,
             FrameBegins(e, k, n)
      PROVE  PacketNext
  BY <1>1 DEF FrameBegins, PacketNext
<1>2. CASE PacketGoesOut  BY <1>2 DEF PacketGoesOut, PacketNext
<1>3. ASSUME NEW c \in Clients,
             AddClient(c) \/ Play(c) \/ DeleteClient(c) \/ IncreaseLevel(c) \/ ReduceLevel(c)
      PROVE  UNCHANGED packetVars
  BY <1>3 DEF AddClient, Play, DeleteClient, IncreaseLevel, ReduceLevel
<1>4. ASSUME NEW l \in Levels, SetTemporalLevel(l)
      PROVE  UNCHANGED packetVars
  BY <1>4 DEF SetTemporalLevel
<1>5. CASE UNCHANGED vars  BY <1>5 DEF vars
<1>6. QED  BY <1>1, <1>2, <1>3, <1>4, <1>5 DEF Next

(* A streamer with its clients implements the packetizer: what clients do   *)
(* never changes how a frame is cut.                                       *)
THEOREM StreamerPacketizes == Spec => PacketSpec
<1>1. Init => PacketInit
  BY DEF Init
<1>2. QED  BY <1>1, StepsOfThePacketizer, PTL DEF Spec, PacketSpec

--------------------------------------------------------------------------------
(* The parts of the inductive invariant that speak of clients.             *)

(* Only a client that plays is followed.                                   *)
FollowsPlayers == \A c \in Clients : follows[c] # "no" => state[c] = "PLAY"

(* The first packet of a frame has gone to nobody before it is sent.       *)
NothingSentYet == count = 0 => \A c \in Clients : got[c] = 0

(* While a key frame is sent the frame index, which decides what is left    *)
(* out, stays 0.                                                           *)
KeyFrameIndex ==
  sending # "nothing" /\ encoder = "H264" /\ StartsGroup(type) => index = 0

(* While a frame is sent, each client has had all its packets or none, as   *)
(* its level says.                                                         *)
Share(c) == IF Skip(index, level[c]) THEN 0 ELSE count
ShareSoFar ==
  sending # "nothing" => \A c \in Clients : follows[c] = "steady" => got[c] = Share(c)

StreamerTypeOK ==
  /\ index \in 0 .. 3
  /\ count \in Nat
  /\ state \in [Clients -> {"none", "STOP", "REQUEST", "PLAY"}]
  /\ level \in [Clients -> Levels]
  /\ got \in [Clients -> Nat]
  /\ follows \in [Clients -> {"no", "playing", "steady"}]

IInv ==
  /\ PacketInv
  /\ StreamerTypeOK
  /\ FollowsPlayers
  /\ NothingSentYet
  /\ KeyFrameIndex
  /\ ShareSoFar
  /\ KeyFramesWhole
  /\ WholeAtOneLevel
  /\ LayersNest

--------------------------------------------------------------------------------
(* Lemmas                                                                  *)

(* The three periods, as a case distinction.                               *)
LEMMA Periods ==
  ASSUME NEW i \in Int
  PROVE  /\ ~Skip(i, 0)
         /\ Skip(i, 1) <=> i % 2 # 0
         /\ Skip(i, 2) <=> i % 4 # 0
<1>1. 2 ^ 0 = 1 /\ 2 ^ 1 = 2 /\ 2 ^ 2 = 4
  BY Z3
<1>2. i % 1 = 0
  OBVIOUS
<1>3. QED  BY <1>1, <1>2, Zenon DEF Skip

(* The first frame of a group is in every layer ...                        *)
LEMMA FirstInEveryLayer == \A l \in Levels : ~Skip(0, l)
<1>1. 0 % 2 = 0 /\ 0 % 4 = 0
  OBVIOUS
<1>2. QED  BY <1>1, Periods DEF Levels

(* ... and what a level leaves out, a higher level leaves out too.         *)
LEMMA LayersNested ==
  ASSUME NEW i \in 0 .. 3, NEW l \in Levels, NEW m \in Levels, l <= m, Skip(i, l)
  PROVE  Skip(i, m)
<1>1. CASE l = m  BY <1>1
<1>2. CASE l = 1 /\ m = 2
  <2>1. i % 2 # 0
    BY <1>2, Periods
  <2>2. i % 4 # 0
    BY <2>1
  <2>3. QED  BY <1>2, <2>2, Periods
<1>3. CASE l = 0  BY <1>3, Periods
<1>4. QED  BY <1>1, <1>2, <1>3 DEF Levels

--------------------------------------------------------------------------------
(* The steps preserve the invariant                                        *)

(* A step between two packets preserves it if a client that is still        *)
(* followed plays on, and one still called steady keeps its level.         *)
LEMMA BetweenPackets ==
  ASSUME IInv, StreamerTypeOK', PacketInv',
         UNCHANGED << packetVars, index, count, got >>,
         \A c \in Clients :
           /\ follows'[c] # "no" => follows[c] # "no" /\ state'[c] = "PLAY"
           /\ follows'[c] = "steady" => follows[c] = "steady" /\ level'[c] = level[c]
  PROVE  IInv'
<1>1. FollowsPlayers'
  BY DEF FollowsPlayers
<1>2. NothingSentYet' /\ KeyFrameIndex'
  BY DEF IInv, NothingSentYet, KeyFrameIndex, packetVars, frameVars, StartsGroup
<1>3. ShareSoFar'
  BY DEF IInv, ShareSoFar, Share, Skip, packetVars
<1>4. KeyFramesWhole'
  <2>1. SUFFICES ASSUME NEW c \in Clients, encoder = "H264", type \in {"s", "p", "I"}, Playing(c)'
                 PROVE  got[c] = count
    BY DEF KeyFramesWhole, packetVars, frameVars
  <2>2. follows[c] \in {"no", "playing", "steady"}
    BY DEF IInv, StreamerTypeOK
  <2>3. Playing(c)
    BY <2>1, <2>2 DEF Playing
  <2>4. QED  BY <2>1, <2>3 DEF IInv, KeyFramesWhole
<1>5. WholeAtOneLevel'
  BY DEF IInv, WholeAtOneLevel
<1>6. LayersNest'
  BY DEF IInv, LayersNest
<1>7. QED  BY <1>1, <1>2, <1>3, <1>4, <1>5, <1>6 DEF IInv

(* Requests and RTCP reports, between two packets.                         *)
LEMMA ClientStep ==
  ASSUME IInv, PacketInv', NEW c \in Clients,
         AddClient(c) \/ Play(c) \/ DeleteClient(c) \/ IncreaseLevel(c) \/ ReduceLevel(c)
  PROVE  IInv'
<1>1. StreamerTypeOK /\ FollowsPlayers
  BY DEF IInv
<1>2. CASE AddClient(c)
  <2>1. StreamerTypeOK'
    BY <1>1, <1>2 DEF AddClient, StreamerTypeOK, Levels
  <2>2. follows[c] = "no"
    BY <1>1, <1>2 DEF AddClient, FollowsPlayers
  <2>3. \A d \in Clients : d # c => state'[d] = state[d] /\ level'[d] = level[d]
    BY <1>1, <1>2 DEF AddClient, StreamerTypeOK
  <2>4. follows' = follows /\ UNCHANGED << packetVars, index, count, got >>
    BY <1>2 DEF AddClient
  <2>5. QED  BY <1>1, <2>1, <2>2, <2>3, <2>4, BetweenPackets DEF FollowsPlayers
<1>3. CASE Play(c) \/ DeleteClient(c)
  <2>1. StreamerTypeOK' /\ UNCHANGED << packetVars, index, count, level, got >>
    BY <1>1, <1>3 DEF Play, DeleteClient, StreamerTypeOK
  <2>2. follows'[c] = "no"
    BY <1>1, <1>3 DEF Play, DeleteClient, StreamerTypeOK
  <2>3. \A d \in Clients : d # c => state'[d] = state[d] /\ follows'[d] = follows[d]
    BY <1>1, <1>3 DEF Play, DeleteClient, StreamerTypeOK
  <2>4. QED  BY <1>1, <2>1, <2>2, <2>3, BetweenPackets DEF FollowsPlayers
<1>4. CASE IncreaseLevel(c) \/ ReduceLevel(c)
  <2>1. UNCHANGED << packetVars, index, count, state, got >>
    BY <1>4 DEF IncreaseLevel, ReduceLevel
  <2>2. PICK l \in Levels : level' = [level EXCEPT ![c] = l]
    <3>1. level[c] \in Levels
      BY <1>1 DEF StreamerTypeOK
    <3>2. CASE IncreaseLevel(c)
      <4>1. level' = [level EXCEPT ![c] = level[c] + 1] /\ level[c] + 1 \in Levels
        BY <3>1, <3>2 DEF IncreaseLevel, Levels
      <4>2. QED  BY <4>1
    <3>3. CASE ReduceLevel(c)
      <4>1. level' = [level EXCEPT ![c] = level[c] - 1] /\ level[c] - 1 \in Levels
        BY <3>1, <3>3 DEF ReduceLevel, MayReduce, Levels
      <4>2. QED  BY <4>1
    <3>4. QED  BY <1>4, <3>2, <3>3
  <2>3. follows' = [follows EXCEPT ![c] = LevelChanges(c)]
    BY <1>4 DEF IncreaseLevel, ReduceLevel
  <2>4. /\ LevelChanges(c) \in {"no", "playing"}
        /\ LevelChanges(c) # "no" => follows[c] # "no"
    BY <1>1 DEF LevelChanges, StreamerTypeOK
  <2>5. StreamerTypeOK'
    BY <1>1, <2>1, <2>2, <2>3, <2>4 DEF StreamerTypeOK
  <2>6. follows'[c] = LevelChanges(c)
    BY <1>1, <2>3 DEF StreamerTypeOK
  <2>7. \A d \in Clients : d # c => level'[d] = level[d] /\ follows'[d] = follows[d]
    BY <1>1, <2>2, <2>3 DEF StreamerTypeOK
  <2>8. QED  BY <1>1, <2>1, <2>4, <2>5, <2>6, <2>7, BetweenPackets DEF FollowsPlayers
<1>5. QED  BY <1>2, <1>3, <1>4

(* The application limits the level of every client.                       *)
LEMMA LevelStep ==
  ASSUME IInv, PacketInv', NEW l \in Levels, SetTemporalLevel(l)
  PROVE  IInv'
<1> DEFINE listed == {c \in Clients : state[c] # "none"}
<1>1. StreamerTypeOK /\ FollowsPlayers
  BY DEF IInv
<1>2. /\ level' = [c \in Clients |-> IF c \in listed THEN l ELSE level[c]]
      /\ follows' = [c \in Clients |-> IF c \in listed THEN LevelChanges(c) ELSE follows[c]]
      /\ UNCHANGED << packetVars, index, count, state, got >>
  BY DEF SetTemporalLevel
<1>3. \A c \in Clients :
         /\ LevelChanges(c) \in {"no", "playing"}
         /\ LevelChanges(c) # "no" => follows[c] # "no"
  BY <1>1 DEF LevelChanges, StreamerTypeOK
<1>4. \A c \in Clients :
         \/ c \in listed /\ level'[c] = l /\ follows'[c] = LevelChanges(c)
         \/ level'[c] = level[c] /\ follows'[c] = follows[c]
  BY <1>2
<1>5. StreamerTypeOK'
  <2>1. level' \in [Clients -> Levels]
    BY <1>1, <1>2 DEF StreamerTypeOK
  <2>2. follows' \in [Clients -> {"no", "playing", "steady"}]
    <3> HIDE DEF listed
    <3>1. QED  BY <1>1, <1>2, <1>3 DEF StreamerTypeOK
  <2>3. QED  BY <1>1, <1>2, <2>1, <2>2 DEF StreamerTypeOK
<1> HIDE DEF listed
<1>6. QED  BY <1>1, <1>2, <1>3, <1>4, <1>5, BetweenPackets DEF FollowsPlayers

(* A frame begins: whoever plays is followed through it.                   *)
LEMMA BeginStep ==
  ASSUME IInv, PacketInv', NEW e \in Encoders, NEW k \in FrameTypes, NEW n \in 1 .. MaxFrame,
         FrameBegins(e, k, n)
  PROVE  IInv'
<1>1. /\ index' = IF e = "H264" /\ StartsGroup(k) THEN 0 ELSE index
      /\ count' = 0
      /\ got' = [c \in Clients |-> 0]
      /\ follows' = [c \in Clients |-> IF state[c] = "PLAY" THEN "steady" ELSE "no"]
      /\ state' = state /\ level' = level
      /\ encoder' = e /\ type' = k
  BY DEF FrameBegins, BeginFrame
<1>2. StreamerTypeOK'
  BY <1>1 DEF IInv, StreamerTypeOK
<1>3. FollowsPlayers' /\ NothingSentYet'
  BY <1>1 DEF FollowsPlayers, NothingSentYet
<1>4. KeyFrameIndex'
  BY <1>1 DEF KeyFrameIndex, StartsGroup
<1>5. \A c \in Clients : got'[c] = 0 /\ Share(c)' = 0
  BY <1>1 DEF Share
<1>6. ShareSoFar' /\ WholeAtOneLevel'
  BY <1>5 DEF ShareSoFar, WholeAtOneLevel
<1>7. KeyFramesWhole' /\ LayersNest'
  BY <1>1, <1>5 DEF KeyFramesWhole, LayersNest
<1>8. QED  BY <1>2, <1>3, <1>4, <1>6, <1>7 DEF IInv

(* A packet goes out.  Whether a client gets it depends on its level and on *)
(* the index, which does not change before the last packet of the frame.   *)
LEMMA DeliverStep ==
  ASSUME IInv, PacketInv', PacketGoesOut
  PROVE  IInv'
<1> DEFINE starting == {c \in Clients : state[c] = "REQUEST" /\ CanStart}
           playing  == {c \in Clients : state[c] = "PLAY"} \cup starting
           included == {c \in playing : ~Skip(index, level[c])}
<1>1. /\ StreamerTypeOK /\ FollowsPlayers /\ NothingSentYet /\ KeyFrameIndex /\ ShareSoFar
      /\ KeyFramesWhole
  BY DEF IInv
<1>2. PICK failed \in SUBSET included :
        /\ state' = [c \in Clients |-> IF c \in failed THEN "STOP"
                                       ELSE IF c \in playing THEN "PLAY" ELSE state[c]]
        /\ got' = [c \in Clients |-> IF c \in included \ failed THEN got[c] + 1 ELSE got[c]]
        /\ follows' = [c \in Clients |-> IF c \in failed THEN "no"
                                         ELSE IF c \in starting /\ count = 0 THEN "steady"
                                         ELSE follows[c]]
  BY DEF PacketGoesOut, Deliver
<1>3. count' = count + 1 /\ level' = level
  BY DEF PacketGoesOut, Deliver
<1>4. index' = IF encoder = "H264" /\ sending' = "nothing" THEN (index + 1) % 4 ELSE index
  BY DEF PacketGoesOut, FrameIsOver
<1>5. sending # "nothing" /\ encoder' = encoder /\ type' = type
  BY DEF PacketGoesOut, SendWhole, SendFragment, frameVars
<1>6. /\ playing \subseteq Clients /\ included \subseteq playing
      /\ \A c \in Clients :
           /\ c \in included <=> c \in playing /\ ~Skip(index, level[c])
           /\ state[c] = "PLAY" => c \in playing
           /\ c \in starting => c \in playing
  OBVIOUS
<1> HIDE DEF starting, playing, included
<1>7. StreamerTypeOK'
  <2>1. index' \in 0 .. 3
    BY <1>1, <1>4 DEF StreamerTypeOK
  <2>2. state' \in [Clients -> {"none", "STOP", "REQUEST", "PLAY"}]
    BY <1>1, <1>2 DEF StreamerTypeOK
  <2>3. got' \in [Clients -> Nat]
    BY <1>1, <1>2 DEF StreamerTypeOK
  <2>4. follows' \in [Clients -> {"no", "playing", "steady"}]
    BY <1>1, <1>2 DEF StreamerTypeOK
  <2>5. QED  BY <1>1, <1>3, <2>1, <2>2, <2>3, <2>4 DEF StreamerTypeOK
<1>8. count \in Nat /\ count' # 0
  BY <1>1, <1>3 DEF StreamerTypeOK
(* Whoever is followed after the packet plays, was not switched off, and    *)
(* was followed before or is at the first packet.                          *)
<1>9. ASSUME NEW c \in Clients, follows'[c] # "no"
      PROVE  /\ c \in playing /\ c \notin failed /\ state'[c] = "PLAY"
             /\ follows'[c] = follows[c] \/ (count = 0 /\ follows'[c] = "steady")
             /\ got'[c] = IF Skip(index, level[c]) THEN got[c] ELSE got[c] + 1
  <2>1. c \notin failed
    BY <1>2, <1>9
  <2>2. follows'[c] = IF c \in starting /\ count = 0 THEN "steady" ELSE follows[c]
    BY <1>2, <2>1
  <2>3. c \in playing
    <3>1. CASE c \in starting  BY <1>6, <3>1
    <3>2. CASE c \notin starting
      <4>1. follows[c] # "no"
        BY <1>9, <2>2, <3>2
      <4>2. state[c] = "PLAY"
        BY <1>1, <4>1 DEF FollowsPlayers
      <4>3. QED  BY <1>6, <4>2
    <3>3. QED  BY <3>1, <3>2
  <2>4. state'[c] = "PLAY"
    BY <1>2, <2>1, <2>3
  <2>5. got'[c] = IF c \in included THEN got[c] + 1 ELSE got[c]
    BY <1>2, <2>1
  <2>6. got'[c] = IF Skip(index, level[c]) THEN got[c] ELSE got[c] + 1
    <3>1. CASE Skip(index, level[c])
      <4>1. c \notin included
        BY <1>6, <3>1, Zenon
      <4>2. QED  BY <2>5, <3>1, <4>1
    <3>2. CASE ~Skip(index, level[c])
      <4>1. c \in included
        BY <1>6, <2>3, <3>2, Zenon
      <4>2. QED  BY <2>5, <3>2, <4>1
    <3>3. QED  BY <3>1, <3>2
  <2>7. follows'[c] = follows[c] \/ (count = 0 /\ follows'[c] = "steady")
    BY <2>2
  <2>8. QED  BY <2>1, <2>3, <2>4, <2>6, <2>7
(* ... so its share of the frame is what its level says.                   *)
<1>10. ASSUME NEW c \in Clients, follows'[c] = "steady"
       PROVE  got'[c] = IF Skip(index, level[c]) THEN 0 ELSE count'
  <2>1. got[c] = Share(c)
    <3>1. CASE count = 0
      BY <1>1, <3>1 DEF NothingSentYet, Share
    <3>2. CASE count # 0
      BY <1>1, <1>5, <1>9, <1>10, <3>2 DEF ShareSoFar
    <3>3. QED  BY <3>1, <3>2
  <2>2. QED  BY <1>3, <1>8, <1>9, <1>10, <2>1 DEF Share
<1>11. FollowsPlayers' /\ NothingSentYet'
  BY <1>8, <1>9 DEF FollowsPlayers, NothingSentYet
<1>12. KeyFrameIndex'
  BY <1>1, <1>4, <1>5 DEF KeyFrameIndex, StartsGroup
<1>13. ShareSoFar'
  BY <1>3, <1>4, <1>10 DEF ShareSoFar, Share, Skip
<1>14. WholeAtOneLevel'
  BY <1>10 DEF WholeAtOneLevel
<1>15. KeyFramesWhole'
  <2>1. SUFFICES ASSUME NEW c \in Clients, encoder = "H264", type \in {"s", "p", "I"}, Playing(c)'
                 PROVE  got'[c] = count'
    BY <1>5 DEF KeyFramesWhole
  <2>2. index = 0 /\ level[c] \in Levels
    BY <1>1, <1>5, <2>1 DEF KeyFrameIndex, StartsGroup, StreamerTypeOK
  <2>3. ~Skip(index, level[c])
    BY <2>2, FirstInEveryLayer
  <2>4. follows'[c] # "no"
    BY <2>1 DEF Playing
  <2>5. got'[c] = got[c] + 1
    BY <1>9, <2>3, <2>4
  <2>6. got[c] = count
    <3>1. CASE count = 0  BY <1>1, <3>1 DEF NothingSentYet
    <3>2. CASE count # 0
      <4>1. Playing(c)
        BY <1>9, <2>1, <2>4, <3>2 DEF Playing
      <4>2. QED  BY <1>1, <2>1, <4>1 DEF KeyFramesWhole
    <3>3. QED  BY <3>1, <3>2
  <2>7. QED  BY <1>3, <2>5, <2>6
<1>16. LayersNest'
  <2>1. SUFFICES ASSUME NEW c \in Clients, NEW d \in Clients, follows'[c] = "steady",
                        follows'[d] = "steady", level[d] <= level[c]
                 PROVE  got'[c] <= got'[d]
    BY <1>3 DEF LayersNest
  <2>2. level[c] \in Levels /\ level[d] \in Levels /\ index \in 0 .. 3 /\ count' \in Nat
    BY <1>1, <1>3 DEF StreamerTypeOK
  <2>3. Skip(index, level[d]) => Skip(index, level[c])
    BY <2>1, <2>2, LayersNested
  <2>4. QED  BY <1>10, <2>1, <2>2, <2>3
<1>17. QED  BY <1>7, <1>11, <1>12, <1>13, <1>14, <1>15, <1>16 DEF IInv

(* At first nobody is in the list.                                         *)
LEMMA Initially == Init => IInv
<1> SUFFICES ASSUME Init  PROVE IInv
  OBVIOUS
<1>1. PacketInv
  BY PacketInitially DEF Init
<1>2. StreamerTypeOK
  BY DEF Init, StreamerTypeOK, Levels
<1>3. /\ FollowsPlayers /\ NothingSentYet /\ KeyFrameIndex /\ ShareSoFar
      /\ KeyFramesWhole /\ WholeAtOneLevel /\ LayersNest
  BY DEF Init, FollowsPlayers, NothingSentYet, KeyFrameIndex, ShareSoFar, KeyFramesWhole,
         WholeAtOneLevel, LayersNest, Playing
<1>4. QED  BY <1>1, <1>2, <1>3 DEF IInv

(* The invariant holds of every behaviour of the streamer.                 *)
THEOREM Inductive == Spec => []IInv
<1>1. ASSUME IInv, [Next]_vars
      PROVE  IInv'
  <2>1. PacketInv'
    BY <1>1, StepsOfThePacketizer, PacketStep DEF IInv
  <2>2. ASSUME NEW e \in Encoders, NEW k \in FrameTypes, NEW n \in 1 .. MaxFrame,
               FrameBegins(e, k, n)
        PROVE  IInv'
    BY <1>1, <2>1, <2>2, BeginStep
  <2>3. CASE PacketGoesOut
    BY <1>1, <2>1, <2>3, DeliverStep
  <2>4. ASSUME NEW c \in Clients,
               AddClient(c) \/ Play(c) \/ DeleteClient(c) \/ IncreaseLevel(c) \/ ReduceLevel(c)
        PROVE  IInv'
    BY <1>1, <2>1, <2>4, ClientStep
  <2>5. ASSUME NEW l \in Levels, SetTemporalLevel(l)
        PROVE  IInv'
    BY <1>1, <2>1, <2>5, LevelStep
  <2>6. CASE UNCHANGED vars
    <3>1. StreamerTypeOK'
      BY <1>1, <2>6 DEF vars, clientVars, IInv, StreamerTypeOK
    <3>2. QED  BY <1>1, <2>1, <2>6, <3>1, BetweenPackets DEF vars, clientVars, IInv, FollowsPlayers
  <2>7. QED  BY <1>1, <2>2, <2>3, <2>4, <2>5, <2>6 DEF Next
<1>2. QED  BY <1>1, Initially, PTL DEF Spec

(* Every variable of the streamer keeps its type.                          *)
THEOREM TypeCorrect == Spec => []TypeOK
<1>1. IInv => TypeOK
  BY DEF IInv, StreamerTypeOK, TypeOK, PacketInv
<1>2. QED  BY <1>1, Inductive, PTL

(* What is proved of the packetizer holds of a streamer with clients.      *)
THEOREM PacketsAreRight ==
  Spec => [](FrameComplete /\ HeadersFit /\ EndBitAlmost /\ PictureMarked)
<1>1. PacketInv => FrameComplete /\ HeadersFit /\ EndBitAlmost /\ PictureMarked
  BY DEF PacketInv
<1>2. QED  BY <1>1, PacketInvariant, StreamerPacketizes, PTL

(* A client that plays gets every packet of every key frame and parameter   *)
(* set, however the RTCP thread changes its level meanwhile.               *)
THEOREM KeyFramesArrive == Spec => []KeyFramesWhole
<1>1. IInv => KeyFramesWhole
  BY DEF IInv
<1>2. QED  BY <1>1, Inductive, PTL

(* At one level, a client gets all of a frame or nothing of it.            *)
THEOREM FramesAreWhole == Spec => []WholeAtOneLevel
<1>1. IInv => WholeAtOneLevel
  BY DEF IInv
<1>2. QED  BY <1>1, Inductive, PTL

(* What a client gets includes what any client of a higher level gets.     *)
THEOREM LayersAreNested == Spec => []LayersNest
<1>1. IInv => LayersNest
  BY DEF IInv
<1>2. QED  BY <1>1, Inductive, PTL
================================================================================
