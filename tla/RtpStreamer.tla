------------------------------ MODULE RtpStreamer ------------------------------
(***************************************************************************)
(* RTSP::Streamer and its RTSP::Clients (lib/rtsp/rtp_streamer.{h,cpp}):    *)
(* the packets RtpPacketizer cuts go to the clients of the list, each of    *)
(* which may be stopped, waiting for a frame to start with, or playing,    *)
(* and may leave out the frames of the higher temporal layers.             *)
(*                                                                         *)
(* The thread that delivers frames holds Streamer::_lock for one packet;    *)
(* talkers add and remove clients under that lock, but PLAY, the RTCP      *)
(* thread (rtcp.cpp:adjust_bitrate) and the application change a client     *)
(* without it.  So between any two packets of a frame all of this can      *)
(* happen, and within a packet nothing that matters does.                  *)
(***************************************************************************)
EXTENDS RtpPacketizer

CONSTANT Clients

VARIABLES
  index,         (* Streamer::_frame_index, modulo 4: skip_frame uses no more *)
  count,         (* how many packets of this frame were sent               *)
  state,         (* state[c]: Client::_state, or "none": not in the list   *)
  level,         (* level[c]: Client::_temporal_level                      *)
  got,           (* got[c]: how many packets of this frame c was sent      *)
  follows        (* follows[c]: has c been playing since this frame began, *)
                 (*   and without a change of level                        *)

clientVars == << state, level, got, follows >>
vars == << packetVars, index, count, clientVars >>

Levels == 0 .. 2

Init ==
  /\ PacketInit
  /\ index = 0
  /\ count = 0
  /\ state = [c \in Clients |-> "none"]
  /\ level = [c \in Clients |-> 0]
  /\ got = [c \in Clients |-> 0]
  /\ follows = [c \in Clients |-> "no"]

--------------------------------------------------------------------------------
(* The thread that sends frames                                            *)

(* Client::skip_frame: frame_index & (3 >> (2 - level)).  (SkipThirds,      *)
(* StartsLayers, PacketIsOver and MayAlwaysReduce are mutants.)             *)
SkipThirds(i, l) == i % (l + 1) # 0
Skip(i, l) == i % (2 ^ l) # 0

(* The frames that every layer contains start the count of frames anew.    *)
StartsLayers(k) == k = "s"
StartsGroup(k) == k \in {"s", "p", "I"}

FrameBegins(e, k, n) ==
  /\ BeginFrame(e, k, n)
  /\ index' = IF e = "H264" /\ StartsGroup(k) THEN 0 ELSE index
  /\ count' = 0
  /\ got' = [c \in Clients |-> 0]
  /\ follows' = [c \in Clients |-> IF state[c] = "PLAY" THEN "steady" ELSE "no"]
  /\ UNCHANGED << state, level >>

(* Client::send: a client that asked to play starts with an SPS, an MPEG4   *)
(* header or any JPEG, and is switched off when its socket fails.  Whether  *)
(* it leaves the frame out is decided anew for each packet.                *)
CanStart == encoder = "MJPEG" \/ type = "s"

Deliver ==
  LET starting == {c \in Clients : state[c] = "REQUEST" /\ CanStart}
      playing  == {c \in Clients : state[c] = "PLAY"} \cup starting
      included == {c \in playing : ~Skip(index, level[c])}
  IN \E failed \in SUBSET included :
       /\ state' = [c \in Clients |-> IF c \in failed THEN "STOP"
                                      ELSE IF c \in playing THEN "PLAY" ELSE state[c]]
       /\ got' = [c \in Clients |-> IF c \in included \ failed THEN got[c] + 1 ELSE got[c]]
       /\ follows' = [c \in Clients |-> IF c \in failed THEN "no"
                                        ELSE IF c \in starting /\ count = 0 THEN "steady"
                                        ELSE follows[c]]
       /\ count' = count + 1
       /\ level' = level

(* One packet; h264_send_frame() counts the frame after its last packet.    *)
PacketIsOver == TRUE
FrameIsOver == sending' = "nothing"

PacketGoesOut ==
  /\ SendWhole \/ SendFragment
  /\ Deliver
  /\ index' = IF encoder = "H264" /\ FrameIsOver THEN (index + 1) % 4 ELSE index

--------------------------------------------------------------------------------
(* The other threads                                                       *)

(* SETUP: Streamer::add_client constructs the client.                      *)
AddClient(c) ==
  /\ state[c] = "none"
  /\ state' = [state EXCEPT ![c] = "STOP"]
  /\ level' = [level EXCEPT ![c] = 0]
  /\ UNCHANGED << packetVars, index, count, got, follows >>

(* PLAY: Client::play, whatever the client is doing.                       *)
Play(c) ==
  /\ state[c] # "none"
  /\ state' = [state EXCEPT ![c] = "REQUEST"]
  /\ follows' = [follows EXCEPT ![c] = "no"]
  /\ UNCHANGED << packetVars, index, count, level, got >>

(* TEARDOWN: Streamer::delete_client.                                      *)
DeleteClient(c) ==
  /\ state[c] # "none"
  /\ state' = [state EXCEPT ![c] = "none"]
  /\ follows' = [follows EXCEPT ![c] = "no"]
  /\ UNCHANGED << packetVars, index, count, level, got >>

LevelChanges(c) == IF follows[c] = "steady" THEN "playing" ELSE follows[c]

(* The RTCP thread saw packets lost: Client::increase_level ...             *)
IncreaseLevel(c) ==
  /\ state[c] # "none"
  /\ level[c] < 2
  /\ level' = [level EXCEPT ![c] = @ + 1]
  /\ follows' = [follows EXCEPT ![c] = LevelChanges(c)]
  /\ UNCHANGED << packetVars, index, count, state, got >>

(* ... or none for some time: Client::reduce_level.                        *)
MayAlwaysReduce(l) == TRUE
MayReduce(l) == l > 0

ReduceLevel(c) ==
  /\ state[c] # "none"
  /\ MayReduce(level[c])
  /\ level' = [level EXCEPT ![c] = @ - 1]
  /\ follows' = [follows EXCEPT ![c] = LevelChanges(c)]
  /\ UNCHANGED << packetVars, index, count, state, got >>

(* Streamer::set_temporal_level, for all the clients of the list.          *)
SetTemporalLevel(l) ==
  LET listed == {c \in Clients : state[c] # "none"}
  IN /\ level' = [c \in Clients |-> IF c \in listed THEN l ELSE level[c]]
     /\ follows' = [c \in Clients |-> IF c \in listed THEN LevelChanges(c) ELSE follows[c]]
     /\ UNCHANGED << packetVars, index, count, state, got >>

Next ==
  \/ \E e \in Encoders, k \in FrameTypes, n \in 1 .. MaxFrame : FrameBegins(e, k, n)
  \/ PacketGoesOut
  \/ \E c \in Clients : \/ AddClient(c) \/ Play(c) \/ DeleteClient(c)
                        \/ IncreaseLevel(c) \/ ReduceLevel(c)
  \/ \E l \in Levels : SetTemporalLevel(l)

Spec == Init /\ [][Next]_vars

--------------------------------------------------------------------------------
(* Properties                                                              *)

TypeOK ==
  /\ PacketTypeOK
  /\ index \in 0 .. 3
  /\ count \in Nat
  /\ state \in [Clients -> {"none", "STOP", "REQUEST", "PLAY"}]
  /\ level \in [Clients -> Levels]
  /\ got \in [Clients -> Nat]
  /\ follows \in [Clients -> {"no", "playing", "steady"}]

Playing(c) == follows[c] \in {"playing", "steady"}

(* No client that plays ever misses a packet of an SPS, a PPS or a key      *)
(* frame, whatever its level is and however it changes: they have index 0,  *)
(* set before the first packet and left alone until after the last.        *)
KeyFramesWhole ==
  \A c \in Clients :
    encoder = "H264" /\ type \in {"s", "p", "I"} /\ Playing(c) => got[c] = count

(* A frame is sent to a client as a whole or not at all, while its level    *)
(* stays the same.                                                          *)
WholeAtOneLevel ==
  \A c \in Clients : follows[c] = "steady" => got[c] \in {0, count}

(* The frames of a client that leaves out more are among the frames of one  *)
(* that leaves out less, so reducing the level only adds frames.           *)
LayersNest ==
  \A c, d \in Clients :
    /\ follows[c] = "steady" /\ follows[d] = "steady"
    /\ level[d] <= level[c]
    => got[c] <= got[d]
================================================================================
