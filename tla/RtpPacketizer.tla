----------------------------- MODULE RtpPacketizer -----------------------------
(***************************************************************************)
(* How RTSP::Streamer cuts a frame into RTP packets (lib/rtsp/             *)
(* rtp_streamer.cpp).  Nothing is copied: the headers of each packet are   *)
(* written into the frame itself, in front of the payload, over bytes that *)
(* have been sent before or that the caller left free before the frame.    *)
(* The pointer arithmetic is modelled exactly, on positions relative to    *)
(* the first byte of the frame; what the bytes are is not.                 *)
(***************************************************************************)
EXTENDS Integers

(* NoNalHeader, MarkAnyFrame, LastPacketBelow and ConsumedWithoutHeader are  *)
(* mutants: what the properties would find if the code were wrong.         *)

CONSTANTS
  PacketSize,      (* Streamer::_packet_size                               *)
  MaxFrame         (* bound: the longest frame                             *)

ASSUME PacketizerAssumption ==
  /\ PacketSize \in Nat \ {0}
  /\ MaxFrame \in Nat

TCP_PREFIX   == 4
RTP_HEADER   == 12
MJPEG_HEADER == 8
FU_INDICATOR == 1
FU_HEADER    == 1

Encoders == {"H264", "MJPEG", "MPEG4"}
(* "s" is an SPS, or the MPEG4 frame that carries the headers of the stream; *)
(* "p" a PPS, "I" a key frame, "P" any other frame.                        *)
FrameTypes == {"s", "p", "I", "P"}
ParamSet(type) == type \in {"s", "p"}

VARIABLES
  encoder,         (* Source::encoder_type() when the frame was given      *)
  type,            (* Streamer::_frame_type, _mp4_starter_frame            *)
  size,            (* the size of the frame given to send_frame()          *)
  sending,         (* what send_frame() is doing with it                   *)
  frame,           (* the parameter "frame", where the next header goes    *)
  left,            (* the parameter "frame_size", what is left of it       *)
  first,           (* first_fragment                                       *)
  packet,          (* the packet last given to send_packet()               *)
  clobbered,       (* positions that headers of this frame were written to *)
  covered,         (* positions sent as payload, still holding their byte  *)
  bytes            (* how many bytes of payload were sent                  *)

frameVars  == << encoder, type, size >>
packetVars == << frameVars, sending, frame, left, first, packet, clobbered, covered, bytes >>

NoPacket == [from |-> 0, to |-> -1, start |-> FALSE, end |-> FALSE, marker |-> FALSE]

PacketInit ==
  /\ encoder = "H264" /\ type = "P" /\ size = 0
  /\ sending = "nothing"
  /\ frame = 0 /\ left = 0 /\ first = 0
  /\ packet = NoPacket
  /\ clobbered = {} /\ covered = {} /\ bytes = 0

--------------------------------------------------------------------------------
Fragmented(e, n) == e = "MJPEG" \/ n > PacketSize

(* What stands between the place of the RTP header and the payload.        *)
Header(e, n) ==
  CASE e = "MJPEG"                      -> RTP_HEADER + MJPEG_HEADER
    [] e = "H264" /\ Fragmented(e, n)   -> RTP_HEADER + FU_INDICATOR + FU_HEADER
    [] OTHER                            -> RTP_HEADER

(* The FU header takes the place of the NAL header, the first byte of the  *)
(* frame, so that byte is not payload.                                     *)
NoNalHeader(e, n) == 0
NalHeader(e, n) == IF e = "H264" /\ Fragmented(e, n) THEN FU_HEADER ELSE 0

(* The prologues of h264_, mpeg4_ and mjpeg_send_frame().                   *)
BeginFrame(e, k, n) ==
  /\ sending = "nothing"
  /\ encoder' = e /\ type' = k /\ size' = n
  /\ sending' = IF Fragmented(e, n) THEN "fragments" ELSE "whole"
  /\ frame'   = NalHeader(e, n) - Header(e, n)
  /\ left'    = n
  /\ first'   = NalHeader(e, n)
  /\ packet'  = NoPacket
  /\ clobbered' = {} /\ covered' = {} /\ bytes' = 0

(* write_rtp_header() and the other header, send_packet(): its payload is   *)
(* as long as it can be.                                                    *)
WritePacket(length, start, end, marker) ==
  LET from == frame + Header(encoder, size)
      to   == from + length - 1
  IN /\ packet'    = [from |-> from, to |-> to, start |-> start, end |-> end, marker |-> marker]
     /\ clobbered' = clobbered \cup (frame - TCP_PREFIX .. from - 1)
     /\ covered'   = covered \cup ((from .. to) \ (frame - TCP_PREFIX .. from - 1 \cup clobbered))
     /\ bytes'     = bytes + length

(* A frame that fits is sent in one packet.  A parameter set is not marked: *)
(* it belongs to the picture that follows.                                  *)
MarkAnyFrame(k) == TRUE
MarkFrame(k) == ~ParamSet(k)

SendWhole ==
  /\ sending = "whole"
  /\ WritePacket(left, FALSE, FALSE,
                 IF encoder = "H264" THEN MarkFrame(type) ELSE type # "s")
  /\ sending' = "nothing"
  /\ UNCHANGED << frameVars, frame, left, first >>

(* One turn of a do ... while loop.  The End bit of the FU header is set,   *)
(* and the Start bit cleared, in _fu_header, which outlives the turn; only  *)
(* H264 has them.                                                           *)
LastPacketBelow(n) == n < PacketSize
LastPacket(n) == n <= PacketSize
ConsumedWithoutHeader(f) == PacketSize
Consumed(f) == PacketSize + f

SendFragment ==
  LET last == LastPacket(left)
      h264 == encoder = "H264"
  IN /\ sending = "fragments"
     /\ WritePacket(IF left < PacketSize THEN left ELSE PacketSize,
                    h264 /\ first = FU_HEADER,
                    h264 /\ last,
                    last /\ ~(h264 /\ ParamSet(type)))
     /\ frame'   = frame + PacketSize
     /\ left'    = left - Consumed(first)
     /\ first'   = 0
     /\ sending' = IF left' > 0 THEN "fragments" ELSE "nothing"
     /\ UNCHANGED frameVars

PacketNext ==
  \/ \E e \in Encoders, k \in FrameTypes, n \in 1 .. MaxFrame : BeginFrame(e, k, n)
  \/ SendWhole
  \/ SendFragment

PacketSpec == PacketInit /\ [][PacketNext]_packetVars

--------------------------------------------------------------------------------
(* Properties                                                              *)

PacketTypeOK ==
  /\ encoder \in Encoders
  /\ type \in FrameTypes
  /\ size \in 0 .. MaxFrame
  /\ sending \in {"nothing", "whole", "fragments"}
  /\ frame \in Int /\ left \in Int /\ first \in {0, FU_HEADER}
  /\ packet \in [from : Int, to : Int, start : BOOLEAN, end : BOOLEAN, marker : BOOLEAN]
  /\ clobbered \subseteq Int /\ covered \subseteq Int
  /\ bytes \in Int

(* Every byte of a frame is sent exactly once, and before a header is       *)
(* written over it; of a fragmented NAL unit, every byte but the NAL header, *)
(* which the FU headers stand for.                                          *)
FrameComplete ==
  sending = "nothing" /\ size > 0 =>
    /\ covered = NalHeader(encoder, size) .. size - 1
    /\ bytes = size - NalHeader(encoder, size)

(* The headers stay within the room in front of the frame: 17 bytes for the *)
(* elementary streams ("it must have 17 bytes in front of it free",         *)
(* rtp_streamer.h:96), but 24 for MJPEG.                                    *)
HeadersFit ==
  \A x \in clobbered : x >= - (IF encoder = "MJPEG" THEN 24 ELSE 17)

(* "When set to one, the End bit indicates the end of a fragmented NAL unit, *)
(* i.e., the last byte of the payload is also the last byte of the          *)
(* fragmented NAL unit.  When the following FU payload is not the last      *)
(* fragment of a fragmented NAL unit, the End bit is set to zero."          *)
(* (rtp_streamer.cpp:131)  It is never set early, and it is only missing    *)
(* from a NAL unit that is one byte longer than a packet's payload.         *)
IsLast == packet.to = size - 1
EndBitAlmost ==
  packet # NoPacket /\ encoder = "H264" /\ size # PacketSize + 1 /\ Fragmented(encoder, size)
    => (packet.end <=> IsLast)

(* The marker tells a receiver that a picture is complete: it is set on the *)
(* last packet of every picture, except of the NAL unit above.  A parameter *)
(* set is no picture; an MPEG4 one is not marked if it fits in a packet.    *)
PictureMarked ==
  packet # NoPacket =>
    /\ encoder = "H264" =>
         (packet.marker <=> IsLast /\ ~ParamSet(type) /\ size # PacketSize + 1)
    /\ encoder # "H264" /\ type # "s" => (packet.marker <=> IsLast)
================================================================================
