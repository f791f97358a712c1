-------------------------- MODULE RtpPacketizerProofs --------------------------
(***************************************************************************)
(* What holds of RtpPacketizer for every packet size and every frame,      *)
(* however long.                                                           *)
(***************************************************************************)
EXTENDS RtpPacketizer, TLAPS

(* The first byte that was not sent yet.                                   *)
NextByte == frame + Header(encoder, size)

(* Between the turns of a loop, what was sent is what stands before         *)
(* NextByte; headers are only ever written below it.  The loop counts the   *)
(* NAL header among what is left until it has sent the first fragment.      *)
InLoop ==
  /\ Fragmented(encoder, size)
  /\ left >= 1
  /\ left = size - NextByte + first
  /\ NextByte >= NalHeader(encoder, size)
  /\ first = FU_HEADER => encoder = "H264" /\ NextByte = FU_HEADER
  /\ first = 0 /\ encoder = "H264" => NextByte >= PacketSize + FU_HEADER
  /\ covered = NalHeader(encoder, size) .. NextByte - 1
  /\ bytes = NextByte - NalHeader(encoder, size)
  /\ \A x \in clobbered : x < NextByte

AboutToSend ==
  /\ ~Fragmented(encoder, size)
  /\ left = size
  /\ frame = -RTP_HEADER
  /\ first = 0
  /\ clobbered = {} /\ covered = {} /\ bytes = 0

(* The parts of the inductive invariant.                                   *)
PacketInv ==
  /\ PacketTypeOK
  /\ sending # "nothing" => size >= 1
  /\ sending = "whole" => AboutToSend
  /\ sending = "fragments" => InLoop
  /\ FrameComplete
  /\ HeadersFit
  /\ EndBitAlmost
  /\ PictureMarked

USE PacketizerAssumption DEF TCP_PREFIX, RTP_HEADER, MJPEG_HEADER, FU_INDICATOR, FU_HEADER

--------------------------------------------------------------------------------
(* Lemmas                                                                  *)

(* The headers take between 12 and 20 bytes.                               *)
LEMMA HeaderSizes ==
  ASSUME NEW e \in Encoders, NEW n \in Nat
  PROVE  /\ e = "MJPEG" => Fragmented(e, n) /\ Header(e, n) = 20 /\ NalHeader(e, n) = 0
         /\ e = "MPEG4" => Header(e, n) = 12 /\ NalHeader(e, n) = 0
         /\ e = "H264" /\ Fragmented(e, n) => Header(e, n) = 14 /\ NalHeader(e, n) = 1
         /\ e = "H264" /\ ~Fragmented(e, n) => Header(e, n) = 12 /\ NalHeader(e, n) = 0
         /\ Header(e, n) \in Int /\ NalHeader(e, n) \in {0, 1}
         /\ ~Fragmented(e, n) => n <= PacketSize
         /\ Fragmented(e, n) /\ e # "MJPEG" => n > PacketSize
  BY DEF Encoders, Fragmented, Header, NalHeader

(* The record a packet is described by.                                    *)
LEMMA PacketRecord ==
  ASSUME NEW from \in Int, NEW to \in Int, NEW start \in BOOLEAN, NEW end \in BOOLEAN,
         NEW marker \in BOOLEAN
  PROVE  [from |-> from, to |-> to, start |-> start, end |-> end, marker |-> marker]
           \in [from : Int, to : Int, start : BOOLEAN, end : BOOLEAN, marker : BOOLEAN]
  BY Zenon

(* A packet whose payload starts above everything written so far adds its   *)
(* payload to what was sent.                                               *)
LEMMA PacketAdds ==
  ASSUME PacketTypeOK, NEW length \in Nat, length >= 1,
         NEW start \in BOOLEAN, NEW end \in BOOLEAN, NEW marker \in BOOLEAN,
         \A x \in clobbered : x < NextByte,
         WritePacket(length, start, end, marker)
  PROVE  /\ packet' \in [from : Int, to : Int, start : BOOLEAN, end : BOOLEAN, marker : BOOLEAN]
         /\ packet'.to = NextByte + length - 1
         /\ packet'.end = end /\ packet'.marker = marker
         /\ covered' = covered \cup (NextByte .. NextByte + length - 1)
         /\ bytes' = bytes + length
         /\ clobbered' = clobbered \cup (frame - TCP_PREFIX .. NextByte - 1)
         /\ clobbered' \subseteq Int /\ covered' \subseteq Int /\ bytes' \in Int
         /\ NextByte \in Int
<1>1. size \in Nat /\ encoder \in Encoders /\ frame \in Int /\ clobbered \subseteq Int
      /\ covered \subseteq Int /\ bytes \in Int
  BY DEF PacketTypeOK
<1>2. Header(encoder, size) \in Int
  BY <1>1, HeaderSizes
<1>3. NextByte \in Int
  BY <1>1, <1>2 DEF NextByte
<1> DEFINE from == frame + Header(encoder, size)
           to   == from + length - 1
<1>4. from = NextByte /\ from \in Int /\ to \in Int
  BY <1>3 DEF NextByte
<1>5. packet' = [from |-> from, to |-> to, start |-> start, end |-> end, marker |-> marker]
  BY DEF WritePacket
<1>6. clobbered' = clobbered \cup (frame - TCP_PREFIX .. from - 1)
  BY DEF WritePacket
<1>7. covered' = covered \cup ((from .. to) \ (frame - TCP_PREFIX .. from - 1 \cup clobbered))
  BY DEF WritePacket
<1>8. bytes' = bytes + length
  BY DEF WritePacket
<1> HIDE DEF from, to
<1>9. packet' \in [from : Int, to : Int, start : BOOLEAN, end : BOOLEAN, marker : BOOLEAN]
  BY <1>4, <1>5, PacketRecord
<1>10. packet'.to = to /\ packet'.end = end /\ packet'.marker = marker
  BY <1>5, Zenon
<1>11. \A x \in from .. to : x \notin (frame - TCP_PREFIX .. from - 1 \cup clobbered)
  BY <1>1, <1>4
<1>12. covered' = covered \cup (from .. to)
  BY <1>7, <1>11
<1>13. clobbered' \subseteq Int /\ covered' \subseteq Int /\ bytes' \in Int
  BY <1>1, <1>4, <1>6, <1>8, <1>12
<1>14. to = NextByte + length - 1
  BY <1>4 DEF to
<1>15. QED  BY <1>3, <1>4, <1>6, <1>8, <1>9, <1>10, <1>12, <1>13, <1>14

--------------------------------------------------------------------------------
(* The steps preserve the invariant                                        *)

(* A frame begins: nothing is written or sent yet.                         *)
LEMMA BeginPreserves ==
  ASSUME PacketInv, NEW e \in Encoders, NEW k \in FrameTypes, NEW n \in 1 .. MaxFrame,
         BeginFrame(e, k, n)
  PROVE  PacketInv'
<1> DEFINE nal == NalHeader(e, n)
           head == Header(e, n)
<1>1. /\ encoder' = e /\ type' = k /\ size' = n /\ left' = n
      /\ frame' = nal - head /\ first' = nal
      /\ sending' = IF Fragmented(e, n) THEN "fragments" ELSE "whole"
      /\ packet' = NoPacket /\ clobbered' = {} /\ covered' = {} /\ bytes' = 0
  BY DEF BeginFrame
<1>2. n \in Nat /\ n >= 1
  OBVIOUS
<1>3. /\ e = "MJPEG" => Fragmented(e, n) /\ head = 20 /\ nal = 0
      /\ e = "MPEG4" => head = 12 /\ nal = 0
      /\ e = "H264" /\ Fragmented(e, n) => head = 14 /\ nal = 1
      /\ e = "H264" /\ ~Fragmented(e, n) => head = 12 /\ nal = 0
      /\ head \in Int /\ nal \in {0, 1}
  BY <1>2, HeaderSizes
<1> HIDE DEF nal, head
<1>4. PacketTypeOK'
  <2>1. NoPacket \in [from : Int, to : Int, start : BOOLEAN, end : BOOLEAN, marker : BOOLEAN]
    BY PacketRecord DEF NoPacket
  <2>2. size' \in 0 .. MaxFrame
    BY <1>1
  <2>3. QED  BY <1>1, <1>3, <2>1, <2>2 DEF PacketTypeOK, Encoders
<1>5. (sending = "whole")' => AboutToSend'
  BY <1>1, <1>3 DEF AboutToSend, Encoders, Fragmented
<1>6. (sending = "fragments")' => InLoop'
  <2>1. SUFFICES ASSUME Fragmented(e, n)  PROVE InLoop'
    BY <1>1
  <2>2. Header(encoder, size)' = head /\ NalHeader(encoder, size)' = nal
    BY <1>1 DEF Header, NalHeader, Fragmented, head, nal
  <2>3. NextByte' = nal
    BY <1>1, <1>3, <2>2 DEF NextByte
  <2>4. Fragmented(encoder, size)'
    BY <1>1, <2>1 DEF Fragmented
  <2>5. e # "H264" => nal = 0
    BY <1>3 DEF Encoders
  <2>6. e = "H264" => nal = 1
    BY <1>3, <2>1
  <2>7. covered' = nal .. nal - 1 /\ bytes' = nal - nal
    BY <1>1, <1>3
  <2>8. QED  BY <1>1, <1>2, <1>3, <2>2, <2>3, <2>4, <2>5, <2>6, <2>7 DEF InLoop
<1>7. sending' # "nothing" /\ size' >= 1
  BY <1>1, <1>2
<1>8. QED  BY <1>1, <1>4, <1>5, <1>6, <1>7
           DEF PacketInv, FrameComplete, HeadersFit, EndBitAlmost, PictureMarked

(* A frame that fits goes out in one packet.                               *)
LEMMA WholePreserves ==
  ASSUME PacketInv, SendWhole
  PROVE  PacketInv'
<1> DEFINE mark == IF encoder = "H264" THEN MarkFrame(type) ELSE type # "s"
<1>1. PacketTypeOK /\ AboutToSend /\ size \in Nat /\ size >= 1 /\ encoder \in Encoders
  BY DEF PacketInv, SendWhole, PacketTypeOK
<1>2. /\ sending' = "nothing" /\ encoder' = encoder /\ type' = type /\ size' = size
      /\ frame' = frame /\ left' = left /\ first' = first
      /\ WritePacket(size, FALSE, FALSE, mark)
  BY <1>1 DEF SendWhole, frameVars, AboutToSend
<1>3. /\ Header(encoder, size) = 12 /\ NalHeader(encoder, size) = 0
      /\ ~Fragmented(encoder, size) /\ size <= PacketSize /\ encoder # "MJPEG"
  BY <1>1, HeaderSizes DEF AboutToSend, Encoders
<1>4. NextByte = 0
  BY <1>1, <1>3 DEF NextByte, AboutToSend
<1>5. mark \in BOOLEAN /\ (encoder = "H264" => (mark <=> ~ParamSet(type)))
      /\ (encoder # "H264" /\ type # "s" => mark)
  BY DEF MarkFrame
<1> HIDE DEF mark
<1>6. /\ packet' \in [from : Int, to : Int, start : BOOLEAN, end : BOOLEAN, marker : BOOLEAN]
      /\ packet'.to = size - 1
      /\ packet'.marker = mark
      /\ covered' = 0 .. size - 1 /\ bytes' = size
      /\ clobbered' = -16 .. -1
      /\ clobbered' \subseteq Int /\ covered' \subseteq Int /\ bytes' \in Int
  <2>1. \A x \in clobbered : x < NextByte
    BY <1>1 DEF AboutToSend
  <2>2. /\ packet' \in [from : Int, to : Int, start : BOOLEAN, end : BOOLEAN, marker : BOOLEAN]
        /\ packet'.to = NextByte + size - 1 /\ packet'.marker = mark
        /\ covered' = covered \cup (NextByte .. NextByte + size - 1)
        /\ bytes' = bytes + size
        /\ clobbered' = clobbered \cup (frame - TCP_PREFIX .. NextByte - 1)
        /\ clobbered' \subseteq Int /\ covered' \subseteq Int /\ bytes' \in Int
    BY <1>1, <1>2, <1>5, <2>1, PacketAdds
  <2>3. QED  BY <1>1, <1>4, <2>2 DEF AboutToSend
<1>7. PacketTypeOK'
  BY <1>1, <1>2, <1>6 DEF PacketTypeOK
<1>8. FrameComplete'
  BY <1>2, <1>3, <1>6 DEF FrameComplete, NalHeader, Fragmented
<1>9. HeadersFit'
  BY <1>6 DEF HeadersFit
<1>10. EndBitAlmost'
  BY <1>2, <1>3 DEF EndBitAlmost, Fragmented
<1>11. IsLast' /\ size # PacketSize + 1
  BY <1>1, <1>2, <1>3, <1>6 DEF IsLast
<1>12. PictureMarked'
  <2>1. packet'.marker = mark /\ ParamSet(type)' = ParamSet(type)
    BY <1>2, <1>6 DEF ParamSet
  <2>2. QED  BY <1>2, <1>5, <1>11, <2>1, Zenon DEF PictureMarked
<1>13. QED  BY <1>2, <1>7, <1>8, <1>9, <1>10, <1>12 DEF PacketInv

(* A turn of a loop sends the bytes from NextByte on, as many as fit.      *)
LEMMA FragmentPreserves ==
  ASSUME PacketInv, SendFragment
  PROVE  PacketInv'
<1> DEFINE nal    == NalHeader(encoder, size)
           last   == left <= PacketSize
           length == IF left < PacketSize THEN left ELSE PacketSize
           h264   == encoder = "H264"
           start  == h264 /\ first = FU_HEADER
           end    == h264 /\ last
           mark   == last /\ ~(h264 /\ ParamSet(type))
<1>1. /\ PacketTypeOK /\ InLoop /\ size \in Nat /\ size >= 1 /\ encoder \in Encoders
      /\ frame \in Int /\ left \in Int /\ left >= 1 /\ first \in {0, 1}
  BY DEF PacketInv, SendFragment, PacketTypeOK, InLoop
<1>2. /\ encoder' = encoder /\ type' = type /\ size' = size
      /\ frame' = frame + PacketSize
      /\ left' = left - (PacketSize + first)
      /\ first' = 0
      /\ sending' = IF left' > 0 THEN "fragments" ELSE "nothing"
      /\ WritePacket(length, start, end, mark)
  BY DEF SendFragment, frameVars, Consumed, LastPacket
<1>3. /\ encoder = "MJPEG" => Header(encoder, size) = 20 /\ nal = 0
      /\ encoder = "MPEG4" => Header(encoder, size) = 12 /\ nal = 0
      /\ encoder = "H264" => Header(encoder, size) = 14 /\ nal = 1
      /\ encoder # "MJPEG" => size > PacketSize
      /\ nal \in {0, 1}
  BY <1>1, HeaderSizes DEF InLoop, Encoders
<1>4. /\ NextByte = frame + Header(encoder, size) /\ NextByte \in Int
      /\ left = size - NextByte + first
      /\ NextByte >= nal
      /\ first = 1 => h264 /\ NextByte = 1
      /\ first = 0 /\ h264 => NextByte >= PacketSize + 1
      /\ covered = nal .. NextByte - 1 /\ bytes = NextByte - nal
      /\ \A x \in clobbered : x < NextByte
  BY <1>1, <1>3 DEF InLoop, NextByte, Encoders
<1>5. length \in Nat /\ length >= 1 /\ length <= PacketSize
  BY <1>1
(* The arithmetic of the loop, without the definitions behind it.          *)
<1>a. NextByte \in Int /\ length \in Int /\ size \in Int /\ nal \in Int /\ frame \in Int
      /\ left \in Int /\ first \in {0, 1} /\ PacketSize \in Int
  BY <1>1, <1>3, <1>4, <1>5
<1>6. start \in BOOLEAN /\ end \in BOOLEAN /\ mark \in BOOLEAN
  OBVIOUS
<1>7. NextByte' = NextByte + PacketSize
  <2>1. Header(encoder, size)' = Header(encoder, size)
    BY <1>2 DEF Header, Fragmented
  <2>2. NextByte' = frame + PacketSize + Header(encoder, size)
    BY <1>2, <2>1 DEF NextByte
  <2>3. Header(encoder, size) \in Int
    BY <1>1, HeaderSizes
  <2>4. frame \in Int /\ NextByte = frame + Header(encoder, size)
    BY <1>1, <1>4
  <2>5. QED  BY <2>2, <2>3, <2>4
<1>8. /\ packet' \in [from : Int, to : Int, start : BOOLEAN, end : BOOLEAN, marker : BOOLEAN]
      /\ packet'.to = NextByte + length - 1
      /\ packet'.end = end /\ packet'.marker = mark
      /\ covered' = covered \cup (NextByte .. NextByte + length - 1)
      /\ bytes' = bytes + length
      /\ clobbered' = clobbered \cup (frame - TCP_PREFIX .. NextByte - 1)
      /\ clobbered' \subseteq Int /\ covered' \subseteq Int /\ bytes' \in Int
  <2> HIDE DEF length, start, end, mark
  <2>1. QED  BY <1>1, <1>2, <1>4, <1>5, <1>6, PacketAdds
<1>9. /\ covered' = nal .. NextByte + length - 1
      /\ bytes' = NextByte + length - nal
  <2>1. /\ covered = nal .. NextByte - 1 /\ bytes = NextByte - nal /\ NextByte >= nal
        /\ length >= 1
        /\ covered' = covered \cup (NextByte .. NextByte + length - 1)
        /\ bytes' = bytes + length
    BY <1>4, <1>5, <1>8
  <2> HIDE DEF length, nal
  <2>2. QED  BY <1>a, <2>1
<1>10. (NalHeader(encoder, size))' = nal /\ Fragmented(encoder, size)'
  BY <1>1, <1>2 DEF InLoop, Fragmented, NalHeader
(* What is left is counted right again, once the NAL header is accounted.  *)
<1>11. left' = size - NextByte'
  <2>1. left' = left - (PacketSize + first) /\ left = size - NextByte + first
    BY <1>2, <1>4
  <2>2. QED  BY <1>a, <1>7, <2>1
(* The loop ends when the last byte of the frame was sent, not before.     *)
<1>12. left' <= 0 => NextByte + length = size
  <2>1. left' = left - (PacketSize + first) /\ left = size - NextByte + first
    BY <1>2, <1>4
  <2>2. CASE first = 0  BY <1>1, <1>4, <2>1, <2>2
  <2>3. CASE first = 1
    <3>1. NextByte = 1 /\ size > PacketSize
      BY <1>3, <1>4, <2>3
    <3>2. QED  BY <1>1, <2>1, <2>3, <3>1
  <2>4. QED  BY <1>1, <2>2, <2>3
<1>13. left' > 0 => length = PacketSize
  BY <1>1, <1>2
<1>14. PacketTypeOK'
  BY <1>1, <1>2, <1>8 DEF PacketTypeOK
<1>15. (sending = "fragments")' => InLoop'
  <2>1. SUFFICES ASSUME left' > 0  PROVE InLoop'
    BY <1>2
  <2>2. length = PacketSize
    BY <1>13, <2>1
  <2>3. left' \in Int /\ left' >= 1
    BY <1>1, <1>2, <2>1
  <2>4. left' = size' - NextByte' + first'
    BY <1>1, <1>2, <1>4, <1>7, <1>11
  <2>5. NextByte' >= nal
    BY <1>3, <1>4, <1>7
  <2>6. encoder' = "H264" => NextByte' >= PacketSize + 1
    BY <1>2, <1>3, <1>4, <1>7
  <2>7. covered' = nal .. NextByte' - 1 /\ bytes' = NextByte' - nal
    BY <1>3, <1>4, <1>7, <1>9, <2>2
  <2>8. \A x \in clobbered' : x < NextByte'
    <3>1. clobbered \subseteq Int
      BY <1>1 DEF PacketTypeOK
    <3>2. TAKE x \in clobbered'
    <3>3. x \in clobbered \/ x \in frame - TCP_PREFIX .. NextByte - 1
      BY <1>8
    <3>4. x < NextByte /\ x \in Int
      <4>1. NextByte \in Int /\ frame \in Int
        BY <1>1, <1>4
      <4>2. CASE x \in clobbered  BY <1>4, <3>1, <4>2
      <4>3. CASE x \in frame - TCP_PREFIX .. NextByte - 1  BY <4>1, <4>3
      <4>4. QED  BY <3>3, <4>2, <4>3
    <3>5. QED  BY <1>4, <1>7, <3>4
  <2>9. first' = 0
    BY <1>2
  <2>10. QED  BY <1>10, <2>3, <2>4, <2>5, <2>6, <2>7, <2>8, <2>9 DEF InLoop
<1>16. FrameComplete'
  <2>1. SUFFICES ASSUME left' <= 0  PROVE FrameComplete'
    BY <1>1, <1>2 DEF FrameComplete
  <2>2. covered' = nal .. size - 1 /\ bytes' = size - nal
    <3>1. NextByte \in Int /\ length \in Int /\ size \in Int /\ nal \in Int
      BY <1>1, <1>3, <1>4, <1>5
    <3> HIDE DEF length, nal
    <3>2. NextByte + length = size
      BY <1>12, <2>1
    <3>3. QED  BY <1>9, <3>1, <3>2
  <2>3. QED  BY <1>2, <1>10, <2>2 DEF FrameComplete
<1>17. HeadersFit'
  <2>1. HeadersFit
    BY DEF PacketInv
  <2>2. frame - TCP_PREFIX >= -(IF encoder = "MJPEG" THEN 24 ELSE 17)
    <3>1. NextByte >= nal /\ NextByte = frame + Header(encoder, size)
      BY <1>4
    <3> HIDE DEF nal
    <3>2. CASE encoder = "MJPEG"  BY <1>3, <1>a, <3>1, <3>2
    <3>3. CASE encoder = "MPEG4"  BY <1>3, <1>a, <3>1, <3>3
    <3>4. CASE encoder = "H264"  BY <1>3, <1>a, <3>1, <3>4
    <3>5. QED  BY <1>1, <3>2, <3>3, <3>4 DEF Encoders
  <2>3. SUFFICES ASSUME NEW x \in clobbered'
                PROVE  x >= -(IF encoder = "MJPEG" THEN 24 ELSE 17)
    BY <1>2 DEF HeadersFit
  <2>4. CASE x \in clobbered  BY <2>1, <2>4 DEF HeadersFit
  <2>5. CASE x \in frame - TCP_PREFIX .. NextByte - 1  BY <1>1, <1>4, <2>2, <2>5
  <2>6. QED  BY <1>8, <2>4, <2>5
<1>18. IsLast' <=> NextByte + length = size
  <2>1. packet'.to = NextByte + length - 1 /\ size' = size
    BY <1>2, <1>8
  <2> HIDE DEF length
  <2>2. IsLast' <=> NextByte + length - 1 = size - 1
    BY <2>1 DEF IsLast
  <2>3. NextByte \in Int /\ length \in Int /\ size \in Int
    BY <1>1, <1>4, <1>5
  <2>4. QED  BY <2>2, <2>3
(* The packet is the last one if the loop says so, except when the frame    *)
(* is one byte longer than a packet's payload.                             *)
<1>19. h264 /\ size # PacketSize + 1 => (last <=> IsLast')
  <2>1. IsLast' <=> NextByte + length = size
    BY <1>18
  <2>2. left = size - NextByte + first /\ (first = 1 => NextByte = 1)
    BY <1>4
  <2>3. CASE first = 0  BY <1>a, <2>1, <2>2, <2>3
  <2>4. CASE first = 1
    <3>1. h264 => size > PacketSize
      BY <1>3
    <3> HIDE DEF h264
    <3>2. QED  BY <1>a, <2>1, <2>2, <2>4, <3>1
  <2>5. QED  BY <1>a, <2>3, <2>4
<1>20. h264 /\ size = PacketSize + 1 => ~last
  <2>1. SUFFICES ASSUME h264, size = PacketSize + 1  PROVE left > PacketSize
    BY <1>a
  <2>2. /\ left = size - NextByte + first /\ left >= 1
        /\ first = 1 => NextByte = 1
        /\ first = 0 => NextByte >= PacketSize + 1
    BY <1>1, <1>4, <2>1
  <2>3. CASE first = 0  BY <1>a, <2>1, <2>2, <2>3
  <2>4. CASE first = 1  BY <1>a, <2>1, <2>2, <2>4
  <2>5. QED  BY <1>a, <2>3, <2>4
<1>21. ~h264 => (last <=> IsLast')
  <2>1. IsLast' <=> NextByte + length = size
    BY <1>18
  <2>2. QED  BY <1>1, <1>4, <2>1
<1>22. ParamSet(type)' = ParamSet(type)
  BY <1>2 DEF ParamSet
<1>23. EndBitAlmost'
  <2> HIDE DEF last
  <2>1. QED  BY <1>2, <1>8, <1>19, Zenon DEF EndBitAlmost
<1>24. PictureMarked'
  <2>1. ASSUME h264
        PROVE  packet'.marker <=> IsLast' /\ ~ParamSet(type) /\ size # PacketSize + 1
    <3> HIDE DEF last
    <3>1. CASE size = PacketSize + 1  BY <1>8, <1>20, <2>1, <3>1, Zenon
    <3>2. CASE size # PacketSize + 1  BY <1>8, <1>19, <2>1, <3>2, Zenon
    <3>3. QED  BY <3>1, <3>2
  <2>2. ASSUME ~h264
        PROVE  packet'.marker <=> IsLast'
    <3> HIDE DEF last
    <3>1. QED  BY <1>8, <1>21, <2>2, Zenon
  <2>3. QED  BY <1>2, <1>22, <2>1, <2>2, Zenon DEF PictureMarked
<1>25. sending' # "nothing" => size' >= 1
  BY <1>1, <1>2
<1>26. sending' # "whole"
  BY <1>2
<1>27. QED  BY <1>14, <1>15, <1>16, <1>17, <1>23, <1>24, <1>25, <1>26 DEF PacketInv

(* No frame was given yet.                                                 *)
LEMMA PacketInitially == PacketInit => PacketInv
<1> SUFFICES ASSUME PacketInit  PROVE PacketInv
  OBVIOUS
<1>1. NoPacket \in [from : Int, to : Int, start : BOOLEAN, end : BOOLEAN, marker : BOOLEAN]
  BY PacketRecord DEF NoPacket
<1>2. PacketTypeOK
  BY <1>1 DEF PacketInit, PacketTypeOK, Encoders, FrameTypes
<1>3. QED  BY <1>2 DEF PacketInit, PacketInv, FrameComplete, HeadersFit, EndBitAlmost,
                       PictureMarked

(* A step of the thread that sends, or none, preserves the invariant.      *)
LEMMA PacketStep == PacketInv /\ [PacketNext]_packetVars => PacketInv'
<1> SUFFICES ASSUME PacketInv, [PacketNext]_packetVars  PROVE PacketInv'
  OBVIOUS
<1>1. ASSUME NEW e \in Encoders, NEW k \in FrameTypes, NEW n \in 1 .. MaxFrame,
             BeginFrame(e, k, n)
      PROVE  PacketInv'
  BY <1>1, BeginPreserves
<1>2. CASE SendWhole  BY <1>2, WholePreserves
<1>3. CASE SendFragment  BY <1>3, FragmentPreserves
<1>4. CASE UNCHANGED packetVars
  BY <1>4 DEF packetVars, frameVars, PacketInv, PacketTypeOK, AboutToSend, InLoop,
              FrameComplete, HeadersFit, EndBitAlmost, PictureMarked, IsLast, NextByte,
              Fragmented, Header, NalHeader, ParamSet
<1>5. QED  BY <1>1, <1>2, <1>3, <1>4 DEF PacketNext

(* The invariant holds of every behaviour of the packetizer.               *)
THEOREM PacketInvariant == PacketSpec => []PacketInv
<1>. QED  BY PacketInitially, PacketStep, PTL DEF PacketSpec

(* Every byte of every frame is sent exactly once, and before it is         *)
(* overwritten by a header, whatever the packet size is.                   *)
THEOREM FramesAreComplete == PacketSpec => []FrameComplete
<1>1. PacketInv => FrameComplete
  BY DEF PacketInv
<1>2. QED  BY <1>1, PacketInvariant, PTL

(* No header is ever written further than 17 bytes (24 for MJPEG) before    *)
(* the frame.                                                              *)
THEOREM HeadersStayInside == PacketSpec => []HeadersFit
<1>1. PacketInv => HeadersFit
  BY DEF PacketInv
<1>2. QED  BY <1>1, PacketInvariant, PTL

(* The End bit of a fragmented H264 NAL unit is only ever wrong for a unit  *)
(* of PacketSize + 1 bytes.                                                *)
THEOREM EndBitIsAlmostRight == PacketSpec => []EndBitAlmost
<1>1. PacketInv => EndBitAlmost
  BY DEF PacketInv
<1>2. QED  BY <1>1, PacketInvariant, PTL

(* The marker is on the last packet of each picture and on no other, but    *)
(* for that same size.                                                     *)
THEOREM PicturesAreMarked == PacketSpec => []PictureMarked
<1>1. PacketInv => PictureMarked
  BY DEF PacketInv
<1>2. QED  BY <1>1, PacketInvariant, PTL
================================================================================
