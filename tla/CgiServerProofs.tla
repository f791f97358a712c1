---------------------------- MODULE CgiServerProofs ----------------------------
(* That settings survive restarts, that the camera follows them and that a    *)
(* failed start heals, for any sets of values.  None of this is inductive: it *)
(* depends on what is known at every line of the state file that is read, and *)
(* on what a failure left open.                                               *)
EXTENDS CgiServer, TLAPS

(* Nothing outlives the power but the files.                                  *)
AllOff ==
  phase = "off" =>
    /\ line = 1 /\ value = Default /\ rects = NoRects /\ ~osd_changed
    /\ ~sdk /\ doubt = {} /\ open = {} /\ drawn = 0

(* A start is not initialised before it is over, one that failed is known to  *)
(* have failed, and only a refusal of the camera ends it uninitialised.       *)
Flags ==
  /\ phase \in {"off", "reading", "resetting", "enabling"} =>
       ~initialized /\ ~fatal /\ ~watching
  /\ phase = "storing" => initialized /\ ~watching /\ (sdk \/ fatal)
  /\ phase = "writing" => initialized
  /\ phase \in {"idle", "writing"} => watching \/ fatal
  /\ phase = "idle" /\ ~initialized => "boot" \in doubt
  /\ watching => sdk /\ initialized

BoardSound ==
  /\ sdk => rate \in Rates
  /\ ~sdk => camera = Dark
  /\ camera.fps <= rate

(* In the middle of the state file.                                           *)
HalfRead ==
  phase = "reading" =>
    /\ doubt = {} /\ open = {} /\ drawn = 0
    /\ line <= file.lines + 1
    /\ line = 1 => ~osd_changed /\ ~sdk
    /\ line > 1 => sdk /\ rate = file.saved.sensor_rate
    /\ \A i \in Regions : line > RoiLine(i) => file.saved.rectangles[i] \cap Edge = {}
    /\ value = RecoveredFrom(line - 1)

(* What CameraFollows says, at every place of a start.                        *)
FlipFollows == "flip" \notin doubt => camera.flip = value.flip
RectsFollow ==
  /\ \A i \in Regions \ open : rects[i] = value.rectangles[i]
  /\ drawn \notin open => camera.rects = value.rectangles[drawn]
StreamFollows ==
  /\ "stream" \notin doubt /\ phase \notin {"off", "resetting"}
  /\ phase = "reading" => line > StreamLine
  => camera.fps = value.fps /\ camera.osd = value.stream_osd
Follows == watching \/ ~fatal => FlipFollows /\ RectsFollow /\ StreamFollows

(* The first half of Preserved, and what is in a file while it is written.    *)
SavedFields(s) ==
  /\ "flip" \notin doubt => s.flip = value.flip
  /\ "stream" \notin doubt => s.fps = value.fps
  /\ s.osd = value.osd /\ s.sensor_rate = value.sensor_rate
  /\ s.stream_osd = value.stream_osd /\ s.rectangles = value.rectangles
  /\ s.device = value.device
KeptInFile ==
  /\ phase \in {"storing", "writing"} /\ ~unsaved => file = Whole(value)
  /\ phase = "idle" /\ initialized /\ ~unsaved =>
       file.lines = LastLine /\ ~file.broken /\ SavedFields(file.saved)

(* Its second half, and why a start resets the parameters.                    *)
Resets == phase = "resetting" => "boot" \in doubt \/ ~Readable \/ loops >= LoopLimit
Recovers ==
  phase = "enabling" /\ "boot" \notin doubt =>
    IF Readable /\ loops < LoopLimit
    THEN value = Recovered
    ELSE value = [Defaults EXCEPT !.sensor_rate = rate,
                                  !.fps = Smaller(DefaultFps, rate)]

(* A server that failed to start has no regions of interest to save.          *)
Heals ==
  phase \in {"storing", "idle", "writing"} /\ initialized /\ fatal /\ ~watching
  => value.rectangles = NoRects

IInv ==
  /\ TypeOK /\ AllOff /\ Flags /\ BoardSound /\ HalfRead
  /\ Follows /\ KeptInFile /\ Resets /\ Recovers /\ Heals
--------------------------------------------------------------------------------
(* The outcomes of the calls of SDKManager.                                   *)

LEMMA SmallerIsOne ==
  ASSUME NEW a, NEW b
  PROVE  Smaller(a, b) \in {a, b}
BY DEF Smaller

LEMMA SmallerFits ==
  ASSUME NEW a \in Fps, NEW b \in Rates
  PROVE  /\ Smaller(a, b) \in Fps /\ Smaller(a, b) <= b
         /\ Smaller(Smaller(a, b), b) = Smaller(a, b)
         /\ a <= b => Smaller(a, b) = a
BY CgiAssumption DEF Smaller

LEMMA RatesAreNumbers ==
  /\ Fps \subseteq Nat \ {0} /\ Rates \subseteq Nat \ {0} /\ Rates \subseteq Fps
  /\ Default \in Params /\ Dark \in Cameras
  /\ Dark.fps = 0 /\ Dark.flip = {} /\ Dark.rects = {}
  /\ NoRects \in [Regions -> SUBSET Rects] /\ 0 \in Regions
BY CgiAssumption DEF Default, Params, Dark, Cameras, Unset, NoRects, Regions

LEMMA LastLineIs ==
  /\ LastLine \in Nat /\ LastLine > RoiLine(0) /\ LastLine > StreamLine
  /\ \A i \in Regions : RoiLine(i) \in 3..LastLine - 1
  /\ \A n \in 3..LastLine - 1 : \E i \in Regions : n = RoiLine(i)
<1>1. LastLine = 3 + RoiCount /\ RoiCount \in Nat \ {0} /\ StreamLine = 2
  BY CgiAssumption DEF LastLine, RoiLine, StreamLine
<1>2. ASSUME NEW n \in 3..LastLine - 1
      PROVE  \E i \in Regions : n = RoiLine(i)
  <2>1. n - 3 \in Regions /\ n = RoiLine(n - 3)
    BY <1>1, <1>2 DEF Regions, RoiLine
  <2> QED BY <2>1
<1>3. ASSUME NEW i \in Regions
      PROVE  RoiLine(i) \in 3..LastLine - 1
  BY <1>1 DEF Regions, RoiLine
<1>4. LastLine \in Nat /\ LastLine > RoiLine(0) /\ LastLine > StreamLine
  BY <1>1 DEF RoiLine
<1> QED BY <1>2, <1>3, <1>4

(* Parameters are equal if each of them is.                                   *)
LEMMA SameParams ==
  ASSUME NEW v \in Params, NEW w \in Params,
         v.flip = w.flip, v.osd = w.osd, v.sensor_rate = w.sensor_rate,
         v.fps = w.fps, v.stream_osd = w.stream_osd,
         v.rectangles = w.rectangles, v.device = w.device
  PROVE  v = w
BY DEF Params

(* The frame rate is limited while the server starts, the display of the image*)
(* is that of the streams, and a reset makes frame rates fit.                 *)
Limited(v, r) == [v EXCEPT !.fps = IF initialized THEN @ ELSE Smaller(@, r)]
Painted(v) == [v EXCEPT !.stream_osd = v.osd]
Fitted(v, r) == [v EXCEPT !.fps = Smaller(v.fps, r)]

LEMMA LimitedParams ==
  ASSUME NEW v \in Params, NEW r \in Rates
  PROVE  /\ Limited(v, r) \in Params
         /\ Limited(v, r).fps = IF initialized THEN v.fps ELSE Smaller(v.fps, r)
         /\ Limited(v, r).flip = v.flip /\ Limited(v, r).osd = v.osd
         /\ Limited(v, r).sensor_rate = v.sensor_rate
         /\ Limited(v, r).stream_osd = v.stream_osd
         /\ Limited(v, r).rectangles = v.rectangles /\ Limited(v, r).device = v.device
<1> DEFINE f == IF initialized THEN v.fps ELSE Smaller(v.fps, r)
<1>1. f \in Fps
  BY SmallerFits DEF Params
<1>2. Limited(v, r) = [v EXCEPT !.fps = f]
  BY DEF Limited
<1> HIDE DEF f
<1>3. /\ Limited(v, r) \in Params /\ Limited(v, r).fps = f
      /\ Limited(v, r).flip = v.flip /\ Limited(v, r).osd = v.osd
      /\ Limited(v, r).sensor_rate = v.sensor_rate
      /\ Limited(v, r).stream_osd = v.stream_osd
      /\ Limited(v, r).rectangles = v.rectangles /\ Limited(v, r).device = v.device
  BY <1>1, <1>2 DEF Params
<1> QED BY <1>3 DEF f

LEMMA PaintedParams ==
  ASSUME NEW v \in Params
  PROVE  /\ Painted(v) \in Params /\ Painted(v).stream_osd = v.osd
         /\ Painted(v).flip = v.flip /\ Painted(v).osd = v.osd
         /\ Painted(v).sensor_rate = v.sensor_rate /\ Painted(v).fps = v.fps
         /\ Painted(v).rectangles = v.rectangles /\ Painted(v).device = v.device
BY DEF Painted, Params

LEMMA FittedParams ==
  ASSUME NEW v \in Params, NEW r \in Rates
  PROVE  /\ Fitted(v, r) \in Params /\ Fitted(v, r).fps = Smaller(v.fps, r)
         /\ Fitted(v, r).flip = v.flip /\ Fitted(v, r).rectangles = v.rectangles
         /\ Fitted(v, r).device = v.device
         /\ Limited(Fitted(v, r), r) = Fitted(v, r)
<1>1. Smaller(v.fps, r) \in Fps /\ Smaller(Smaller(v.fps, r), r) = Smaller(v.fps, r)
  BY SmallerFits DEF Params
<1>2. /\ Fitted(v, r) \in Params /\ Fitted(v, r).fps = Smaller(v.fps, r)
      /\ Fitted(v, r).flip = v.flip /\ Fitted(v, r).rectangles = v.rectangles
      /\ Fitted(v, r).device = v.device
  BY <1>1 DEF Fitted, Params
<1>3. PICK w \in Params : w = Fitted(v, r)
  BY <1>2
<1>4. Limited(w, r) \in Params /\ Limited(w, r).fps = w.fps
  BY <1>1, <1>2, <1>3, LimitedParams
<1>5. Limited(w, r) = w
  BY <1>4, LimitedParams, SameParams
<1> QED BY <1>2, <1>3, <1>5

LEMMA StreamOutcome ==
  ASSUME NEW v \in Params, NEW c \in Cameras, NEW r \in Rates, c.fps <= r,
         initialized \in BOOLEAN, NEW out \in StreamOutcomes(v, c, r)
  PROVE  /\ out.ok \in BOOLEAN /\ out.value \in Params /\ out.camera \in Cameras
         /\ out.camera.fps <= r
         /\ out.camera.flip = c.flip /\ out.camera.rects = c.rects
         /\ out.ok = TRUE =>
              /\ out.camera.fps = out.value.fps
              /\ out.camera.osd = out.value.stream_osd
              /\ out.value = Limited(v, r)
<1> DEFINE fps == IF initialized THEN v.fps ELSE Smaller(v.fps, r)
           shown == [c EXCEPT !.osd = v.stream_osd]
           set == [shown EXCEPT !.fps = fps]
<1>1. fps \in Fps
  BY SmallerFits DEF Params
<1>2. v.stream_osd \in BOOLEAN /\ r \in Nat /\ fps \in Nat
  BY <1>1, RatesAreNumbers DEF Params
<1>3. /\ shown \in Cameras /\ shown.fps = c.fps /\ shown.flip = c.flip
      /\ shown.rects = c.rects /\ shown.osd = v.stream_osd
  BY <1>2 DEF Cameras
<1>4. /\ set \in Cameras /\ set.fps = fps /\ set.flip = c.flip
      /\ set.rects = c.rects /\ set.osd = v.stream_osd
  BY <1>1, <1>3 DEF Cameras
<1>5. /\ [v EXCEPT !.fps = fps] \in Params /\ [v EXCEPT !.fps = fps].fps = fps
      /\ [v EXCEPT !.fps = fps].stream_osd = v.stream_osd
      /\ [v EXCEPT !.fps = fps] = Limited(v, r)
  BY <1>1 DEF Params, Limited
<1>6. \/ \E d \in {c, shown} : out = [ok |-> FALSE, value |-> v, camera |-> d]
      \/ /\ ~(fps > r)
         /\ \E b \in BOOLEAN : out = [ok |-> b, value |-> [v EXCEPT !.fps = fps], camera |-> set]
  BY DEF StreamOutcomes
<1> HIDE DEF fps, shown, set
<1>7. CASE \E d \in {c, shown} : out = [ok |-> FALSE, value |-> v, camera |-> d]
  <2>1. PICK d \in {c, shown} : out = [ok |-> FALSE, value |-> v, camera |-> d]
    BY <1>7
  <2> QED BY <2>1, <1>3
<1>8. CASE /\ ~(fps > r)
           /\ \E b \in BOOLEAN : out = [ok |-> b, value |-> [v EXCEPT !.fps = fps], camera |-> set]
  <2>1. PICK b \in BOOLEAN : out = [ok |-> b, value |-> [v EXCEPT !.fps = fps], camera |-> set]
    BY <1>8
  <2>2. /\ out.ok \in BOOLEAN /\ out.value = [v EXCEPT !.fps = fps] /\ out.camera = set
    BY <2>1
  <2>3. fps <= r
    BY <1>2, <1>8
  <2> QED BY <2>2, <2>3, <1>4, <1>5
<1> QED BY <1>6, <1>7, <1>8

LEMMA ImageOutcome ==
  ASSUME NEW v \in Params, NEW c \in Cameras, value \in Params,
         NEW out \in ImageOutcomes(v, c)
  PROVE  /\ out.ok \in BOOLEAN /\ out.value = v /\ out.camera \in Cameras
         /\ out.camera.fps = c.fps /\ out.camera.osd = c.osd
         /\ out.camera.rects = c.rects
         /\ v.flip = value.flip => out.camera.flip = c.flip
         /\ out.ok = TRUE /\ v.flip # value.flip => out.camera.flip = v.flip
<1> DEFINE flipped == [c EXCEPT !.flip = IF v.flip # value.flip THEN v.flip ELSE @]
<1>1. /\ flipped \in Cameras /\ flipped.fps = c.fps /\ flipped.osd = c.osd
      /\ flipped.rects = c.rects
      /\ flipped.flip = IF v.flip # value.flip THEN v.flip ELSE c.flip
  BY DEF Cameras, Params
<1>2. \/ \E d \in {c, flipped} : out = [ok |-> FALSE, value |-> v, camera |-> d]
      \/ out = [ok |-> TRUE, value |-> v, camera |-> flipped]
  BY DEF ImageOutcomes
<1> HIDE DEF flipped
<1>3. CASE \E d \in {c, flipped} : out = [ok |-> FALSE, value |-> v, camera |-> d]
  <2>1. PICK d \in {c, flipped} : out = [ok |-> FALSE, value |-> v, camera |-> d]
    BY <1>3
  <2> QED BY <2>1, <1>1
<1>4. CASE out = [ok |-> TRUE, value |-> v, camera |-> flipped]
  BY <1>1, <1>4
<1> QED BY <1>2, <1>3, <1>4

(* An image command sends the streams if the display must be painted anew.    *)
ImageDone(v, c, r, out) ==
  /\ out.ok \in BOOLEAN /\ out.value \in Params /\ out.camera \in Cameras
  /\ out.camera.fps <= r /\ out.camera.rects = c.rects
  /\ v.flip = value.flip => out.camera.flip = c.flip
  /\ out.ok = TRUE /\ v.flip # value.flip => out.camera.flip = v.flip
  /\ ~Repaint(v) => /\ out.camera.fps = c.fps /\ out.camera.osd = c.osd
                    /\ out.ok = TRUE => out.value = v
  /\ Repaint(v) /\ out.ok = TRUE =>
       /\ out.camera.fps = out.value.fps
       /\ out.camera.osd = out.value.stream_osd
       /\ out.value = Limited(Painted(v), r)

LEMMA SetImageOutcome ==
  ASSUME NEW v \in Params, NEW c \in Cameras, NEW r \in Rates, c.fps <= r,
         value \in Params, initialized \in BOOLEAN,
         NEW out \in SetImageOutcomes(v, c, r)
  PROVE  ImageDone(v, c, r, out)
<1>0. PICK w \in Params : w = Painted(v)
  BY PaintedParams
<1>1. PICK i \in ImageOutcomes(v, c) :
        out \in IF i.ok /\ Repaint(v) THEN StreamOutcomes(w, i.camera, r) ELSE {i}
  BY <1>0 DEF SetImageOutcomes, Painted
<1>2. /\ i.ok \in BOOLEAN /\ i.value = v /\ i.camera \in Cameras
      /\ i.camera.fps = c.fps /\ i.camera.osd = c.osd
      /\ i.camera.rects = c.rects
      /\ v.flip = value.flip => i.camera.flip = c.flip
      /\ i.ok = TRUE /\ v.flip # value.flip => i.camera.flip = v.flip
  BY ImageOutcome
<1>4. CASE i.ok = TRUE /\ Repaint(v)
  <2>1. out \in StreamOutcomes(w, i.camera, r)
    BY <1>1, <1>4
  <2>2. i.camera.fps <= r
    BY <1>2
  <2>3. /\ out.ok \in BOOLEAN /\ out.value \in Params /\ out.camera \in Cameras
        /\ out.camera.fps <= r
        /\ out.camera.flip = i.camera.flip /\ out.camera.rects = i.camera.rects
        /\ out.ok = TRUE =>
              /\ out.camera.fps = out.value.fps
              /\ out.camera.osd = out.value.stream_osd
              /\ out.value = Limited(w, r)
    BY <1>2, <2>1, <2>2, StreamOutcome
  <2> QED BY <1>0, <1>2, <1>4, <2>3 DEF ImageDone
<1>5. CASE ~(i.ok = TRUE /\ Repaint(v))
  <2>1. out = i
    BY <1>1, <1>2, <1>5
  <2> QED BY <1>2, <1>5, <2>1 DEF ImageDone
<1> QED BY <1>4, <1>5

LEMMA ResetOutcome ==
  ASSUME NEW v \in Params, NEW c \in Cameras, NEW r \in Rates, c.fps <= r,
         value \in Params, initialized \in BOOLEAN,
         NEW out \in ResetOutcomes(v, c, r)
  PROVE  /\ out.ok \in BOOLEAN /\ out.value \in Params /\ out.camera \in Cameras
         /\ out.camera.fps <= r /\ out.camera.rects = c.rects
         /\ v.flip = value.flip => out.camera.flip = c.flip
         /\ out.ok = TRUE =>
              /\ v.flip # value.flip => out.camera.flip = v.flip
              /\ out.camera.fps = out.value.fps
              /\ out.camera.osd = out.value.stream_osd
              /\ out.value = Fitted(v, r)
<1>0. PICK w \in Params : w = Fitted(v, r)
  BY FittedParams
<1>1. PICK i \in ImageOutcomes(v, c) :
        out \in IF i.ok THEN StreamOutcomes(w, i.camera, r) ELSE {i}
  BY <1>0 DEF ResetOutcomes, Fitted
<1>2. /\ i.ok \in BOOLEAN /\ i.value = v /\ i.camera \in Cameras
      /\ i.camera.fps = c.fps /\ i.camera.osd = c.osd
      /\ i.camera.rects = c.rects
      /\ v.flip = value.flip => i.camera.flip = c.flip
      /\ i.ok = TRUE /\ v.flip # value.flip => i.camera.flip = v.flip
  BY ImageOutcome
<1>3. CASE i.ok = TRUE
  <2>1. out \in StreamOutcomes(w, i.camera, r) /\ i.camera.fps <= r
    BY <1>1, <1>2, <1>3
  <2>2. /\ out.ok \in BOOLEAN /\ out.value \in Params /\ out.camera \in Cameras
        /\ out.camera.fps <= r
        /\ out.camera.flip = i.camera.flip /\ out.camera.rects = i.camera.rects
        /\ out.ok = TRUE =>
              /\ out.camera.fps = out.value.fps
              /\ out.camera.osd = out.value.stream_osd
              /\ out.value = Limited(w, r)
    BY <1>2, <2>1, StreamOutcome
  <2>3. Limited(w, r) = Fitted(v, r)
    BY <1>0, FittedParams
  <2> QED BY <1>2, <1>3, <2>2, <2>3
<1>4. CASE i.ok = FALSE
  <2>1. out = i
    BY <1>1, <1>4
  <2> QED BY <1>2, <1>4, <2>1
<1> QED BY <1>2, <1>3, <1>4
--------------------------------------------------------------------------------
(* What all commands have in common.                                          *)

LEMMA Vouch ==
  ASSUME doubt \subseteq Doubts,
         NEW flips \in BOOLEAN, NEW streams \in BOOLEAN, NEW ok \in BOOLEAN
  PROVE  LET new == Vouched(flips, streams, ok)
         IN /\ new \subseteq Doubts
            /\ ok => /\ "flip" \in new <=> "flip" \in doubt /\ ~flips
                     /\ "stream" \in new <=> "stream" \in doubt /\ ~streams
            /\ ~ok => /\ "flip" \in new <=> "flip" \in doubt \/ flips
                      /\ "stream" \in new <=> "stream" \in doubt \/ streams
            /\ "boot" \in new <=> "boot" \in doubt
            /\ ~ok => doubt \subseteq new
BY DEF Vouched, Doubts

LEMMA AllowedKnows ==
  ASSUME IInv, Allowed
  PROVE  /\ phase = "idle" /\ initialized = TRUE /\ fatal = FALSE
         /\ watching = TRUE /\ sdk = TRUE
         /\ rate \in Rates /\ camera.fps <= rate
         /\ value \in Params /\ camera \in Cameras /\ file \in File /\ doubt \subseteq Doubts
         /\ rects \in [Regions -> SUBSET Rects] /\ open \subseteq Regions /\ drawn \in Regions
         /\ RectsFollow
         /\ "flip" \notin doubt => camera.flip = value.flip
         /\ "stream" \notin doubt =>
              camera.fps = value.fps /\ camera.osd = value.stream_osd
<1>1. /\ phase = "idle" /\ initialized = TRUE /\ fatal = FALSE
      /\ watching = TRUE /\ sdk = TRUE
  BY DEF Allowed, IInv, TypeOK, Flags
<1>2. rate \in Rates /\ camera.fps <= rate
  BY <1>1 DEF IInv, BoardSound
<1>3. FlipFollows /\ RectsFollow /\ StreamFollows
  BY <1>1 DEF IInv, Follows
<1> QED BY <1>1, <1>2, <1>3 DEF IInv, TypeOK, FlipFollows, StreamFollows

(* Between commands nothing of a start can be disturbed.                      *)
LEMMA StaysUp ==
  ASSUME IInv, phase = "idle", phase' \in {"idle", "writing"},
         UNCHANGED << initialized, watching >>, fatal' \in {fatal, TRUE},
         phase' = "writing" => initialized,
         "boot" \in doubt => "boot" \in doubt', sdk => sdk'
  PROVE  AllOff' /\ Flags' /\ HalfRead' /\ Resets' /\ Recovers'
<1>1. Flags'
  BY DEF IInv, Flags
<1> QED BY <1>1 DEF AllOff, HalfRead, Resets, Recovers

LEMMA Saves ==
  ASSUME TypeOK, phase = "idle", initialized' = initialized, value' \in Params,
         Save(value')
  PROVE  /\ KeptInFile' /\ file' \in File /\ unsaved' \in BOOLEAN
         /\ phase' \in {"idle", "writing"} /\ (phase' = "writing" => initialized)
<1>1. Whole(value') \in File
  BY LastLineIs DEF Whole, File
<1>2. CASE initialized
  <2>1. phase' = "writing" /\ WriteFile(value')
    BY <1>2 DEF Save
  <2> QED BY <1>1, <1>2, <2>1 DEF WriteFile, KeptInFile, TypeOK
<1>3. CASE ~initialized
  BY <1>3 DEF Save, KeptInFile, TypeOK, store
<1> QED BY <1>2, <1>3

LEMMA KeepsFile ==
  ASSUME IInv, UNCHANGED << phase, store, value, initialized >>, doubt \subseteq doubt'
  PROVE  KeptInFile'
BY DEF IInv, KeptInFile, SavedFields, Whole, store

(* What does not concern the regions of interest.                             *)
LEMMA RectsStay ==
  ASSUME RectsFollow, UNCHANGED << rects, open, drawn >>,
         camera'.rects = camera.rects, value'.rectangles = value.rectangles
  PROVE  RectsFollow'
BY DEF RectsFollow

(* A command that is allowed, whether it works or not.                        *)
LEMMA CommandStep ==
  ASSUME IInv, Allowed,
         UNCHANGED << line, process, sdk, rate, status >>,
         value' \in Params, rects' \in [Regions -> SUBSET Rects], osd_changed' \in BOOLEAN,
         camera' \in Cameras, camera'.fps <= rate, doubt' \subseteq Doubts,
         open' \subseteq Regions, drawn' \in Regions,
         "boot" \in doubt => "boot" \in doubt',
         \/ Save(value')
         \/ UNCHANGED << phase, store, value >> /\ doubt \subseteq doubt'
         \/ UNCHANGED << phase, store >> /\ KeptInFile',
         FlipFollows', RectsFollow',
         "stream" \notin doubt' =>
           camera'.fps = value'.fps /\ camera'.osd = value'.stream_osd
  PROVE  IInv'
<1>1. /\ phase = "idle" /\ initialized = TRUE /\ fatal = FALSE
      /\ watching = TRUE /\ sdk = TRUE /\ TypeOK
  BY AllowedKnows DEF IInv
<1>2. UNCHANGED << line, initialized, fatal, watching, sdk, rate, loops, last >>
  BY DEF process, status
<1>3. /\ KeptInFile' /\ file' \in File /\ unsaved' \in BOOLEAN
      /\ phase' \in {"idle", "writing"} /\ (phase' = "writing" => initialized)
  BY <1>1, <1>2, Saves, KeepsFile DEF TypeOK, store
<1>4. AllOff' /\ Flags' /\ HalfRead' /\ Resets' /\ Recovers'
  <2>1. UNCHANGED << initialized, watching >> /\ fatal' \in {fatal, TRUE} /\ (sdk => sdk')
    BY <1>2
  <2>2. phase = "idle" /\ phase' \in {"idle", "writing"} /\ (phase' = "writing" => initialized)
    BY <1>1, <1>3
  <2> QED BY <2>1, <2>2, StaysUp
<1>5. TypeOK'
  <2>1. /\ phase' \in {"off", "reading", "resetting", "enabling", "storing", "idle", "writing"}
        /\ value' \in Params /\ rects' \in [Regions -> SUBSET Rects]
        /\ osd_changed' \in BOOLEAN /\ camera' \in Cameras /\ file' \in File
        /\ doubt' \subseteq Doubts /\ open' \subseteq Regions /\ drawn' \in Regions
        /\ unsaved' \in BOOLEAN
    BY <1>3
  <2>2. /\ line' \in 1 .. LastLine + 1 /\ initialized' \in BOOLEAN /\ fatal' \in BOOLEAN
        /\ watching' \in BOOLEAN /\ sdk' \in BOOLEAN /\ rate' \in Rates \cup {0}
        /\ loops' \in 0 .. LoopLimit /\ last' \in {"start", "watchdog", "other"}
    BY <1>1, <1>2 DEF TypeOK
  <2> QED BY <2>1, <2>2 DEF TypeOK
<1>6. BoardSound'
  BY <1>1, <1>2 DEF BoardSound, IInv
<1>7. StreamFollows'
  BY <1>3 DEF StreamFollows
<1>8. Follows' /\ Heals'
  BY <1>1, <1>2, <1>7 DEF Follows, Heals
<1> QED BY <1>3, <1>4, <1>5, <1>6, <1>8 DEF IInv
--------------------------------------------------------------------------------
(* The commands, one by one.                                                  *)

LEMMA SetImageStep ==
  ASSUME IInv, NEW axes \in SUBSET Axes, NEW osd \in BOOLEAN, NEW r \in Rates,
         SetImage(axes, osd, r)
  PROVE  IInv'
<1> DEFINE v == [value EXCEPT !.flip = (@ \ axes) \cup (axes \ @),
                              !.osd = osd, !.sensor_rate = r]
<1>1. /\ Allowed
      /\ UNCHANGED << line, rects, process, sdk, rate, status, open, drawn >>
  BY DEF SetImage, regions
<1>2. PICK out \in SetImageOutcomes(v, camera, rate) :
        /\ camera' = out.camera
        /\ doubt' = Vouched(v.flip # value.flip, Repaint(v), out.ok)
        /\ IF out.ok
           THEN /\ value' = out.value /\ osd_changed' = FALSE
                /\ Save(out.value)
           ELSE UNCHANGED <<value, osd_changed, phase, store>>
  BY DEF SetImage
<1>3. /\ phase = "idle" /\ initialized = TRUE
      /\ rate \in Rates /\ camera.fps <= rate
      /\ value \in Params /\ camera \in Cameras /\ doubt \subseteq Doubts
      /\ rects \in [Regions -> SUBSET Rects] /\ osd_changed \in BOOLEAN
      /\ open \subseteq Regions /\ drawn \in Regions
  BY <1>1, AllowedKnows DEF IInv, TypeOK
<1>4. /\ v \in Params /\ v.fps = value.fps /\ v.stream_osd = value.stream_osd
      /\ v.rectangles = value.rectangles
  BY <1>3 DEF Params
<1> HIDE DEF v
<1>5. /\ out.ok \in BOOLEAN /\ out.value \in Params /\ out.camera \in Cameras
      /\ out.camera.fps <= rate /\ out.camera.rects = camera.rects
      /\ v.flip = value.flip => out.camera.flip = camera.flip
      /\ out.ok = TRUE /\ v.flip # value.flip => out.camera.flip = v.flip
      /\ ~Repaint(v) => /\ out.camera.fps = camera.fps /\ out.camera.osd = camera.osd
                        /\ out.ok = TRUE => out.value = v
      /\ Repaint(v) /\ out.ok = TRUE =>
           /\ out.camera.fps = out.value.fps
           /\ out.camera.osd = out.value.stream_osd
           /\ out.value = Limited(Painted(v), rate)
  <2>1. PICK w \in Params : w = v
    BY <1>4
  <2>2. PICK c \in Cameras : c = camera
    BY <1>3
  <2>3. PICK q \in Rates : q = rate
    BY <1>3
  <2>4. /\ out \in SetImageOutcomes(w, c, q) /\ c.fps <= q
        /\ value \in Params /\ initialized \in BOOLEAN
    BY <1>3, <2>1, <2>2, <2>3
  <2>5. ImageDone(w, c, q, out)
    BY <2>4, SetImageOutcome
  <2> QED BY <2>1, <2>2, <2>3, <2>5 DEF ImageDone
<1>6. out.ok = TRUE => out.value.flip = v.flip /\ out.value.rectangles = v.rectangles
  <2>1. CASE Repaint(v)
    BY <1>3, <1>4, <1>5, <2>1, PaintedParams, LimitedParams
  <2>2. CASE ~Repaint(v)
    BY <1>5, <2>2
  <2> QED BY <2>1, <2>2
<1>7. /\ doubt' \subseteq Doubts
      /\ out.ok => /\ "flip" \in doubt' <=> "flip" \in doubt /\ ~(v.flip # value.flip)
                   /\ "stream" \in doubt' <=> "stream" \in doubt /\ ~Repaint(v)
      /\ ~out.ok => /\ "flip" \in doubt' <=> "flip" \in doubt \/ v.flip # value.flip
                    /\ "stream" \in doubt' <=> "stream" \in doubt \/ Repaint(v)
      /\ "boot" \in doubt' <=> "boot" \in doubt
      /\ ~out.ok => doubt \subseteq doubt'
  <2>1. (v.flip # value.flip) \in BOOLEAN /\ Repaint(v) \in BOOLEAN
    BY DEF Repaint
  <2> QED BY <1>2, <1>3, <1>5, <2>1, Vouch
<1>8. /\ "flip" \notin doubt => camera.flip = value.flip
      /\ RectsFollow
      /\ "stream" \notin doubt =>
           camera.fps = value.fps /\ camera.osd = value.stream_osd
  BY <1>1, AllowedKnows
<1>9. CASE out.ok = TRUE
  <2>1. /\ value' = out.value /\ osd_changed' = FALSE /\ Save(value')
        /\ camera' = out.camera /\ rects' = rects
    BY <1>1, <1>2, <1>9
  <2>2. FlipFollows' /\ RectsFollow'
    BY <1>1, <1>4, <1>5, <1>6, <1>7, <1>8, <1>9, <2>1, RectsStay DEF FlipFollows
  <2>3. ASSUME "stream" \notin doubt'
        PROVE  camera'.fps = value'.fps /\ camera'.osd = value'.stream_osd
    <3>1. CASE Repaint(v)
      BY <1>5, <1>9, <2>1, <3>1
    <3>2. CASE ~Repaint(v)
      <4>1. "stream" \notin doubt
        BY <1>7, <1>9, <2>3, <3>2
      <4>2. value' = v /\ camera'.fps = camera.fps /\ camera'.osd = camera.osd
        BY <1>5, <1>9, <2>1, <3>2
      <4> QED BY <1>4, <1>8, <4>1, <4>2
    <3> QED BY <3>1, <3>2
  <2> QED BY <1>1, <1>3, <1>5, <1>7, <2>1, <2>2, <2>3, CommandStep
<1>10. CASE out.ok = FALSE
  <2>1. /\ UNCHANGED << value, osd_changed, phase, store, rects >>
        /\ camera' = out.camera
    BY <1>1, <1>2, <1>10
  <2>2. FlipFollows' /\ RectsFollow'
    BY <1>1, <1>5, <1>7, <1>8, <1>10, <2>1, RectsStay DEF FlipFollows
  <2>3. ASSUME "stream" \notin doubt'
        PROVE  camera'.fps = value'.fps /\ camera'.osd = value'.stream_osd
    <3>1. ~Repaint(v) /\ "stream" \notin doubt
      BY <1>7, <1>10, <2>3
    <3>2. camera'.fps = camera.fps /\ camera'.osd = camera.osd
      BY <1>5, <2>1, <3>1
    <3> QED BY <1>8, <2>1, <3>1, <3>2
  <2> QED BY <1>1, <1>3, <1>5, <1>7, <1>10, <2>1, <2>2, <2>3, CommandStep
<1> QED BY <1>5, <1>9, <1>10

LEMMA SetStreamStep ==
  ASSUME IInv, NEW fps \in Fps, NEW osd \in BOOLEAN, SetStream(fps, osd)
  PROVE  IInv'
<1> DEFINE v == [value EXCEPT !.fps = fps, !.stream_osd = osd]
<1>1. /\ Allowed
      /\ UNCHANGED << line, rects, process, sdk, rate, status, open, drawn >>
  BY DEF SetStream, regions
<1>2. PICK out \in StreamOutcomes(v, camera, rate) :
        /\ camera' = out.camera
        /\ doubt' = Vouched(FALSE, TRUE, out.ok)
        /\ IF out.ok
           THEN /\ value' = out.value
                /\ osd_changed' = (osd_changed \/ osd # value.stream_osd)
                /\ Save(out.value)
           ELSE UNCHANGED <<value, osd_changed, phase, store>>
  BY DEF SetStream
<1>3. /\ phase = "idle" /\ initialized = TRUE
      /\ rate \in Rates /\ camera.fps <= rate
      /\ value \in Params /\ camera \in Cameras /\ doubt \subseteq Doubts
      /\ rects \in [Regions -> SUBSET Rects] /\ osd_changed \in BOOLEAN
      /\ open \subseteq Regions /\ drawn \in Regions
  BY <1>1, AllowedKnows DEF IInv, TypeOK
<1>4. v \in Params /\ v.flip = value.flip /\ v.rectangles = value.rectangles
  BY <1>3 DEF Params
<1> HIDE DEF v
<1>5. /\ out.ok \in BOOLEAN /\ out.value \in Params /\ out.camera \in Cameras
      /\ out.camera.fps <= rate
      /\ out.camera.flip = camera.flip /\ out.camera.rects = camera.rects
      /\ out.ok = TRUE =>
           /\ out.camera.fps = out.value.fps
           /\ out.camera.osd = out.value.stream_osd
           /\ out.value = Limited(v, rate)
  BY <1>3, <1>4, StreamOutcome
<1>6. out.ok = TRUE => out.value.flip = v.flip /\ out.value.rectangles = v.rectangles
  BY <1>3, <1>4, <1>5, LimitedParams
<1>7. /\ doubt' \subseteq Doubts
      /\ "flip" \in doubt' <=> "flip" \in doubt
      /\ ~out.ok => "stream" \in doubt' /\ doubt \subseteq doubt'
      /\ "boot" \in doubt' <=> "boot" \in doubt
  BY <1>2, <1>3, <1>5, Vouch
<1>8. /\ "flip" \notin doubt => camera.flip = value.flip
      /\ RectsFollow
  BY <1>1, AllowedKnows
<1>9. CASE out.ok = TRUE
  <2>1. /\ value' = out.value /\ osd_changed' \in BOOLEAN /\ Save(value')
        /\ camera' = out.camera /\ rects' = rects
    BY <1>1, <1>2, <1>9
  <2>2. FlipFollows' /\ RectsFollow'
    BY <1>1, <1>4, <1>5, <1>6, <1>7, <1>8, <1>9, <2>1, RectsStay DEF FlipFollows
  <2>3. camera'.fps = value'.fps /\ camera'.osd = value'.stream_osd
    BY <1>5, <1>9, <2>1
  <2> QED BY <1>1, <1>3, <1>5, <1>7, <2>1, <2>2, <2>3, CommandStep
<1>10. CASE out.ok = FALSE
  <2>1. /\ UNCHANGED << value, osd_changed, phase, store, rects >>
        /\ camera' = out.camera
    BY <1>1, <1>2, <1>10
  <2>2. FlipFollows' /\ RectsFollow'
    BY <1>1, <1>5, <1>7, <1>8, <1>10, <2>1, RectsStay DEF FlipFollows
  <2>3. "stream" \in doubt' /\ doubt \subseteq doubt'
    BY <1>7, <1>10
  <2> QED BY <1>1, <1>3, <1>5, <1>7, <1>10, <2>1, <2>2, <2>3, CommandStep
<1> QED BY <1>5, <1>9, <1>10

(* What is read back from the camera is what is in the file, unless a failure *)
(* left it open.                                                              *)
LEMMA GetStep ==
  ASSUME IInv, GetImage \/ GetStream
  PROVE  IInv'
<1>1. /\ Allowed
      /\ UNCHANGED << phase, line, rects, osd_changed, process, board, store, status,
                      doubt, open, drawn >>
  BY DEF GetImage, GetStream, regions
<1>2. /\ phase = "idle" /\ initialized = TRUE /\ rate \in Rates /\ camera.fps <= rate
      /\ value \in Params /\ camera \in Cameras /\ doubt \subseteq Doubts
      /\ rects \in [Regions -> SUBSET Rects] /\ osd_changed \in BOOLEAN
      /\ open \subseteq Regions /\ drawn \in Regions
      /\ RectsFollow
      /\ "flip" \notin doubt => camera.flip = value.flip
      /\ "stream" \notin doubt =>
           camera.fps = value.fps /\ camera.osd = value.stream_osd
  BY <1>1, AllowedKnows DEF IInv, TypeOK
<1>3. /\ value' \in Params
      /\ value'.flip \in {value.flip, camera.flip}
      /\ value'.fps \in {value.fps, camera.fps}
      /\ value'.osd = value.osd /\ value'.sensor_rate = value.sensor_rate
      /\ value'.stream_osd = value.stream_osd /\ value'.rectangles = value.rectangles
      /\ value'.device = value.device
  <2>1. CASE GetImage
    BY <1>2, <2>1 DEF GetImage, Params, Cameras
  <2>2. CASE GetStream
    BY <1>2, <2>2 DEF GetStream, Params, Cameras
  <2> QED BY <2>1, <2>2
<1>4. UNCHANGED << phase, line, rects, osd_changed, initialized, camera, file, unsaved,
                   doubt, open, drawn >>
  BY <1>1 DEF process, board, store
<1>5. KeptInFile'
  <2>1. ~unsaved => file.lines = LastLine /\ ~file.broken /\ SavedFields(file.saved)
    BY <1>2 DEF IInv, KeptInFile
  <2>2. ~unsaved => SavedFields(file.saved)'
    BY <1>2, <1>3, <1>4, <2>1 DEF SavedFields
  <2> QED BY <1>2, <1>4, <2>1, <2>2 DEF KeptInFile
<1>6. FlipFollows' /\ RectsFollow'
  BY <1>2, <1>3, <1>4, RectsStay DEF FlipFollows
<1>7. "stream" \notin doubt' =>
        camera'.fps = value'.fps /\ camera'.osd = value'.stream_osd
  BY <1>2, <1>3, <1>4
<1>8. UNCHANGED << line, process, sdk, rate, status >>
  BY <1>1 DEF board
<1> QED BY <1>1, <1>2, <1>3, <1>4, <1>5, <1>6, <1>7, <1>8, CommandStep

(* A list of region i that the camera has been sent, in one of its copies.    *)
LEMMA ListSet ==
  ASSUME NEW v \in Params, NEW i \in Regions, NEW list \in SUBSET Rects
  PROVE  LET w == [v EXCEPT !.rectangles[i] = list]
         IN /\ w \in Params /\ w.rectangles = [v.rectangles EXCEPT ![i] = list]
            /\ w.rectangles \in [Regions -> SUBSET Rects]
            /\ w.rectangles[i] = list
            /\ \A j \in Regions \ {i} : w.rectangles[j] = v.rectangles[j]
            /\ w.flip = v.flip /\ w.osd = v.osd /\ w.sensor_rate = v.sensor_rate
            /\ w.fps = v.fps /\ w.stream_osd = v.stream_osd /\ w.device = v.device
<1>1. v.rectangles \in [Regions -> SUBSET Rects]
  BY DEF Params
<1>2. PICK new \in [Regions -> SUBSET Rects] : new = [v.rectangles EXCEPT ![i] = list]
  BY <1>1
<1>3. new[i] = list /\ \A j \in Regions \ {i} : new[j] = v.rectangles[j]
  BY <1>1, <1>2
<1>4. [v EXCEPT !.rectangles[i] = list] = [v EXCEPT !.rectangles = new]
  BY <1>2
<1>5. LET w == [v EXCEPT !.rectangles = new]
      IN /\ w \in Params /\ w.rectangles = new
         /\ w.flip = v.flip /\ w.osd = v.osd /\ w.sensor_rate = v.sensor_rate
         /\ w.fps = v.fps /\ w.stream_osd = v.stream_osd /\ w.device = v.device
  BY DEF Params
<1> QED BY <1>2, <1>3, <1>4, <1>5

LEMMA ListSent ==
  ASSUME camera \in Cameras, NEW list \in SUBSET Rects, NEW ok \in BOOLEAN,
         SendRoi(list, ok)
  PROVE  /\ camera' \in Cameras /\ camera'.flip = camera.flip
         /\ camera'.fps = camera.fps /\ camera'.osd = camera.osd
         /\ ok => camera'.rects = list
<1>1. PICK sent \in IF ok THEN {list} ELSE (SUBSET list) \cup {camera.rects} :
        camera' = [camera EXCEPT !.rects = sent]
  BY DEF SendRoi
<1>2. sent \subseteq Rects /\ (ok => sent = list)
  BY <1>1 DEF Cameras
<1> QED BY <1>1, <1>2 DEF Cameras

LEMMA SetRoiStep ==
  ASSUME IInv, NEW i \in Regions, NEW list \in SUBSET Rects, NEW ok \in BOOLEAN,
         SetRoi(i, list, ok)
  PROVE  IInv'
<1>1. /\ Allowed /\ rects' = [rects EXCEPT ![i] = list] /\ drawn' = i
      /\ SendRoi(list, ok)
      /\ UNCHANGED << line, osd_changed, process, sdk, rate, status, doubt >>
  BY DEF SetRoi
<1>2. /\ phase = "idle" /\ initialized = TRUE /\ rate \in Rates /\ camera.fps <= rate
      /\ value \in Params /\ camera \in Cameras /\ doubt \subseteq Doubts
      /\ rects \in [Regions -> SUBSET Rects] /\ open \subseteq Regions
      /\ osd_changed \in BOOLEAN /\ RectsFollow
      /\ "flip" \notin doubt => camera.flip = value.flip
      /\ "stream" \notin doubt =>
           camera.fps = value.fps /\ camera.osd = value.stream_osd
  BY <1>1, AllowedKnows DEF IInv, TypeOK
<1>3. /\ rects' \in [Regions -> SUBSET Rects] /\ rects'[i] = list
      /\ \A j \in Regions \ {i} : rects'[j] = rects[j]
  BY <1>1, <1>2
<1>4. /\ camera' \in Cameras /\ camera'.flip = camera.flip /\ camera'.fps = camera.fps
      /\ camera'.osd = camera.osd /\ (ok => camera'.rects = list)
  BY <1>1, <1>2, ListSent
<1>5. CASE ok
  <2>1. value' = [value EXCEPT !.rectangles[i] = list] /\ open' = open \ {i}
        /\ Save(value')
    BY <1>5 DEF SetRoi
  <2>2. /\ value' \in Params /\ value'.flip = value.flip /\ value'.fps = value.fps
        /\ value'.stream_osd = value.stream_osd /\ value'.rectangles[i] = list
        /\ \A j \in Regions \ {i} : value'.rectangles[j] = value.rectangles[j]
    BY <1>2, <2>1, ListSet
  <2>3. FlipFollows'
    BY <1>1, <1>2, <1>4, <2>2 DEF FlipFollows
  <2>4. RectsFollow'
    BY <1>1, <1>2, <1>3, <1>4, <1>5, <2>1, <2>2 DEF RectsFollow
  <2>5. "stream" \notin doubt' =>
          camera'.fps = value'.fps /\ camera'.osd = value'.stream_osd
    BY <1>1, <1>2, <1>4, <2>2
  <2>6. /\ doubt' \subseteq Doubts /\ ("boot" \in doubt => "boot" \in doubt')
        /\ osd_changed' \in BOOLEAN /\ camera'.fps <= rate
        /\ open' \subseteq Regions /\ drawn' \in Regions
    BY <1>1, <1>2, <1>4, <2>1
  <2> QED BY <1>1, <1>3, <1>4, <2>1, <2>2, <2>3, <2>4, <2>5, <2>6, CommandStep
<1>6. CASE ~ok
  <2>1. open' = open \cup {i} /\ UNCHANGED << value, phase, store >>
    BY <1>6 DEF SetRoi
  <2>2. FlipFollows'
    BY <1>1, <1>2, <1>4, <2>1 DEF FlipFollows
  <2>3. RectsFollow'
    BY <1>1, <1>2, <1>3, <2>1 DEF RectsFollow
  <2>4. "stream" \notin doubt' =>
          camera'.fps = value'.fps /\ camera'.osd = value'.stream_osd
    BY <1>1, <1>2, <1>4, <2>1
  <2>5. /\ doubt' \subseteq Doubts /\ ("boot" \in doubt => "boot" \in doubt')
        /\ doubt \subseteq doubt' /\ value' \in Params
        /\ osd_changed' \in BOOLEAN /\ camera'.fps <= rate
        /\ open' \subseteq Regions /\ drawn' \in Regions
    BY <1>1, <1>2, <1>4, <2>1
  <2> QED BY <1>1, <1>3, <1>4, <2>1, <2>2, <2>3, <2>4, <2>5, CommandStep
<1> QED BY <1>5, <1>6

LEMMA MisreadRoiStep ==
  ASSUME IInv, NEW i \in Regions, MisreadRoi(i)
  PROVE  IInv'
<1>1. /\ Allowed /\ rects' = [rects EXCEPT ![i] = {}] /\ open' = open \cup {i}
      /\ UNCHANGED << phase, line, value, osd_changed, process, board, store, status,
                      doubt, drawn >>
  BY DEF MisreadRoi
<1>2. UNCHANGED << line, process, sdk, rate, status, phase, store, value, camera >>
  BY <1>1 DEF board
<1>3. /\ rects' \in [Regions -> SUBSET Rects]
      /\ \A j \in Regions \ {i} : rects'[j] = rects[j]
  BY <1>1, AllowedKnows
<1>4. FlipFollows' /\ RectsFollow'
  BY <1>1, <1>2, <1>3, AllowedKnows DEF FlipFollows, RectsFollow
<1>5. /\ value' \in Params /\ osd_changed' \in BOOLEAN
      /\ camera' \in Cameras /\ camera'.fps <= rate /\ doubt' \subseteq Doubts
      /\ doubt \subseteq doubt' /\ open' \subseteq Regions /\ drawn' \in Regions
  BY <1>1, <1>2, AllowedKnows DEF IInv, TypeOK
<1>6. "stream" \notin doubt' =>
        camera'.fps = value'.fps /\ camera'.osd = value'.stream_osd
  BY <1>1, <1>2, AllowedKnows
<1> QED BY <1>1, <1>2, <1>3, <1>4, <1>5, <1>6, CommandStep

LEMMA SetDeviceStep ==
  ASSUME IInv, NEW device \in Devices, SetDevice(device)
  PROVE  IInv'
<1>1. /\ Allowed /\ value' = [value EXCEPT !.device = device] /\ Save(value')
      /\ UNCHANGED << line, rects, osd_changed, process, board, status, doubt,
                      open, drawn >>
  BY DEF SetDevice, regions
<1>2. UNCHANGED << line, process, sdk, rate, status, rects, osd_changed, camera, doubt,
                   open, drawn >>
  BY <1>1 DEF board
<1>3. /\ value' \in Params /\ value'.flip = value.flip /\ value'.fps = value.fps
      /\ value'.stream_osd = value.stream_osd /\ value'.rectangles = value.rectangles
  BY <1>1, AllowedKnows DEF Params
<1>4. FlipFollows' /\ RectsFollow'
  BY <1>1, <1>2, <1>3, AllowedKnows, RectsStay DEF FlipFollows
<1>5. /\ rects' \in [Regions -> SUBSET Rects] /\ osd_changed' \in BOOLEAN
      /\ camera' \in Cameras /\ camera'.fps <= rate /\ doubt' \subseteq Doubts
      /\ open' \subseteq Regions /\ drawn' \in Regions
  BY <1>1, <1>2, AllowedKnows DEF IInv, TypeOK
<1>6. "stream" \notin doubt' =>
        camera'.fps = value'.fps /\ camera'.osd = value'.stream_osd
  BY <1>1, <1>2, <1>3, AllowedKnows
<1> QED BY <1>1, <1>2, <1>3, <1>4, <1>5, <1>6, CommandStep
--------------------------------------------------------------------------------
(* reset, between commands and at a start.                                    *)

LEMMA ResetKnows ==
  ASSUME TypeOK, BoardSound
  PROVE  /\ ResetParams \in Params /\ ResetParams.flip = {}
         /\ ResetParams.rectangles = NoRects /\ ResetParams.fps = DefaultFps
         /\ ResetParams.sensor_rate \in Rates
         /\ ResetParams = [Defaults EXCEPT !.sensor_rate = ResetParams.sensor_rate]
         /\ sdk => ResetParams.sensor_rate = rate
         /\ ResetCamera = camera /\ camera.fps <= ResetParams.sensor_rate
<1>1. Defaults \in Params /\ Defaults.flip = {} /\ Defaults.rectangles = NoRects
      /\ Defaults.fps = DefaultFps
  BY RatesAreNumbers DEF TypeOK, Params, Defaults, Default
<1>2. CASE sdk
  <2>1. rate \in Rates /\ ResetParams = [Defaults EXCEPT !.sensor_rate = rate]
    BY <1>1, <1>2 DEF ResetParams, BoardSound, Params
  <2>2. /\ ResetParams \in Params /\ ResetParams.flip = {}
        /\ ResetParams.rectangles = NoRects /\ ResetParams.fps = DefaultFps
        /\ ResetParams.sensor_rate = rate
    BY <1>1, <2>1 DEF Params
  <2>3. ResetCamera = camera /\ camera.fps <= rate
    BY <1>2 DEF ResetCamera, BoardSound
  <2> QED BY <2>1, <2>2, <2>3
<1>3. CASE ~sdk
  <2>1. ResetParams = Defaults
    BY <1>1, <1>3 DEF ResetParams, Params
  <2>2. Defaults.sensor_rate \in Rates
        /\ Defaults = [Defaults EXCEPT !.sensor_rate = Defaults.sensor_rate]
    BY <1>1 DEF Params
  <2>3. ResetCamera = Dark /\ camera = Dark
    BY <1>3 DEF ResetCamera, BoardSound
  <2>4. Dark.fps <= Defaults.sensor_rate
    BY <2>2, RatesAreNumbers
  <2> QED BY <1>1, <1>3, <2>1, <2>2, <2>3, <2>4
<1> QED BY <1>2, <1>3 DEF TypeOK

LEMMA ResetResult ==
  ASSUME TypeOK, BoardSound, rate' = ResetParams.sensor_rate,
         NEW out \in ResetOutcomes(ResetParams, ResetCamera, rate'),
         sdk' = TRUE, camera' = out.camera, UNCHANGED << rects, drawn >>
  PROVE  /\ out.ok \in BOOLEAN /\ out.value \in Params
         /\ rate' \in Rates /\ camera' \in Cameras /\ BoardSound'
         /\ out.ok => out.value.rectangles = NoRects
         /\ out.ok /\ value' = out.value /\ open' = open \cup Unsent
            /\ doubt' = Vouched(value.flip # {}, TRUE, TRUE) =>
              /\ open' \subseteq Regions
              /\ doubt' \subseteq Doubts /\ ("boot" \in doubt' <=> "boot" \in doubt)
              /\ FlipFollows /\ RectsFollow => FlipFollows' /\ RectsFollow'
              /\ camera'.fps = value'.fps /\ camera'.osd = value'.stream_osd
              /\ value' = [Defaults' EXCEPT !.sensor_rate = rate',
                                            !.fps = Smaller(DefaultFps, rate')]
         /\ UNCHANGED << value, open >>
            /\ doubt' = Vouched(value.flip # {}, TRUE, FALSE) =>
              /\ doubt' \subseteq Doubts /\ ("boot" \in doubt' <=> "boot" \in doubt)
              /\ FlipFollows /\ RectsFollow => FlipFollows' /\ RectsFollow'
              /\ "stream" \in doubt' /\ doubt \subseteq doubt'
<1>0. PICK v \in Params : v = ResetParams
  BY ResetKnows
<1>1. /\ v \in Params /\ v.flip = {} /\ v.rectangles = NoRects /\ v.fps = DefaultFps
      /\ rate' \in Rates /\ ResetCamera = camera /\ camera.fps <= rate'
      /\ v = [Defaults EXCEPT !.sensor_rate = rate']
  BY <1>0, ResetKnows
<1>2. value \in Params /\ camera \in Cameras /\ doubt \subseteq Doubts
      /\ initialized \in BOOLEAN /\ open \subseteq Regions /\ drawn \in Regions
  BY DEF TypeOK
<1>3. out \in ResetOutcomes(v, camera, rate')
  BY <1>0, <1>1
<1>4. /\ out.ok \in BOOLEAN /\ out.value \in Params /\ out.camera \in Cameras
      /\ out.camera.fps <= rate' /\ out.camera.rects = camera.rects
      /\ v.flip = value.flip => out.camera.flip = camera.flip
      /\ out.ok = TRUE =>
           /\ v.flip # value.flip => out.camera.flip = v.flip
           /\ out.camera.fps = out.value.fps
           /\ out.camera.osd = out.value.stream_osd
           /\ out.value = Fitted(v, rate')
  <2>1. PICK r \in Rates : r = rate'
    BY <1>1
  <2>2. PICK c \in Cameras : c = camera
    BY <1>2
  <2>3. out \in ResetOutcomes(v, c, r) /\ c.fps <= r
    BY <1>1, <1>3, <2>1, <2>2
  <2>4. /\ out.ok \in BOOLEAN /\ out.value \in Params /\ out.camera \in Cameras
        /\ out.camera.fps <= r /\ out.camera.rects = c.rects
        /\ v.flip = value.flip => out.camera.flip = c.flip
        /\ out.ok = TRUE =>
             /\ v.flip # value.flip => out.camera.flip = v.flip
             /\ out.camera.fps = out.value.fps
             /\ out.camera.osd = out.value.stream_osd
             /\ out.value = Fitted(v, r)
    BY <1>2, <2>3, ResetOutcome
  <2> QED BY <2>1, <2>2, <2>4
<1>5. BoardSound' /\ camera' \in Cameras
  BY <1>1, <1>4 DEF BoardSound
<1>6. Smaller(DefaultFps, rate') \in Fps
  BY <1>1, SmallerFits, CgiAssumption
<1>7. ASSUME out.ok = TRUE
      PROVE  /\ out.value = [v EXCEPT !.fps = Smaller(DefaultFps, rate')]
             /\ out.value.flip = {} /\ out.value.rectangles = NoRects
             /\ out.value.device = value.device
             /\ v.flip # value.flip => out.camera.flip = {}
             /\ out.camera.fps = out.value.fps
             /\ out.camera.osd = out.value.stream_osd
  <2>1. out.value = Fitted(v, rate')
    BY <1>4, <1>7
  <2>2. Fitted(v, rate') = [v EXCEPT !.fps = Smaller(DefaultFps, rate')]
    BY <1>1 DEF Fitted
  <2>3. /\ Fitted(v, rate').flip = {} /\ Fitted(v, rate').rectangles = NoRects
        /\ Fitted(v, rate').device = v.device
    BY <1>1, FittedParams
  <2>4. v.device = value.device
    BY <1>1, <1>2 DEF Params, Defaults, Default
  <2> QED BY <1>1, <1>4, <1>7, <2>1, <2>2, <2>3, <2>4
<1>8. ASSUME out.ok = TRUE, value' = out.value, open' = open \cup Unsent,
             doubt' = Vouched(value.flip # {}, TRUE, TRUE)
      PROVE  /\ open' \subseteq Regions
             /\ doubt' \subseteq Doubts /\ ("boot" \in doubt' <=> "boot" \in doubt)
             /\ FlipFollows /\ RectsFollow => FlipFollows' /\ RectsFollow'
             /\ camera'.fps = value'.fps /\ camera'.osd = value'.stream_osd
             /\ value' = [Defaults' EXCEPT !.sensor_rate = rate',
                                           !.fps = Smaller(DefaultFps, rate')]
  <2>1. /\ doubt' \subseteq Doubts /\ ("boot" \in doubt' <=> "boot" \in doubt)
        /\ "flip" \in doubt' <=> "flip" \in doubt /\ value.flip = {}
    BY <1>2, <1>8, Vouch
  <2>2. Unsent \subseteq Regions
        /\ \A i \in Regions \ Unsent : value.rectangles[i] = {} /\ rects[i] = {}
    BY DEF Unsent
  <2>4. open' \subseteq Regions
    BY <1>2, <1>8, <2>2
  <2>5. ASSUME FlipFollows PROVE FlipFollows'
    <3>1. ASSUME "flip" \notin doubt' PROVE camera'.flip = {}
      <4>1. CASE value.flip = {}
        BY <1>1, <1>4, <2>1, <2>5, <3>1, <4>1 DEF FlipFollows
      <4>2. CASE value.flip # {}
        BY <1>1, <1>7, <1>8, <4>2
      <4> QED BY <4>1, <4>2
    <3> QED BY <1>7, <1>8, <3>1 DEF FlipFollows
  <2>6. ASSUME RectsFollow PROVE RectsFollow'
    <3>1. \A i \in Regions : value'.rectangles[i] = {}
      BY <1>7, <1>8 DEF NoRects
    <3>2. \A i \in Regions \ open' : rects'[i] = {}
      BY <1>8, <2>2
    <3>3. drawn' \notin open' => camera'.rects = {}
      BY <1>2, <1>4, <1>8, <2>2, <2>6 DEF RectsFollow
    <3> QED BY <1>2, <3>1, <3>2, <3>3 DEF RectsFollow
  <2>7. camera'.fps = value'.fps /\ camera'.osd = value'.stream_osd
    BY <1>7, <1>8
  <2>8. Defaults' = Defaults
    BY <1>7, <1>8 DEF Defaults
  <2>9. value' = [Defaults' EXCEPT !.sensor_rate = rate',
                                  !.fps = Smaller(DefaultFps, rate')]
    BY <1>1, <1>7, <1>8, <2>8
  <2> QED BY <2>1, <2>4, <2>5, <2>6, <2>7, <2>9
<1>9. ASSUME UNCHANGED << value, open >>, doubt' = Vouched(value.flip # {}, TRUE, FALSE)
      PROVE  /\ doubt' \subseteq Doubts /\ ("boot" \in doubt' <=> "boot" \in doubt)
             /\ FlipFollows /\ RectsFollow => FlipFollows' /\ RectsFollow'
             /\ "stream" \in doubt' /\ doubt \subseteq doubt'
  <2>1. /\ doubt' \subseteq Doubts
        /\ "flip" \in doubt' <=> "flip" \in doubt \/ value.flip # {}
        /\ "stream" \in doubt' /\ doubt \subseteq doubt'
        /\ "boot" \in doubt' <=> "boot" \in doubt
    BY <1>2, <1>9, Vouch
  <2>2. ASSUME FlipFollows PROVE FlipFollows'
    BY <1>1, <1>4, <1>9, <2>1, <2>2 DEF FlipFollows
  <2>3. ASSUME RectsFollow PROVE RectsFollow'
    BY <1>4, <1>9, <2>3, RectsStay
  <2> QED BY <2>1, <2>2, <2>3
<1> QED BY <1>1, <1>4, <1>5, <1>7, <1>8, <1>9

LEMMA Logged ==
  ASSUME NEW code \in {"start", "watchdog", "other"}, NEW quick, TypeOK, Log(code, quick)
  PROVE  loops' \in 0..LoopLimit /\ last' \in {"start", "watchdog", "other"}
BY DEF Log, TypeOK, LoopLimit, Smaller

LEMMA ResetStep ==
  ASSUME IInv, Reset
  PROVE  IInv'
<1>1. /\ phase = "idle" /\ rate' = ResetParams.sensor_rate /\ TypeOK /\ BoardSound
      /\ UNCHANGED << line, rects, drawn, osd_changed, initialized, fatal, watching,
                      loops, last >>
  BY DEF Reset, process, status, IInv
<1>2. ASSUME rate' \in Rates, sdk' \in BOOLEAN, sdk => sdk', camera' \in Cameras,
             value' \in Params, doubt' \subseteq Doubts, open' \subseteq Regions,
             file' \in File, unsaved' \in BOOLEAN,
             phase' \in {"idle", "writing"}, phase' = "writing" => initialized,
             "boot" \in doubt => "boot" \in doubt'
      PROVE  TypeOK' /\ AllOff' /\ Flags' /\ HalfRead' /\ Resets' /\ Recovers'
  <2>1. TypeOK'
    BY <1>1, <1>2 DEF TypeOK
  <2>2. UNCHANGED << initialized, watching >> /\ fatal' \in {fatal, TRUE}
    BY <1>1
  <2> QED BY <1>1, <1>2, <2>1, <2>2, StaysUp
<1>3. CASE \E out \in ResetOutcomes(ResetParams, ResetCamera, rate') :
             /\ sdk' = TRUE /\ camera' = out.camera
             /\ IF out.ok
                THEN /\ value' = out.value
                     /\ open' = open \cup Unsent
                     /\ Save(out.value)
                ELSE UNCHANGED <<value, phase, store, open>>
             /\ doubt' = Vouched(value.flip # {}, TRUE, out.ok)
  <2>1. PICK out \in ResetOutcomes(ResetParams, ResetCamera, rate') :
             /\ sdk' = TRUE /\ camera' = out.camera
             /\ IF out.ok
                THEN /\ value' = out.value
                     /\ open' = open \cup Unsent
                     /\ Save(out.value)
                ELSE UNCHANGED <<value, phase, store, open>>
             /\ doubt' = Vouched(value.flip # {}, TRUE, out.ok)
    BY <1>3
  <2>2. UNCHANGED << rects, drawn >> /\ sdk' = TRUE /\ camera' = out.camera
    BY <1>1, <2>1
  <2>3. /\ out.ok \in BOOLEAN /\ out.value \in Params
        /\ rate' \in Rates /\ camera' \in Cameras /\ BoardSound'
        /\ out.ok => out.value.rectangles = NoRects
    BY <1>1, <2>2, ResetResult
  <2>4. CASE out.ok = TRUE
    <3>1. /\ value' = out.value /\ Save(value')
          /\ doubt' = Vouched(value.flip # {}, TRUE, TRUE) /\ open' = open \cup Unsent
      BY <2>1, <2>4
    <3>2. /\ open' \subseteq Regions
          /\ doubt' \subseteq Doubts /\ ("boot" \in doubt' <=> "boot" \in doubt)
          /\ FlipFollows /\ RectsFollow => FlipFollows' /\ RectsFollow'
          /\ camera'.fps = value'.fps /\ camera'.osd = value'.stream_osd
      BY <1>1, <2>2, <2>4, <3>1, ResetResult
    <3>3. /\ KeptInFile' /\ file' \in File /\ unsaved' \in BOOLEAN
          /\ phase' \in {"idle", "writing"} /\ (phase' = "writing" => initialized)
      BY <1>1, <2>3, <3>1, Saves
    <3>4. TypeOK' /\ AllOff' /\ Flags' /\ HalfRead' /\ Resets' /\ Recovers'
      BY <1>2, <2>2, <2>3, <3>1, <3>2, <3>3
    <3>5. Follows'
      BY <1>1, <3>2 DEF Follows, StreamFollows, IInv
    <3>6. Heals'
      BY <2>3, <2>4, <3>1 DEF Heals
    <3> QED BY <2>3, <3>3, <3>4, <3>5, <3>6 DEF IInv
  <2>5. CASE out.ok = FALSE
    <3>1. /\ UNCHANGED <<value, phase, store, open>>
          /\ doubt' = Vouched(value.flip # {}, TRUE, FALSE)
      BY <2>1, <2>5
    <3>2. /\ doubt' \subseteq Doubts /\ ("boot" \in doubt' <=> "boot" \in doubt)
          /\ FlipFollows /\ RectsFollow => FlipFollows' /\ RectsFollow'
          /\ "stream" \in doubt' /\ doubt \subseteq doubt'
      BY <1>1, <2>2, <3>1, ResetResult
    <3>3. KeptInFile'
      BY <1>1, <3>1, <3>2, KeepsFile
    <3>4. TypeOK' /\ AllOff' /\ Flags' /\ HalfRead' /\ Resets' /\ Recovers'
      <4>1. /\ value' \in Params /\ file' \in File /\ phase' = "idle"
            /\ unsaved' \in BOOLEAN /\ open' \subseteq Regions
        BY <1>1, <3>1 DEF TypeOK, store
      <4> QED BY <1>2, <2>2, <2>3, <3>2, <4>1
    <3>5. Follows'
      BY <1>1, <3>2 DEF Follows, StreamFollows, IInv
    <3>6. Heals'
      BY <1>1, <3>1 DEF Heals, IInv
    <3> QED BY <2>3, <3>3, <3>4, <3>5, <3>6 DEF IInv
  <2> QED BY <2>3, <2>4, <2>5
<1>4. CASE ~sdk /\ UNCHANGED <<phase, value, sdk, camera, store, doubt, open>>
  <2>1. /\ rate' \in Rates /\ sdk' \in BOOLEAN /\ camera' \in Cameras /\ value' \in Params
        /\ doubt' \subseteq Doubts /\ file' \in File /\ phase' = "idle"
        /\ unsaved' \in BOOLEAN /\ open' \subseteq Regions
    BY <1>1, <1>4, ResetKnows DEF TypeOK, store
  <2>2. TypeOK' /\ AllOff' /\ Flags' /\ HalfRead' /\ Resets' /\ Recovers'
    BY <1>2, <1>4, <2>1
  <2>3. BoardSound'
    BY <1>1, <1>4, <2>1, ResetKnows DEF BoardSound
  <2>4. KeptInFile'
    BY <1>1, <1>4, KeepsFile
  <2>5. Follows' /\ Heals'
    BY <1>1, <1>4 DEF Follows, FlipFollows, RectsFollow, StreamFollows, Heals, IInv
  <2> QED BY <2>2, <2>3, <2>4, <2>5 DEF IInv
<1> QED BY <1>3, <1>4 DEF Reset

LEMMA OtherCommandStep ==
  ASSUME IInv, OtherCommand
  PROVE  IInv'
<1>1. /\ phase = "idle" /\ Log("other", FALSE) /\ TypeOK
      /\ UNCHANGED << phase, line, value, rects, osd_changed, initialized, fatal,
                      watching, sdk, rate, camera, store, file, unsaved, doubt, open, drawn >>
  BY DEF OtherCommand, settings, process, board, store, regions, IInv
<1>2. TypeOK'
  BY <1>1, Logged DEF TypeOK
<1>3. KeptInFile'
  BY <1>1, KeepsFile
<1>4. AllOff' /\ Flags' /\ HalfRead' /\ Resets' /\ Recovers'
  BY <1>1, StaysUp
<1>5. BoardSound' /\ Follows' /\ Heals'
  BY <1>1 DEF BoardSound, Follows, FlipFollows, RectsFollow, StreamFollows, Heals, IInv
<1> QED BY <1>2, <1>3, <1>4, <1>5 DEF IInv

LEMMA ReplyFailsStep ==
  ASSUME IInv, ReplyFails
  PROVE  IInv'
<1>1. /\ phase = "idle" /\ fatal' = TRUE /\ Log("other", FALSE) /\ TypeOK
      /\ UNCHANGED << phase, line, value, rects, osd_changed, initialized,
                      watching, sdk, rate, camera, store, file, unsaved, doubt, open, drawn >>
  BY DEF ReplyFails, settings, board, store, regions, IInv
<1>2. TypeOK'
  BY <1>1, Logged DEF TypeOK
<1>3. KeptInFile'
  BY <1>1, KeepsFile
<1>4. AllOff' /\ Flags' /\ HalfRead' /\ Resets' /\ Recovers'
  BY <1>1, StaysUp
<1>5. BoardSound' /\ Follows'
  BY <1>1 DEF BoardSound, Follows, FlipFollows, RectsFollow, StreamFollows, IInv
<1>6. Heals'
  BY <1>1 DEF Heals, Flags, IInv
<1> QED BY <1>2, <1>3, <1>4, <1>5, <1>6 DEF IInv
--------------------------------------------------------------------------------
(* The end of a write and of a start, and the end of the server.              *)

(* A file that was cut short is a file, and known to be.                      *)
LEMMA Cut ==
  ASSUME file \in File, UNCHANGED store \/ FlashFull, unsaved \in BOOLEAN
  PROVE  /\ file' \in File /\ unsaved' \in BOOLEAN
         /\ ~unsaved' => ~unsaved /\ file' = file
<1>1. CASE UNCHANGED store
  BY <1>1 DEF store
<1>2. CASE FlashFull
  <2>1. PICK n \in 0..LastLine, tail \in BOOLEAN :
          file' = [file EXCEPT !.lines = n, !.broken = tail /\ n < LastLine]
    BY <1>2 DEF FlashFull, CutFile
  <2>2. PICK b \in BOOLEAN : b = (tail /\ n < LastLine)
    OBVIOUS
  <2>3. file' \in File
    BY <2>1, <2>2 DEF File
  <2> QED BY <1>2, <2>3 DEF FlashFull
<1> QED BY <1>1, <1>2

LEMMA WrittenStep ==
  ASSUME IInv, Written
  PROVE  IInv'
<1>1. /\ phase = "writing" /\ phase' = "idle" /\ TypeOK
      /\ UNCHANGED << line, value, rects, osd_changed, initialized, fatal,
                      watching, sdk, rate, camera, loops, last, doubt, open, drawn >>
  BY DEF Written, settings, process, board, status, regions, IInv
<1>0. /\ file' \in File /\ unsaved' \in BOOLEAN
      /\ ~unsaved' => ~unsaved /\ file' = file
  BY <1>1, Cut DEF Written, TypeOK
<1>2. TypeOK'
  BY <1>0, <1>1 DEF TypeOK
<1>3. AllOff' /\ HalfRead' /\ Resets' /\ Recovers'
  BY <1>1 DEF AllOff, HalfRead, Resets, Recovers
<1>4. Flags'
  BY <1>1 DEF Flags, IInv
<1>5. BoardSound' /\ Follows' /\ Heals'
  BY <1>1 DEF BoardSound, Follows, FlipFollows, RectsFollow, StreamFollows, Heals, IInv
<1>6. KeptInFile'
  BY <1>0, <1>1 DEF KeptInFile, SavedFields, Whole, IInv
<1> QED BY <1>2, <1>3, <1>4, <1>5, <1>6 DEF IInv

LEMMA StartedStep ==
  ASSUME IInv, Started
  PROVE  IInv'
<1>1. /\ phase = "storing" /\ phase' = "idle" /\ watching' = ~fatal /\ TypeOK
      /\ Log("start", FALSE)
      /\ UNCHANGED << line, value, rects, osd_changed, initialized, fatal,
                      sdk, rate, camera, doubt, open, drawn >>
  BY DEF Started, settings, board, regions, IInv
<1>0. /\ file' \in File /\ unsaved' \in BOOLEAN
      /\ ~unsaved' => ~unsaved /\ file' = file
  BY <1>1, Cut DEF Started, TypeOK
<1>2. TypeOK'
  BY <1>0, <1>1, Logged DEF TypeOK
<1>3. AllOff' /\ HalfRead' /\ Resets' /\ Recovers'
  BY <1>1 DEF AllOff, HalfRead, Resets, Recovers
<1>4. Flags'
  BY <1>1 DEF Flags, IInv
<1>5. BoardSound' /\ Follows'
  BY <1>1 DEF BoardSound, Follows, FlipFollows, RectsFollow, StreamFollows, IInv
<1>6. KeptInFile'
  BY <1>0, <1>1 DEF KeptInFile, SavedFields, Whole, IInv
<1>7. Heals'
  BY <1>1 DEF Heals, Flags, IInv
<1> QED BY <1>2, <1>3, <1>4, <1>5, <1>6, <1>7 DEF IInv

LEMMA OffStep ==
  ASSUME TypeOK, Off, file' \in File,
         loops' \in 0..LoopLimit, last' \in {"start", "watchdog", "other"}
  PROVE  IInv'
<1>1. /\ phase' = "off" /\ line' = 1 /\ value' = Default /\ rects' = NoRects
      /\ osd_changed' = FALSE /\ initialized' = FALSE /\ fatal' = FALSE
      /\ watching' = FALSE /\ sdk' = FALSE /\ rate' = 0 /\ camera' = Dark /\ doubt' = {}
      /\ open' = {} /\ drawn' = 0 /\ unsaved' = FALSE
  BY DEF Off
<1>2. TypeOK'
  <2>1. line' \in 1..LastLine + 1
    BY <1>1, LastLineIs
  <2>2. value' \in Params /\ camera' \in Cameras
    BY <1>1, RatesAreNumbers
  <2>3. /\ doubt' \subseteq Doubts /\ rects' \in [Regions -> SUBSET Rects]
        /\ open' \subseteq Regions /\ drawn' \in Regions
    BY <1>1, RatesAreNumbers
  <2> QED BY <1>1, <2>1, <2>2, <2>3 DEF TypeOK
<1>3. AllOff' /\ Flags' /\ HalfRead' /\ KeptInFile' /\ Resets' /\ Recovers' /\ Heals'
  BY <1>1 DEF AllOff, Flags, HalfRead, KeptInFile, Resets, Recovers, Heals
<1>4. BoardSound'
  BY <1>1, RatesAreNumbers DEF BoardSound
<1>5. Follows'
  <2>1. FlipFollows' /\ StreamFollows'
    BY <1>1 DEF FlipFollows, StreamFollows, Dark, Default
  <2>2. RectsFollow'
    BY <1>1, RatesAreNumbers DEF RectsFollow, Dark, Default, NoRects
  <2> QED BY <2>1, <2>2 DEF Follows
<1> QED BY <1>2, <1>3, <1>4, <1>5 DEF IInv

LEMMA StopStep ==
  ASSUME IInv, Stop
  PROVE  IInv'
<1>1. TypeOK /\ Off /\ UNCHANGED << loops, last >>
  BY DEF Stop, status, IInv
<1>2. file' \in File
  BY LastLineIs DEF Stop, CutFile, File, IInv, TypeOK
<1> QED BY <1>1, <1>2, OffStep DEF TypeOK

LEMMA WatchdogRebootStep ==
  ASSUME IInv, NEW quick \in BOOLEAN, WatchdogReboot(quick)
  PROVE  IInv'
<1>1. TypeOK /\ Off /\ Log("watchdog", quick) /\ file' = file
  BY DEF WatchdogReboot, IInv
<1> QED BY <1>1, Logged, OffStep DEF TypeOK
--------------------------------------------------------------------------------
(* A start, line by line.                                                     *)

(* Before the regions there is no list; one without rectangles changes        *)
(* nothing, and one with them replaces what there is.                         *)
LEMMA NoListYet ==
  ASSUME NEW n \in 0..StreamLine
  PROVE  ListAfter(n) = {}
<1>1. Listed(n) = {}
  BY LastLineIs DEF Listed, StreamLine
<1> QED BY <1>1 DEF ListAfter

LEMMA SameList ==
  ASSUME NEW n \in 0..LastLine, NEW m \in 0..LastLine,
         \A i \in Regions : file.saved.rectangles[i] # {} =>
           (RoiLine(i) <= n <=> RoiLine(i) <= m)
  PROVE  ListAfter(n) = ListAfter(m)
<1>1. Listed(n) = Listed(m)
  BY DEF Listed
<1> QED BY <1>1 DEF ListAfter

LEMMA LastListed ==
  ASSUME NEW i \in Regions, file.saved.rectangles[i] # {}
  PROVE  ListAfter(RoiLine(i)) = file.saved.rectangles[i]
<1> DEFINE S == Listed(RoiLine(i))
<1>1. i \in S /\ \A j \in S : i >= j /\ j \in Int
  BY CgiAssumption DEF Listed, RoiLine, Regions
<1> HIDE DEF S
<1>2. \E x \in S : \A y \in S : x >= y
  BY <1>1
<1>3. Max(S) \in S /\ \A y \in S : Max(S) >= y
  BY <1>2 DEF Max
<1>4. Max(S) = i
  BY <1>1, <1>3
<1> QED BY <1>1, <1>4 DEF ListAfter, S

LEMMA RecoveredFields ==
  ASSUME NEW n
  PROVE  LET s == file.saved
             p == RecoveredFrom(n)
         IN /\ p.osd = (n >= ImageLine /\ s.osd)
            /\ p.stream_osd = IF n >= StreamLine THEN s.stream_osd
                              ELSE n = ImageLine /\ s.osd
            /\ p.fps = IF n >= StreamLine THEN Smaller(s.fps, s.sensor_rate)
                       ELSE IF n = ImageLine /\ s.osd
                            THEN Smaller(DefaultFps, s.sensor_rate) ELSE DefaultFps
            /\ p.flip = IF n >= ImageLine THEN s.flip ELSE {}
            /\ p.sensor_rate = IF n >= ImageLine THEN s.sensor_rate ELSE DefaultRate
            /\ p.rectangles = [NoRects EXCEPT ![0] = ListAfter(n)]
            /\ p.device = IF n = LastLine THEN s.device ELSE DefaultDevice
BY DEF RecoveredFrom

LEMMA IsRecovered ==
  ASSUME NEW n, NEW x \in Params,
         x.flip = RecoveredFrom(n).flip, x.osd = RecoveredFrom(n).osd,
         x.sensor_rate = RecoveredFrom(n).sensor_rate, x.fps = RecoveredFrom(n).fps,
         x.stream_osd = RecoveredFrom(n).stream_osd,
         x.rectangles = RecoveredFrom(n).rectangles, x.device = RecoveredFrom(n).device
  PROVE  x = RecoveredFrom(n)
<1>1. x = [flip |-> x.flip, osd |-> x.osd, sensor_rate |-> x.sensor_rate, fps |-> x.fps,
           stream_osd |-> x.stream_osd, rectangles |-> x.rectangles, device |-> x.device]
  BY DEF Params
<1>2. RecoveredFrom(n) =
        [flip |-> RecoveredFrom(n).flip, osd |-> RecoveredFrom(n).osd,
         sensor_rate |-> RecoveredFrom(n).sensor_rate, fps |-> RecoveredFrom(n).fps,
         stream_osd |-> RecoveredFrom(n).stream_osd,
         rectangles |-> RecoveredFrom(n).rectangles, device |-> RecoveredFrom(n).device]
  BY DEF RecoveredFrom
<1> QED BY <1>1, <1>2

LEMMA NoLists ==
  /\ NoRects[0] = {} /\ [NoRects EXCEPT ![0] = {}] = NoRects
BY RatesAreNumbers DEF NoRects

LEMMA RecoveredStart == RecoveredFrom(0) = Default
<1>1. ~(0 >= ImageLine) /\ ~(0 >= StreamLine) /\ 0 # ImageLine /\ 0 # LastLine
  BY LastLineIs DEF ImageLine, StreamLine
<1>2. ListAfter(0) = {}
  BY NoListYet DEF StreamLine
<1>3. PICK x \in Params : x = Default
  BY RatesAreNumbers
<1>4. /\ RecoveredFrom(0).flip = {} /\ RecoveredFrom(0).osd = FALSE
      /\ RecoveredFrom(0).sensor_rate = DefaultRate
      /\ RecoveredFrom(0).fps = DefaultFps /\ RecoveredFrom(0).stream_osd = FALSE
      /\ RecoveredFrom(0).rectangles = NoRects
      /\ RecoveredFrom(0).device = DefaultDevice
  <2>1. /\ RecoveredFrom(0).osd = (0 >= ImageLine /\ file.saved.osd)
        /\ RecoveredFrom(0).stream_osd = IF 0 >= StreamLine THEN file.saved.stream_osd
                                         ELSE 0 = ImageLine /\ file.saved.osd
    BY RecoveredFields
  <2>2. RecoveredFrom(0).osd = FALSE /\ RecoveredFrom(0).stream_osd = FALSE
    BY <1>1, <2>1, Zenon
  <2>3. /\ RecoveredFrom(0).flip = {} /\ RecoveredFrom(0).sensor_rate = DefaultRate
        /\ RecoveredFrom(0).device = DefaultDevice
        /\ RecoveredFrom(0).rectangles = [NoRects EXCEPT ![0] = {}]
        /\ RecoveredFrom(0).fps = DefaultFps
    BY <1>1, <1>2 DEF RecoveredFrom
  <2> QED BY <2>2, <2>3, NoLists
<1>5. /\ x.flip = {} /\ x.osd = FALSE /\ x.sensor_rate = DefaultRate
      /\ x.fps = DefaultFps /\ x.stream_osd = FALSE
      /\ x.rectangles = NoRects /\ x.device = DefaultDevice
  BY <1>3 DEF Default
<1>6. x = RecoveredFrom(0)
  BY <1>3, <1>4, <1>5, IsRecovered
<1> QED BY <1>3, <1>6

(* What each line adds.                                                       *)
LEMMA RecoveredImage ==
  ASSUME file \in File
  PROVE  LET s == file.saved
             p == RecoveredFrom(1)
         IN /\ p.flip = s.flip /\ p.osd = s.osd /\ p.sensor_rate = s.sensor_rate
            /\ p.stream_osd = s.osd
            /\ p.fps = IF s.osd THEN Smaller(DefaultFps, s.sensor_rate) ELSE DefaultFps
            /\ p.rectangles = NoRects /\ p.device = DefaultDevice
<1>1. 1 >= ImageLine /\ ~(1 >= StreamLine) /\ 1 = ImageLine /\ 1 # LastLine
  BY LastLineIs DEF ImageLine, StreamLine
<1>2. ListAfter(1) = {}
  BY NoListYet DEF StreamLine
<1>3. file.saved.osd \in BOOLEAN
  BY DEF File, Params
<1> QED BY <1>1, <1>2, <1>3, NoLists, RecoveredFields

LEMMA RecoveredStream ==
  ASSUME file \in File
  PROVE  LET s == file.saved
             p == RecoveredFrom(1)
             q == RecoveredFrom(2)
         IN /\ q.flip = p.flip /\ q.osd = p.osd /\ q.sensor_rate = p.sensor_rate
            /\ q.stream_osd = s.stream_osd /\ q.fps = Smaller(s.fps, s.sensor_rate)
            /\ q.rectangles = NoRects /\ q.device = p.device
<1>1. 2 >= ImageLine /\ 2 >= StreamLine /\ 2 # LastLine
  BY LastLineIs DEF ImageLine, StreamLine
<1>2. ListAfter(2) = {}
  BY NoListYet DEF StreamLine
<1>3. file.saved.osd \in BOOLEAN
  BY DEF File, Params
<1> QED BY <1>1, <1>2, <1>3, NoLists, RecoveredFields, RecoveredImage

LEMMA RecoveredRoi ==
  ASSUME file \in File, NEW i \in Regions
  PROVE  LET list == file.saved.rectangles[i]
             p == RecoveredFrom(RoiLine(i) - 1)
             q == RecoveredFrom(RoiLine(i))
         IN /\ q.flip = p.flip /\ q.osd = p.osd /\ q.sensor_rate = p.sensor_rate
            /\ q.stream_osd = p.stream_osd /\ q.fps = p.fps
            /\ q.rectangles = IF list = {} THEN p.rectangles
                              ELSE [NoRects EXCEPT ![0] = list]
            /\ p.rectangles = [NoRects EXCEPT ![0] = p.rectangles[0]]
            /\ q.device = p.device
<1>0. PICK n \in 3..LastLine - 1 : n = RoiLine(i)
  BY LastLineIs
<1>1. /\ LastLine \in Nat
      /\ n \in 0..LastLine /\ n - 1 \in 0..LastLine
      /\ n >= ImageLine /\ n >= StreamLine /\ n # LastLine
      /\ n - 1 >= ImageLine /\ n - 1 >= StreamLine /\ n - 1 # LastLine
  BY LastLineIs DEF ImageLine, StreamLine
<1>2. \A j \in Regions : RoiLine(j) \in Int /\ (RoiLine(j) = n => j = i)
  BY <1>0, CgiAssumption DEF RoiLine, Regions
<1>3. LET s == file.saved
          p == RecoveredFrom(n - 1)
      IN /\ p.flip = s.flip /\ p.osd = s.osd /\ p.sensor_rate = s.sensor_rate
         /\ p.stream_osd = s.stream_osd /\ p.fps = Smaller(s.fps, s.sensor_rate)
         /\ p.rectangles = [NoRects EXCEPT ![0] = ListAfter(n - 1)]
         /\ p.device = DefaultDevice
  BY <1>1, RecoveredFields DEF File, Params
<1>4. LET s == file.saved
          q == RecoveredFrom(n)
      IN /\ q.flip = s.flip /\ q.osd = s.osd /\ q.sensor_rate = s.sensor_rate
         /\ q.stream_osd = s.stream_osd /\ q.fps = Smaller(s.fps, s.sensor_rate)
         /\ q.rectangles = [NoRects EXCEPT ![0] = ListAfter(n)]
         /\ q.device = DefaultDevice
  BY <1>1, RecoveredFields DEF File, Params
<1>5. RecoveredFrom(n - 1).rectangles
        = [NoRects EXCEPT ![0] = RecoveredFrom(n - 1).rectangles[0]]
  BY <1>3, RatesAreNumbers
<1>6. CASE file.saved.rectangles[i] = {}
  <2>1. \A j \in Regions : file.saved.rectangles[j] # {} =>
          (RoiLine(j) <= n - 1 <=> RoiLine(j) <= n)
    BY <1>1, <1>2, <1>6
  <2>2. ListAfter(n - 1) = ListAfter(n)
    BY <1>1, <2>1, SameList
  <2> QED BY <1>0, <1>3, <1>4, <1>5, <1>6, <2>2
<1>7. CASE file.saved.rectangles[i] # {}
  <2>1. ListAfter(n) = file.saved.rectangles[i]
    BY <1>0, <1>7, LastListed
  <2> QED BY <1>0, <1>3, <1>4, <1>5, <1>7, <2>1
<1> QED BY <1>6, <1>7

LEMMA RecoveredDevice ==
  ASSUME file \in File
  PROVE  LET p == RecoveredFrom(LastLine - 1)
             q == RecoveredFrom(LastLine)
         IN /\ q.flip = p.flip /\ q.osd = p.osd /\ q.sensor_rate = p.sensor_rate
            /\ q.stream_osd = p.stream_osd /\ q.fps = p.fps
            /\ q.rectangles = p.rectangles /\ q.device = file.saved.device
<1>1. PICK n \in Nat : n = LastLine
  BY LastLineIs
<1>2. /\ n \in 0..LastLine /\ n - 1 \in 0..LastLine
      /\ n >= ImageLine /\ n >= StreamLine
      /\ n - 1 >= ImageLine /\ n - 1 >= StreamLine /\ n - 1 # LastLine
  BY <1>1, LastLineIs DEF ImageLine, StreamLine, RoiLine
<1>3. \A j \in Regions : RoiLine(j) <= n - 1 <=> RoiLine(j) <= n
  BY <1>1, LastLineIs
<1>4. ListAfter(n - 1) = ListAfter(n)
  BY <1>2, <1>3, SameList
<1> QED BY <1>1, <1>2, <1>4, RecoveredFields

LEMMA PowerOnStep ==
  ASSUME IInv, PowerOn
  PROVE  IInv'
<1>1. /\ phase = "off" /\ phase' = "reading" /\ TypeOK
      /\ UNCHANGED << line, value, rects, osd_changed, initialized, fatal, watching, sdk,
                      rate, camera, file, unsaved, loops, last, doubt, open, drawn >>
  BY DEF PowerOn, settings, process, board, store, status, regions, IInv
<1>2. /\ line = 1 /\ value = Default /\ rects = NoRects /\ ~osd_changed /\ ~sdk
      /\ doubt = {} /\ open = {} /\ drawn = 0
  BY <1>1 DEF IInv, AllOff
<1>3. TypeOK'
  BY <1>1 DEF TypeOK
<1>4. AllOff' /\ KeptInFile' /\ Resets' /\ Recovers' /\ Heals'
  BY <1>1 DEF AllOff, KeptInFile, Resets, Recovers, Heals
<1>5. Flags'
  BY <1>1 DEF Flags, IInv
<1>6. BoardSound' /\ Follows'
  BY <1>1, <1>2 DEF BoardSound, Follows, FlipFollows, RectsFollow, StreamFollows, StreamLine, IInv
<1>7. HalfRead'
  <2>1. file.lines \in Nat
    BY <1>1 DEF TypeOK, File
  <2>2. \A i \in Regions : RoiLine(i) \in Nat /\ ~(line > RoiLine(i))
    BY <1>2, LastLineIs
  <2>3. value' = RecoveredFrom(0)
    BY <1>1, <1>2, RecoveredStart
  <2>4. RecoveredFrom(line - 1)' = RecoveredFrom(0)
    BY <1>1, <1>2 DEF RecoveredFrom, ListAfter, Listed
  <2> QED BY <1>1, <1>2, <2>1, <2>2, <2>3, <2>4 DEF HalfRead
<1> QED BY <1>3, <1>4, <1>5, <1>6, <1>7 DEF IInv

LEMMA ReadKnows ==
  ASSUME IInv, phase = "reading"
  PROVE  /\ TypeOK /\ doubt = {} /\ open = {} /\ drawn = 0
         /\ value \in Params /\ file \in File
         /\ file.saved \in Params /\ file.lines \in 0..LastLine
         /\ line \in 1..LastLine + 1 /\ line <= file.lines + 1
         /\ initialized = FALSE /\ fatal = FALSE /\ watching = FALSE
         /\ camera \in Cameras /\ camera.fps <= rate
         /\ rects \in [Regions -> SUBSET Rects]
         /\ osd_changed \in BOOLEAN /\ sdk \in BOOLEAN /\ rate \in Rates \cup {0}
         /\ camera.flip = value.flip /\ camera.rects = value.rectangles[0]
         /\ rects = value.rectangles
         /\ line = 1 => osd_changed = FALSE /\ sdk = FALSE /\ camera = Dark
         /\ line > 1 => sdk = TRUE /\ rate = file.saved.sensor_rate /\ rate \in Rates
         /\ line > StreamLine => camera.fps = value.fps /\ camera.osd = value.stream_osd
         /\ \A i \in Regions :
              line > RoiLine(i) => file.saved.rectangles[i] \cap Edge = {}
         /\ value = RecoveredFrom(line - 1)
<1>1. /\ TypeOK /\ doubt = {} /\ open = {} /\ drawn = 0
      /\ value \in Params /\ file \in File
      /\ line \in 1..LastLine + 1 /\ camera \in Cameras
      /\ rects \in [Regions -> SUBSET Rects]
      /\ osd_changed \in BOOLEAN /\ sdk \in BOOLEAN /\ rate \in Rates \cup {0}
  BY DEF IInv, TypeOK, HalfRead
<1>2. initialized = FALSE /\ fatal = FALSE /\ watching = FALSE
  BY DEF IInv, TypeOK, Flags
<1>3. file.saved \in Params /\ file.lines \in 0..LastLine
  BY <1>1 DEF File
<1>4. FlipFollows /\ RectsFollow /\ StreamFollows
  BY <1>2 DEF IInv, Follows
<1>5. /\ camera.flip = value.flip /\ camera.rects = value.rectangles[0]
      /\ \A i \in Regions : rects[i] = value.rectangles[i]
      /\ line > StreamLine => camera.fps = value.fps /\ camera.osd = value.stream_osd
  BY <1>1, <1>4 DEF FlipFollows, RectsFollow, StreamFollows
<1>6. rects = value.rectangles
  <2>1. PICK r \in [Regions -> SUBSET Rects] : r = value.rectangles
    BY <1>1 DEF Params
  <2> QED BY <1>1, <1>5, <2>1
<1>7. /\ line = 1 => osd_changed = FALSE /\ sdk = FALSE
      /\ line > 1 => sdk = TRUE /\ rate = file.saved.sensor_rate
      /\ \A i \in Regions :
           line > RoiLine(i) => file.saved.rectangles[i] \cap Edge = {}
      /\ line <= file.lines + 1 /\ value = RecoveredFrom(line - 1)
  BY <1>1 DEF IInv, HalfRead
<1>8. /\ camera.fps <= rate /\ (sdk = FALSE => camera = Dark) /\ (sdk = TRUE => rate \in Rates)
  BY DEF IInv, BoardSound
<1> QED BY <1>1, <1>2, <1>3, <1>5, <1>6, <1>7, <1>8

LEMMA NextLineStep ==
  ASSUME IInv, phase = "reading", NextLine, line <= file.lines,
         UNCHANGED << initialized, fatal, watching, file, unsaved, doubt, open, drawn >>,
         sdk' = TRUE, rate' = file.saved.sensor_rate,
         value' \in Params, value' = RecoveredFrom(line), rects' = value'.rectangles,
         osd_changed' \in BOOLEAN, camera' \in Cameras, camera'.fps <= rate',
         camera'.flip = value'.flip, camera'.rects = value'.rectangles[0],
         line >= StreamLine => camera'.fps = value'.fps /\ camera'.osd = value'.stream_osd,
         \A i \in Regions : line = RoiLine(i) => file.saved.rectangles[i] \cap Edge = {}
  PROVE  IInv'
<1>1. /\ phase' = "reading" /\ line' = line + 1 /\ UNCHANGED << loops, last >>
  BY DEF NextLine, status
<1>2. /\ TypeOK /\ doubt = {} /\ open = {} /\ drawn = 0 /\ file.saved \in Params
      /\ file.lines \in 0..LastLine /\ line \in 1..LastLine + 1
      /\ initialized = FALSE /\ fatal = FALSE /\ watching = FALSE
      /\ \A i \in Regions :
           line > RoiLine(i) => file.saved.rectangles[i] \cap Edge = {}
  BY ReadKnows
<1>3. line \in 1..LastLine /\ line' \in 1..LastLine + 1 /\ LastLine \in Nat
  BY <1>1, <1>2, LastLineIs
<1>4. rate' \in Rates /\ rects' \in [Regions -> SUBSET Rects]
  BY <1>2 DEF Params
<1>5. TypeOK'
  BY <1>1, <1>2, <1>3, <1>4 DEF TypeOK
<1>6. AllOff' /\ Flags' /\ KeptInFile' /\ Resets' /\ Recovers' /\ Heals'
  BY <1>1, <1>2 DEF AllOff, Flags, KeptInFile, Resets, Recovers, Heals
<1>7. BoardSound'
  BY <1>4 DEF BoardSound
<1>8. Follows'
  <2>1. line' > StreamLine => line >= StreamLine
    BY <1>1, <1>3 DEF StreamLine
  <2> QED BY <1>1, <1>2, <2>1 DEF Follows, FlipFollows, RectsFollow, StreamFollows
<1>9. HalfRead'
  <2>1. line' - 1 = line /\ line' <= file.lines + 1 /\ line' # 1
    BY <1>1, <1>2, <1>3
  <2>2. ASSUME NEW i \in Regions, line' > RoiLine(i)
        PROVE  file.saved.rectangles[i] \cap Edge = {}
    <3>1. line > RoiLine(i) \/ line = RoiLine(i)
      BY <1>1, <1>3, <2>2, LastLineIs
    <3> QED BY <1>2, <3>1
  <2>3. RecoveredFrom(line - 1)' = RecoveredFrom(line)
    BY <2>1 DEF RecoveredFrom, ListAfter, Listed
  <2>4. /\ doubt' = {} /\ open' = {} /\ drawn' = 0
        /\ line' <= file'.lines + 1 /\ line' # 1
        /\ sdk' = TRUE /\ rate' = file'.saved.sensor_rate
        /\ \A i \in Regions :
             line' > RoiLine(i) => file'.saved.rectangles[i] \cap Edge = {}
        /\ value' = RecoveredFrom(line - 1)'
    BY <1>2, <2>1, <2>2, <2>3
  <2> QED BY <2>4 DEF HalfRead
<1> QED BY <1>5, <1>6, <1>7, <1>8, <1>9 DEF IInv

LEMMA ReadFailsStep ==
  ASSUME IInv, phase = "reading", StartOver,
         loops' \in 0..LoopLimit, last' \in {"start", "watchdog", "other"},
         UNCHANGED << initialized, fatal, watching, file, unsaved, drawn >>,
         rects' \in [Regions -> SUBSET Rects], open' \subseteq Regions,
         sdk' \in BOOLEAN, rate' \in Rates \cup {0}, camera' \in Cameras, BoardSound',
         doubt' \subseteq Doubts, "boot" \in doubt' \/ ~Readable,
         FlipFollows', RectsFollow'
  PROVE  IInv'
<1>1. phase' = "resetting" /\ line' = 1 /\ UNCHANGED << value, osd_changed >>
  BY DEF StartOver
<1>2. /\ TypeOK /\ initialized = FALSE /\ fatal = FALSE /\ watching = FALSE
  BY ReadKnows
<1>3. TypeOK'
  <2>1. line' \in 1..LastLine + 1
    BY <1>1, LastLineIs
  <2> QED BY <1>1, <1>2, <2>1 DEF TypeOK
<1>4. AllOff' /\ Flags' /\ HalfRead' /\ KeptInFile' /\ Recovers' /\ Heals'
  BY <1>1, <1>2 DEF AllOff, Flags, HalfRead, KeptInFile, Recovers, Heals
<1>5. Follows'
  BY <1>1 DEF Follows, StreamFollows
<1>6. Resets'
  BY DEF Resets, Readable
<1> QED BY <1>3, <1>4, <1>5, <1>6 DEF IInv

(* A line that fails also writes to the status file.                          *)
LEMMA FailedLine ==
  ASSUME TypeOK, LineFails
  PROVE  /\ StartOver /\ UNCHANGED << value, osd_changed >>
         /\ loops' \in 0..LoopLimit /\ last' \in {"start", "watchdog", "other"}
BY Logged DEF LineFails, StartOver

LEMMA ReadImageStep ==
  ASSUME IInv, ReadImage
  PROVE  IInv'
<1> DEFINE v == [value EXCEPT !.flip = file.saved.flip, !.osd = file.saved.osd,
                              !.sensor_rate = file.saved.sensor_rate]
<1>1. /\ phase = "reading" /\ line = 1 /\ line <= file.lines
      /\ rate' = v.sensor_rate
      /\ UNCHANGED << rects, initialized, fatal, watching, file, unsaved, open, drawn >>
  BY DEF ReadImage, Reading, ImageLine, process, store, regions
<1>2. /\ TypeOK /\ doubt = {} /\ open = {} /\ drawn = 0 /\ value \in Params /\ file \in File
      /\ file.saved \in Params /\ initialized = FALSE
      /\ rects \in [Regions -> SUBSET Rects]
      /\ osd_changed = FALSE /\ sdk = FALSE /\ camera = Dark
      /\ camera.flip = value.flip /\ camera.rects = value.rectangles[0]
      /\ rects = value.rectangles /\ value = RecoveredFrom(line - 1)
  BY <1>1, ReadKnows
<1>3. value = Default
  <2>1. line - 1 = 0
    BY <1>1
  <2> QED BY <1>2, <2>1, RecoveredStart
<1>4. /\ v \in Params /\ v.flip = file.saved.flip /\ v.osd = file.saved.osd
      /\ v.sensor_rate = file.saved.sensor_rate /\ v.fps = DefaultFps
      /\ v.stream_osd = FALSE /\ v.rectangles = NoRects /\ v.device = DefaultDevice
      /\ v.sensor_rate \in Rates /\ v.osd \in BOOLEAN
  <2>1. /\ v \in Params /\ v.flip = file.saved.flip /\ v.osd = file.saved.osd
        /\ v.sensor_rate = file.saved.sensor_rate /\ v.fps = value.fps
        /\ v.stream_osd = value.stream_osd /\ v.rectangles = value.rectangles
        /\ v.device = value.device
    BY <1>2 DEF Params
  <2>2. value.fps = DefaultFps /\ value.stream_osd = FALSE
        /\ value.rectangles = NoRects /\ value.device = DefaultDevice
    BY <1>3 DEF Default
  <2>3. file.saved.sensor_rate \in Rates /\ file.saved.osd \in BOOLEAN
    BY <1>2 DEF Params
  <2> QED BY <2>1, <2>2, <2>3
<1>6. \/ /\ sdk' = TRUE
         /\ \E out \in SetImageOutcomes(v, Dark, v.sensor_rate) :
              /\ camera' = out.camera
              /\ IF out.ok
                 THEN /\ value' = out.value /\ osd_changed' = FALSE
                      /\ NextLine /\ UNCHANGED doubt
                 ELSE /\ LineFails
                      /\ doubt' = doubt \cup {"flip", "stream", "boot"}
      \/ /\ LineFails
         /\ doubt' = doubt \cup {"boot"}
         /\ UNCHANGED <<sdk, camera>>
  BY DEF ReadImage
<1> HIDE DEF v
<1>5. Repaint(v) <=> v.osd # FALSE
  <2>1. value.osd = FALSE
    BY <1>3 DEF Default
  <2> QED BY <1>2, <2>1 DEF Repaint
<1>7. CASE sdk' = TRUE /\ \E out \in SetImageOutcomes(v, Dark, v.sensor_rate) :
              /\ camera' = out.camera
              /\ IF out.ok
                 THEN /\ value' = out.value /\ osd_changed' = FALSE
                      /\ NextLine /\ UNCHANGED doubt
                 ELSE /\ LineFails
                      /\ doubt' = doubt \cup {"flip", "stream", "boot"}
  <2>1. PICK out \in SetImageOutcomes(v, Dark, v.sensor_rate) :
              /\ camera' = out.camera
              /\ IF out.ok
                 THEN /\ value' = out.value /\ osd_changed' = FALSE
                      /\ NextLine /\ UNCHANGED doubt
                 ELSE /\ LineFails
                      /\ doubt' = doubt \cup {"flip", "stream", "boot"}
    BY <1>7
  <2>2. PICK w \in Params : w = v
    BY <1>4
  <2>3. PICK r \in Rates : r = v.sensor_rate
    BY <1>4
  <2>4. PICK c \in Cameras : c = Dark /\ c.fps <= r /\ c.flip = {} /\ c.rects = {}
    <3>1. Dark \in Cameras /\ Dark.fps <= r /\ Dark.flip = {} /\ Dark.rects = {}
      BY RatesAreNumbers
    <3> QED BY <3>1
  <2>5. /\ out \in SetImageOutcomes(w, c, r) /\ value \in Params
        /\ initialized \in BOOLEAN
    BY <1>2, <2>1, <2>2, <2>3, <2>4
  <2>6. ImageDone(w, c, r, out)
    BY <2>4, <2>5, SetImageOutcome
  <2>7. /\ out.ok \in BOOLEAN /\ out.value \in Params /\ camera' \in Cameras
        /\ camera'.fps <= rate' /\ camera'.rects = {} /\ rate' \in Rates
        /\ rate' = file.saved.sensor_rate
    BY <1>1, <1>4, <2>1, <2>3, <2>4, <2>6 DEF ImageDone
  <2>8. BoardSound'
    BY <1>7, <2>7 DEF BoardSound
  <2>9. CASE out.ok = TRUE
    <3>1. /\ value' = out.value /\ osd_changed' = FALSE
          /\ NextLine /\ UNCHANGED doubt
      BY <2>1, <2>9
    <3>2. camera'.flip = v.flip
      <4>1. value.flip = {}
        BY <1>3 DEF Default
      <4> QED BY <2>1, <2>2, <2>4, <2>6, <2>9, <4>1 DEF ImageDone
    <3>3. /\ value'.flip = v.flip /\ value'.osd = v.osd
          /\ value'.sensor_rate = v.sensor_rate /\ value'.stream_osd = v.osd
          /\ value'.fps = IF v.osd THEN Smaller(DefaultFps, v.sensor_rate) ELSE DefaultFps
          /\ value'.rectangles = NoRects /\ value'.device = DefaultDevice
      <4>1. CASE v.osd = TRUE
        <5>1. out.value = Limited(Painted(w), r)
          BY <1>5, <2>2, <2>6, <2>9, <4>1 DEF ImageDone
        <5>2. PICK p \in Params : p = Painted(w)
          BY PaintedParams
        <5>3. /\ p.stream_osd = w.osd /\ p.flip = w.flip /\ p.osd = w.osd
              /\ p.sensor_rate = w.sensor_rate /\ p.fps = w.fps
              /\ p.rectangles = w.rectangles /\ p.device = w.device
          BY <5>2, PaintedParams
        <5>4. /\ Limited(p, r).fps = Smaller(p.fps, r)
              /\ Limited(p, r).flip = p.flip /\ Limited(p, r).osd = p.osd
              /\ Limited(p, r).sensor_rate = p.sensor_rate
              /\ Limited(p, r).stream_osd = p.stream_osd
              /\ Limited(p, r).rectangles = p.rectangles /\ Limited(p, r).device = p.device
          BY <1>2, LimitedParams
        <5> QED BY <1>4, <2>2, <2>3, <3>1, <4>1, <5>1, <5>2, <5>3, <5>4
      <4>2. CASE v.osd = FALSE
        <5>1. out.value = v
          BY <1>5, <2>2, <2>6, <2>9, <4>2 DEF ImageDone
        <5> QED BY <1>4, <3>1, <4>2, <5>1
      <4> QED BY <1>4, <4>1, <4>2
    <3>4. value' = RecoveredFrom(1)
      <4>1. PICK x \in Params : x = value'
        BY <2>7, <3>1
      <4>2. /\ x.flip = RecoveredFrom(1).flip /\ x.osd = RecoveredFrom(1).osd
            /\ x.sensor_rate = RecoveredFrom(1).sensor_rate
            /\ x.fps = RecoveredFrom(1).fps
            /\ x.stream_osd = RecoveredFrom(1).stream_osd
            /\ x.rectangles = RecoveredFrom(1).rectangles
            /\ x.device = RecoveredFrom(1).device
        BY <1>2, <1>4, <3>3, <4>1, RecoveredImage
      <4>3. x = RecoveredFrom(1)
        BY <4>2, IsRecovered
      <4> QED BY <4>1, <4>3
    <3>5. /\ sdk' = TRUE /\ value' \in Params /\ value' = RecoveredFrom(line)
          /\ camera'.flip = value'.flip /\ camera'.rects = value'.rectangles[0]
          /\ rects' = value'.rectangles /\ osd_changed' \in BOOLEAN
      <4>1. value.rectangles = NoRects
        BY <1>3 DEF Default
      <4> QED BY <1>1, <1>2, <1>7, <2>7, <3>1, <3>2, <3>3, <3>4, <4>1, NoLists
    <3>6. ~(line >= StreamLine) /\ \A i \in Regions : line # RoiLine(i)
      BY <1>1, LastLineIs DEF StreamLine
    <3> QED BY <1>1, <2>7, <3>1, <3>5, <3>6, NextLineStep
  <2>10. CASE out.ok = FALSE
    <3>1. LineFails /\ doubt' = {"flip", "stream", "boot"}
      BY <1>2, <2>1, <2>10
    <3>2. FlipFollows'
      BY <3>1 DEF FlipFollows
    <3>3. /\ StartOver /\ value' = value
          /\ loops' \in 0..LoopLimit /\ last' \in {"start", "watchdog", "other"}
      BY <1>2, <3>1, FailedLine
    <3>4. RectsFollow'
      <4>1. value.rectangles = NoRects
        BY <1>3 DEF Default
      <4> QED BY <1>1, <1>2, <2>7, <3>3, <4>1, NoLists DEF RectsFollow
    <3>5. /\ rects' \in [Regions -> SUBSET Rects] /\ open' \subseteq Regions
          /\ sdk' \in BOOLEAN /\ rate' \in Rates \cup {0}
          /\ doubt' \subseteq Doubts /\ "boot" \in doubt'
      BY <1>1, <1>2, <1>7, <2>7, <3>1 DEF Doubts
    <3> QED BY <1>1, <2>7, <2>8, <3>2, <3>3, <3>4, <3>5, ReadFailsStep
  <2> QED BY <2>7, <2>9, <2>10
<1>8. CASE LineFails /\ doubt' = doubt \cup {"boot"} /\ UNCHANGED <<sdk, camera>>
  <2>0. /\ StartOver /\ value' = value
        /\ loops' \in 0..LoopLimit /\ last' \in {"start", "watchdog", "other"}
    BY <1>2, <1>8, FailedLine
  <2>1. FlipFollows' /\ RectsFollow'
    BY <1>1, <1>2, <1>8, <2>0 DEF FlipFollows, RectsFollow
  <2>2. BoardSound'
    <3>1. rate' \in Rates /\ sdk' = FALSE /\ camera' = Dark
      BY <1>1, <1>2, <1>4, <1>8
    <3>2. Dark.fps <= rate'
      BY <3>1, RatesAreNumbers
    <3> QED BY <3>1, <3>2 DEF BoardSound
  <2>3. /\ rects' \in [Regions -> SUBSET Rects] /\ open' \subseteq Regions
        /\ sdk' \in BOOLEAN /\ rate' \in Rates \cup {0}
        /\ camera' \in Cameras /\ doubt' \subseteq Doubts /\ "boot" \in doubt'
    BY <1>1, <1>2, <1>4, <1>8, RatesAreNumbers DEF Doubts
  <2> QED BY <1>1, <2>0, <2>1, <2>2, <2>3, ReadFailsStep
<1> QED BY <1>6, <1>7, <1>8

LEMMA ReadStreamStep ==
  ASSUME IInv, ReadStream
  PROVE  IInv'
<1> DEFINE v == [value EXCEPT !.fps = file.saved.fps, !.stream_osd = file.saved.stream_osd]
<1>1. /\ phase = "reading" /\ line = 2 /\ line <= file.lines
      /\ UNCHANGED << rects, initialized, fatal, watching, sdk, rate, file, unsaved,
                      open, drawn >>
  BY DEF ReadStream, Reading, StreamLine, process, store, regions
<1>2. /\ TypeOK /\ doubt = {} /\ open = {} /\ drawn = 0 /\ value \in Params /\ file \in File
      /\ file.saved \in Params /\ initialized = FALSE
      /\ rects \in [Regions -> SUBSET Rects]
      /\ osd_changed \in BOOLEAN /\ camera \in Cameras /\ camera.fps <= rate
      /\ sdk = TRUE /\ rate = file.saved.sensor_rate /\ rate \in Rates
      /\ camera.flip = value.flip /\ camera.rects = value.rectangles[0]
      /\ rects = value.rectangles /\ value = RecoveredFrom(1)
  <2>1. line - 1 = 1 /\ line > 1
    BY <1>1
  <2> QED BY <1>1, <2>1, ReadKnows
<1>3. PICK out \in StreamOutcomes(v, camera, rate) :
        /\ camera' = out.camera
        /\ IF out.ok
           THEN /\ value' = out.value
                /\ osd_changed' = (osd_changed \/ v.stream_osd # value.stream_osd)
                /\ NextLine /\ UNCHANGED doubt
           ELSE LineFails /\ doubt' = doubt \cup {"stream", "boot"}
  BY DEF ReadStream
<1>4. /\ v \in Params /\ v.fps = file.saved.fps /\ v.stream_osd = file.saved.stream_osd
      /\ v.flip = value.flip /\ v.osd = value.osd /\ v.sensor_rate = value.sensor_rate
      /\ v.rectangles = value.rectangles /\ v.device = value.device
  BY <1>2 DEF Params
<1> HIDE DEF v
<1>5. /\ out.ok \in BOOLEAN /\ out.value \in Params /\ camera' \in Cameras
      /\ camera'.fps <= rate
      /\ camera'.flip = camera.flip /\ camera'.rects = camera.rects
      /\ out.ok = TRUE =>
           /\ camera'.fps = out.value.fps
           /\ camera'.osd = out.value.stream_osd
           /\ out.value = Limited(v, rate)
  <2>1. PICK w \in Params : w = v
    BY <1>4
  <2>2. PICK c \in Cameras : c = camera
    BY <1>2
  <2>3. PICK r \in Rates : r = rate
    BY <1>2
  <2>4. out \in StreamOutcomes(w, c, r) /\ c.fps <= r /\ initialized \in BOOLEAN
    BY <1>2, <1>3, <2>1, <2>2, <2>3
  <2>5. /\ out.ok \in BOOLEAN /\ out.value \in Params /\ out.camera \in Cameras
        /\ out.camera.fps <= r
        /\ out.camera.flip = c.flip /\ out.camera.rects = c.rects
        /\ out.ok = TRUE =>
             /\ out.camera.fps = out.value.fps
             /\ out.camera.osd = out.value.stream_osd
             /\ out.value = Limited(w, r)
    BY <2>4, StreamOutcome
  <2> QED BY <1>3, <2>1, <2>2, <2>3, <2>5
<1>6. CASE out.ok = TRUE
  <2>1. /\ value' = out.value /\ osd_changed' \in BOOLEAN /\ NextLine /\ UNCHANGED doubt
    BY <1>3, <1>6
  <2>2. /\ value' \in Params /\ value'.fps = Smaller(v.fps, rate)
        /\ value'.flip = v.flip /\ value'.osd = v.osd
        /\ value'.sensor_rate = v.sensor_rate /\ value'.stream_osd = v.stream_osd
        /\ value'.rectangles = v.rectangles /\ value'.device = v.device
    BY <1>2, <1>4, <1>5, <1>6, <2>1, LimitedParams
  <2>3. value' = RecoveredFrom(2)
    <3>1. PICK x \in Params : x = value'
      BY <2>2
    <3>2. /\ x.flip = RecoveredFrom(2).flip /\ x.osd = RecoveredFrom(2).osd
          /\ x.sensor_rate = RecoveredFrom(2).sensor_rate
          /\ x.fps = RecoveredFrom(2).fps
          /\ x.stream_osd = RecoveredFrom(2).stream_osd
          /\ x.rectangles = RecoveredFrom(2).rectangles
          /\ x.device = RecoveredFrom(2).device
      BY <1>2, <1>4, <2>2, <3>1, RecoveredImage, RecoveredStream
    <3>3. x = RecoveredFrom(2)
      BY <3>2, IsRecovered
    <3> QED BY <3>1, <3>3
  <2>4. /\ sdk' = TRUE /\ rate' = file.saved.sensor_rate /\ value' = RecoveredFrom(line)
        /\ camera'.fps <= rate' /\ camera'.flip = value'.flip
        /\ camera'.rects = value'.rectangles[0] /\ rects' = value'.rectangles
        /\ camera'.fps = value'.fps /\ camera'.osd = value'.stream_osd
    BY <1>1, <1>2, <1>4, <1>5, <1>6, <2>1, <2>2, <2>3
  <2>5. \A i \in Regions : line # RoiLine(i)
    BY <1>1, LastLineIs
  <2> QED BY <1>1, <1>5, <2>1, <2>2, <2>4, <2>5, NextLineStep
<1>7. CASE out.ok = FALSE
  <2>1. LineFails /\ doubt' = {"stream", "boot"}
    BY <1>2, <1>3, <1>7
  <2>0. /\ StartOver /\ value' = value
        /\ loops' \in 0..LoopLimit /\ last' \in {"start", "watchdog", "other"}
    BY <1>2, <2>1, FailedLine
  <2>2. FlipFollows' /\ RectsFollow'
    BY <1>1, <1>2, <1>5, <2>0 DEF FlipFollows, RectsFollow
  <2>3. BoardSound'
    BY <1>1, <1>2, <1>5 DEF BoardSound
  <2>4. /\ rects' \in [Regions -> SUBSET Rects] /\ open' \subseteq Regions
        /\ sdk' \in BOOLEAN /\ rate' \in Rates \cup {0}
        /\ doubt' \subseteq Doubts /\ "boot" \in doubt'
    BY <1>1, <1>2, <2>1 DEF Doubts
  <2> QED BY <1>1, <1>5, <2>0, <2>2, <2>3, <2>4, ReadFailsStep
<1> QED BY <1>5, <1>6, <1>7

LEMMA ReadRoiStep ==
  ASSUME IInv, NEW i \in Regions, ReadRoi(i)
  PROVE  IInv'
<1> DEFINE list == file.saved.rectangles[i]
<1>1. /\ phase = "reading" /\ line = RoiLine(i) /\ line <= file.lines
      /\ UNCHANGED << initialized, fatal, watching, sdk, rate, file, unsaved, drawn >>
  BY DEF ReadRoi, Reading, process, store
<1>2. line \in 3..LastLine - 1 /\ line > 1 /\ line > StreamLine /\ line >= StreamLine
  BY <1>1, LastLineIs DEF StreamLine
<1>3. /\ TypeOK /\ doubt = {} /\ open = {} /\ drawn = 0 /\ value \in Params /\ file \in File
      /\ file.saved \in Params /\ rects \in [Regions -> SUBSET Rects]
      /\ osd_changed \in BOOLEAN /\ camera \in Cameras /\ camera.fps <= rate
      /\ sdk = TRUE /\ rate = file.saved.sensor_rate /\ rate \in Rates
      /\ camera.flip = value.flip /\ camera.rects = value.rectangles[0]
      /\ rects = value.rectangles /\ value = RecoveredFrom(RoiLine(i) - 1)
      /\ camera.fps = value.fps /\ camera.osd = value.stream_osd
  BY <1>1, <1>2, ReadKnows
<1>4. list \in SUBSET Rects /\ 0 \in Regions
  BY <1>3, RatesAreNumbers DEF Params
<1> HIDE DEF list
<1>5. ASSUME NextLine, UNCHANGED << osd_changed, doubt, open >>, list \cap Edge = {},
             value' \in Params, value' = RecoveredFrom(RoiLine(i)),
             rects' = value'.rectangles,
             value'.flip = value.flip, value'.fps = value.fps,
             value'.stream_osd = value.stream_osd,
             camera' \in Cameras, camera'.rects = value'.rectangles[0],
             camera'.flip = camera.flip, camera'.fps = camera.fps, camera'.osd = camera.osd
      PROVE  IInv'
  <2>1. /\ sdk' = TRUE /\ rate' = file.saved.sensor_rate /\ value' = RecoveredFrom(line)
        /\ osd_changed' \in BOOLEAN /\ camera'.fps <= rate' /\ camera'.flip = value'.flip
        /\ camera'.fps = value'.fps /\ camera'.osd = value'.stream_osd
    BY <1>1, <1>3, <1>5
  <2>2. \A j \in Regions : line = RoiLine(j) => file.saved.rectangles[j] \cap Edge = {}
    <3>1. \A j \in Regions : RoiLine(j) = RoiLine(i) => j = i
      BY CgiAssumption DEF RoiLine, Regions
    <3> QED BY <1>1, <1>5, <3>1 DEF list
  <2> QED BY <1>1, <1>5, <2>1, <2>2, NextLineStep
<1>6. ASSUME LineFails, rects' = [rects EXCEPT ![0] = {}] \/ rects' = [rects EXCEPT ![0] = list],
             camera' \in Cameras, camera'.flip = camera.flip, camera'.fps = camera.fps,
             open' = open \cup {0},
             doubt' = doubt \cup {"boot"} \/ (doubt' = doubt /\ ~Readable)
      PROVE  IInv'
  <2>1. /\ StartOver /\ value' = value
        /\ loops' \in 0..LoopLimit /\ last' \in {"start", "watchdog", "other"}
    BY <1>3, <1>6, FailedLine
  <2>2. /\ rects' \in [Regions -> SUBSET Rects]
        /\ \A j \in Regions \ {0} : rects'[j] = rects[j]
    BY <1>3, <1>4, <1>6
  <2>3. FlipFollows' /\ RectsFollow'
    BY <1>1, <1>3, <1>6, <2>1, <2>2 DEF FlipFollows, RectsFollow
  <2>4. BoardSound'
    BY <1>1, <1>3, <1>6 DEF BoardSound
  <2>5. /\ open' \subseteq Regions /\ sdk' \in BOOLEAN /\ rate' \in Rates \cup {0}
        /\ doubt' \subseteq Doubts /\ ("boot" \in doubt' \/ ~Readable)
    BY <1>1, <1>3, <1>4, <1>6 DEF Doubts
  <2> QED BY <1>1, <1>6, <2>1, <2>2, <2>3, <2>4, <2>5, ReadFailsStep
<1>7. CASE /\ list = {} /\ NextLine
           /\ UNCHANGED <<value, rects, osd_changed, camera, doubt, open>>
  <2>1. value = RecoveredFrom(RoiLine(i))
    <3>1. /\ value.flip = RecoveredFrom(RoiLine(i)).flip
          /\ value.osd = RecoveredFrom(RoiLine(i)).osd
          /\ value.sensor_rate = RecoveredFrom(RoiLine(i)).sensor_rate
          /\ value.fps = RecoveredFrom(RoiLine(i)).fps
          /\ value.stream_osd = RecoveredFrom(RoiLine(i)).stream_osd
          /\ value.rectangles = RecoveredFrom(RoiLine(i)).rectangles
          /\ value.device = RecoveredFrom(RoiLine(i)).device
      BY <1>3, <1>7, RecoveredRoi DEF list
    <3> QED BY <1>3, <3>1, IsRecovered
  <2>2. list \cap Edge = {}
    BY <1>7
  <2> QED BY <1>3, <1>5, <1>7, <2>1, <2>2
<1>8. CASE /\ list \cap Edge # {}
           /\ rects' = [rects EXCEPT ![0] = {}] /\ open' = open \cup {0}
           /\ LineFails
           /\ UNCHANGED <<camera, doubt>>
  <2>1. ~Readable
    BY <1>1, <1>8 DEF Readable, list
  <2> QED BY <1>3, <1>6, <1>8, <2>1
<1>9. ASSUME list # {}, list \cap Edge = {}, rects' = [rects EXCEPT ![0] = list],
             NEW ok \in BOOLEAN, SendRoi(list, ok),
             IF ok
             THEN /\ value' = [value EXCEPT !.rectangles[0] = list]
                  /\ NextLine /\ UNCHANGED <<osd_changed, doubt, open>>
             ELSE /\ LineFails
                  /\ doubt' = doubt \cup {"boot"} /\ open' = open \cup {0}
      PROVE  IInv'
  <2>1. /\ camera' \in Cameras /\ camera'.flip = camera.flip
        /\ camera'.fps = camera.fps /\ camera'.osd = camera.osd
        /\ ok => camera'.rects = list
    BY <1>3, <1>4, <1>9, ListSent
  <2>2. CASE ok
    <3>1. /\ value' = [value EXCEPT !.rectangles[0] = list]
          /\ NextLine /\ UNCHANGED <<osd_changed, doubt, open>>
      BY <1>9, <2>2
    <3>2. /\ value' \in Params
          /\ value'.rectangles = [value.rectangles EXCEPT ![0] = list]
          /\ value'.rectangles[0] = list
          /\ value'.flip = value.flip /\ value'.osd = value.osd
          /\ value'.sensor_rate = value.sensor_rate /\ value'.fps = value.fps
          /\ value'.stream_osd = value.stream_osd /\ value'.device = value.device
      <4>1. /\ [value EXCEPT !.rectangles[0] = list] \in Params
            /\ [value EXCEPT !.rectangles[0] = list].rectangles
                 = [value.rectangles EXCEPT ![0] = list]
            /\ [value EXCEPT !.rectangles[0] = list].rectangles[0] = list
        BY <1>3, <1>4, ListSet
      <4>2. LET w == [value EXCEPT !.rectangles[0] = list]
            IN /\ w.flip = value.flip /\ w.osd = value.osd
               /\ w.sensor_rate = value.sensor_rate /\ w.fps = value.fps
               /\ w.stream_osd = value.stream_osd /\ w.device = value.device
        BY <1>3, <1>4, ListSet
      <4> QED BY <3>1, <4>1, <4>2
    <3>3. value'.rectangles = [NoRects EXCEPT ![0] = list]
      <4>1. value.rectangles = [NoRects EXCEPT ![0] = value.rectangles[0]]
        BY <1>3, RecoveredRoi
      <4>2. \A old : [[NoRects EXCEPT ![0] = old] EXCEPT ![0] = list]
                       = [NoRects EXCEPT ![0] = list]
        BY DEF NoRects
      <4> QED BY <3>2, <4>1, <4>2
    <3>4. value' = RecoveredFrom(RoiLine(i))
      <4>1. PICK x \in Params : x = value'
        BY <3>2
      <4>2. /\ x.flip = RecoveredFrom(RoiLine(i)).flip
            /\ x.osd = RecoveredFrom(RoiLine(i)).osd
            /\ x.sensor_rate = RecoveredFrom(RoiLine(i)).sensor_rate
            /\ x.fps = RecoveredFrom(RoiLine(i)).fps
            /\ x.stream_osd = RecoveredFrom(RoiLine(i)).stream_osd
            /\ x.rectangles = RecoveredFrom(RoiLine(i)).rectangles
            /\ x.device = RecoveredFrom(RoiLine(i)).device
        BY <1>3, <1>9, <3>2, <3>3, <4>1, RecoveredRoi DEF list
      <4>3. x = RecoveredFrom(RoiLine(i))
        BY <4>2, IsRecovered
      <4> QED BY <4>1, <4>3
    <3>5. rects' = value'.rectangles
      BY <1>3, <1>9, <3>2
    <3> QED BY <1>5, <1>9, <2>1, <2>2, <3>1, <3>2, <3>4, <3>5
  <2>3. CASE ~ok
    <3>1. LineFails /\ doubt' = doubt \cup {"boot"} /\ open' = open \cup {0}
      BY <1>9, <2>3
    <3> QED BY <1>6, <1>9, <2>1, <3>1
  <2> QED BY <2>2, <2>3
<1> QED BY <1>7, <1>8, <1>9 DEF ReadRoi, list

LEMMA ReadDeviceStep ==
  ASSUME IInv, ReadDevice
  PROVE  IInv'
<1>1. /\ phase = "reading" /\ line = LastLine /\ line <= file.lines /\ NextLine
      /\ value' = [value EXCEPT !.device = file.saved.device]
      /\ UNCHANGED << rects, osd_changed, initialized, fatal, watching, sdk, rate,
                      camera, file, unsaved, doubt, open, drawn >>
  BY DEF ReadDevice, Reading, process, board, store, regions
<1>0. line > 1 /\ line > StreamLine /\ \A i \in Regions : line # RoiLine(i)
  BY <1>1, LastLineIs DEF StreamLine
<1>2. /\ value \in Params /\ file \in File /\ file.saved \in Params
      /\ osd_changed \in BOOLEAN /\ camera \in Cameras /\ camera.fps <= rate
      /\ sdk = TRUE /\ rate = file.saved.sensor_rate
      /\ camera.flip = value.flip /\ camera.rects = value.rectangles[0]
      /\ rects = value.rectangles /\ value = RecoveredFrom(LastLine - 1)
      /\ camera.fps = value.fps /\ camera.osd = value.stream_osd
  BY <1>0, <1>1, ReadKnows
<1>3. /\ value' \in Params /\ value'.device = file.saved.device
      /\ value'.flip = value.flip /\ value'.osd = value.osd
      /\ value'.sensor_rate = value.sensor_rate /\ value'.fps = value.fps
      /\ value'.stream_osd = value.stream_osd /\ value'.rectangles = value.rectangles
  BY <1>1, <1>2 DEF Params
<1>4. value' = RecoveredFrom(LastLine)
  <2>1. PICK x \in Params : x = value'
    BY <1>3
  <2>2. /\ x.flip = RecoveredFrom(LastLine).flip /\ x.osd = RecoveredFrom(LastLine).osd
        /\ x.sensor_rate = RecoveredFrom(LastLine).sensor_rate
        /\ x.fps = RecoveredFrom(LastLine).fps
        /\ x.stream_osd = RecoveredFrom(LastLine).stream_osd
        /\ x.rectangles = RecoveredFrom(LastLine).rectangles
        /\ x.device = RecoveredFrom(LastLine).device
    BY <1>2, <1>3, <2>1, RecoveredDevice
  <2>3. x = RecoveredFrom(LastLine)
    BY <2>2, IsRecovered
  <2> QED BY <2>1, <2>3
<1>5. /\ sdk' = TRUE /\ rate' = file.saved.sensor_rate /\ value' = RecoveredFrom(line)
      /\ osd_changed' \in BOOLEAN /\ camera' \in Cameras
      /\ camera'.fps <= rate' /\ camera'.flip = value'.flip
      /\ camera'.rects = value'.rectangles[0] /\ rects' = value'.rectangles
      /\ camera'.fps = value'.fps /\ camera'.osd = value'.stream_osd
  BY <1>1, <1>2, <1>3, <1>4
<1> QED BY <1>0, <1>1, <1>3, <1>5, NextLineStep

LEMMA ReadEndStep ==
  ASSUME IInv, ReadEnd
  PROVE  IInv'
<1>1. /\ phase = "reading" /\ line > file.lines
      /\ UNCHANGED << rects, initialized, fatal, watching, sdk, rate, camera, file, unsaved,
                      open, drawn >>
      /\ doubt' = IF line <= StreamLine THEN doubt \cup {"stream"} ELSE doubt
  BY DEF ReadEnd, process, board, store, regions
<1>2. /\ TypeOK /\ doubt = {} /\ open = {} /\ drawn = 0 /\ value \in Params /\ file \in File
      /\ file.saved \in Params /\ file.lines \in 0..LastLine
      /\ line \in 1..LastLine + 1 /\ line <= file.lines + 1
      /\ initialized = FALSE /\ fatal = FALSE /\ watching = FALSE
      /\ camera \in Cameras /\ camera.fps <= rate
      /\ rects \in [Regions -> SUBSET Rects]
      /\ camera.flip = value.flip /\ camera.rects = value.rectangles[0]
      /\ rects = value.rectangles
      /\ line > StreamLine => camera.fps = value.fps /\ camera.osd = value.stream_osd
      /\ \A i \in Regions :
           line > RoiLine(i) => file.saved.rectangles[i] \cap Edge = {}
      /\ value = RecoveredFrom(line - 1)
  BY <1>1, ReadKnows
<1>0. line - 1 = file.lines /\ LastLine \in Nat
  BY <1>1, <1>2, LastLineIs
<1>3. value = Recovered
  BY <1>0, <1>2 DEF Recovered
<1>4. doubt' \subseteq Doubts /\ "boot" \notin doubt' /\ "flip" \notin doubt'
      /\ ("stream" \notin doubt' => line > StreamLine)
  BY <1>1, <1>2, LastLineIs DEF Doubts, StreamLine
<1>5. value' = value
  BY DEF ReadEnd, StartOver
<1>6. FlipFollows' /\ RectsFollow'
  BY <1>1, <1>2, <1>5 DEF FlipFollows, RectsFollow
<1>7. BoardSound'
  BY <1>1 DEF BoardSound, IInv
<1>8. CASE file.broken
  <2>1. /\ StartOver /\ (Log("other", FALSE) \/ UNCHANGED << loops, last >>)
        /\ ~Readable
    BY <1>8 DEF ReadEnd, Readable, status
  <2>2. loops' \in 0..LoopLimit /\ last' \in {"start", "watchdog", "other"}
    BY <1>2, <2>1, Logged DEF TypeOK
  <2>3. /\ rects' \in [Regions -> SUBSET Rects] /\ open' \subseteq Regions
        /\ sdk' \in BOOLEAN /\ rate' \in Rates \cup {0} /\ camera' \in Cameras
    BY <1>1, <1>2 DEF TypeOK
  <2> QED BY <1>1, <1>4, <1>6, <1>7, <2>1, <2>2, <2>3, ReadFailsStep
<1>9. CASE ~file.broken
  <2>1. /\ phase' = IF loops >= LoopLimit THEN "resetting" ELSE "enabling"
        /\ line' = 1 /\ UNCHANGED << value, osd_changed, loops, last >>
    BY <1>9 DEF ReadEnd, status
  <2>2. TypeOK'
    <3>1. line' \in 1..LastLine + 1
      BY <1>0, <2>1
    <3> QED BY <1>1, <1>2, <1>4, <2>1, <3>1 DEF TypeOK
  <2>3. AllOff' /\ Flags' /\ HalfRead' /\ KeptInFile' /\ Heals'
    BY <1>1, <1>2, <2>1 DEF AllOff, Flags, HalfRead, KeptInFile, Heals
  <2>4. Follows'
    BY <1>1, <1>2, <1>4, <1>6, <2>1 DEF Follows, StreamFollows
  <2>5. Resets'
    BY <2>1 DEF Resets
  <2>6. Recovers'
    <3>1. CASE phase' = "enabling"
      <4>1. loops' < LoopLimit
        BY <1>2, <2>1, <3>1 DEF TypeOK, LoopLimit
      <4>2. \A i \in Regions :
              RoiLine(i) <= file.lines => file.saved.rectangles[i] \cap Edge = {}
        BY <1>1, <1>2, LastLineIs
      <4>3. Readable'
        BY <1>1, <1>9, <4>2 DEF Readable
      <4>4. value' = Recovered'
        BY <1>1, <1>3, <1>5 DEF Recovered, RecoveredFrom, ListAfter, Listed
      <4> QED BY <4>1, <4>3, <4>4 DEF Recovers
    <3> QED BY <2>1, <3>1 DEF Recovers
  <2> QED BY <1>7, <2>2, <2>3, <2>4, <2>5, <2>6 DEF IInv
<1> QED BY <1>8, <1>9
--------------------------------------------------------------------------------
(* The end of a start.                                                        *)

LEMMA DefaultsAreParams ==
  ASSUME value \in Params
  PROVE  Defaults \in Params /\ Defaults.rectangles = NoRects
BY RatesAreNumbers DEF Params, Defaults, Default

LEMMA GiveUpStep ==
  ASSUME TypeOK, GiveUp, initialized = FALSE, watching = FALSE,
         sdk' \in BOOLEAN, rate' \in Rates \cup {0}, camera' \in Cameras, BoardSound'
  PROVE  IInv'
<1>1. /\ phase' = "idle" /\ fatal' = TRUE /\ value' = Defaults
      /\ loops' = 0 /\ last' = "start" /\ doubt' = doubt \cup {"boot"}
      /\ UNCHANGED <<line, rects, osd_changed, initialized, watching, file, unsaved,
                     open, drawn>>
  BY DEF GiveUp, store, regions
<1>2. value' \in Params
  BY <1>1, DefaultsAreParams DEF TypeOK
<1>3. TypeOK'
  BY <1>1, <1>2 DEF TypeOK, LoopLimit, Doubts
<1>4. AllOff' /\ HalfRead' /\ KeptInFile' /\ Resets' /\ Recovers' /\ Heals'
  BY <1>1 DEF AllOff, HalfRead, KeptInFile, Resets, Recovers, Heals
<1>5. Flags' /\ Follows'
  BY <1>1 DEF Flags, Follows
<1> QED BY <1>3, <1>4, <1>5 DEF IInv

LEMMA ResetAtStartStep ==
  ASSUME IInv, ResetAtStart
  PROVE  IInv'
<1>1. /\ phase = "resetting" /\ rate' = ResetParams.sensor_rate /\ TypeOK /\ BoardSound
      /\ initialized = FALSE /\ fatal = FALSE /\ watching = FALSE
      /\ FlipFollows /\ RectsFollow
      /\ ("boot" \in doubt \/ ~Readable \/ loops >= LoopLimit)
  BY DEF ResetAtStart, IInv, TypeOK, Flags, Follows, Resets
<1>2. ResetParams.sensor_rate \in Rates /\ (~sdk => camera = Dark)
  BY <1>1, ResetKnows DEF BoardSound
<1>3. CASE \E out \in ResetOutcomes(ResetParams, ResetCamera, rate') :
             /\ sdk' = TRUE /\ camera' = out.camera
             /\ IF out.ok
                THEN /\ phase' = "enabling"
                     /\ value' = out.value
                     /\ doubt' = Vouched(value.flip # {}, TRUE, TRUE)
                     /\ open' = open \cup Unsent
                     /\ UNCHANGED <<line, rects, osd_changed, process, store, status, drawn>>
                ELSE GiveUp
  <2>1. PICK out \in ResetOutcomes(ResetParams, ResetCamera, rate') :
             /\ sdk' = TRUE /\ camera' = out.camera
             /\ IF out.ok
                THEN /\ phase' = "enabling"
                     /\ value' = out.value
                     /\ doubt' = Vouched(value.flip # {}, TRUE, TRUE)
                     /\ open' = open \cup Unsent
                     /\ UNCHANGED <<line, rects, osd_changed, process, store, status, drawn>>
                ELSE GiveUp
    BY <1>3
  <2>2. UNCHANGED << rects, drawn >> /\ sdk' = TRUE /\ camera' = out.camera
    BY <2>1 DEF GiveUp, regions
  <2>3. /\ out.ok \in BOOLEAN /\ out.value \in Params
        /\ rate' \in Rates /\ camera' \in Cameras /\ BoardSound'
    BY <1>1, <2>2, ResetResult
  <2>4. CASE out.ok = TRUE
    <3>1. /\ phase' = "enabling" /\ value' = out.value
          /\ doubt' = Vouched(value.flip # {}, TRUE, TRUE) /\ open' = open \cup Unsent
          /\ UNCHANGED << line, rects, osd_changed, initialized, fatal, watching,
                          file, unsaved, loops, last, drawn >>
      BY <2>1, <2>4 DEF process, store, status
    <3>2. /\ open' \subseteq Regions
          /\ doubt' \subseteq Doubts /\ ("boot" \in doubt' <=> "boot" \in doubt)
          /\ FlipFollows' /\ RectsFollow'
          /\ camera'.fps = value'.fps /\ camera'.osd = value'.stream_osd
          /\ value' = [Defaults' EXCEPT !.sensor_rate = rate',
                                        !.fps = Smaller(DefaultFps, rate')]
      BY <1>1, <2>2, <2>4, <3>1, ResetResult
    <3>3. TypeOK'
      BY <1>1, <2>2, <2>3, <3>1, <3>2 DEF TypeOK
    <3>4. AllOff' /\ Flags' /\ HalfRead' /\ KeptInFile' /\ Resets' /\ Heals'
      BY <1>1, <3>1 DEF AllOff, Flags, HalfRead, KeptInFile, Resets, Heals
    <3>5. Follows'
      BY <3>2 DEF Follows, StreamFollows
    <3>6. Recovers'
      <4>1. ASSUME "boot" \notin doubt' PROVE ~(Readable' /\ loops' < LoopLimit)
        <5>1. ~Readable \/ loops >= LoopLimit
          BY <1>1, <3>2, <4>1
        <5>2. Readable' = Readable /\ loops' = loops
          BY <3>1 DEF Readable
        <5>3. loops \in Nat
          BY <1>1 DEF TypeOK, LoopLimit
        <5> QED BY <5>1, <5>2, <5>3 DEF LoopLimit
      <4> QED BY <3>2, <4>1 DEF Recovers
    <3> QED BY <2>3, <3>3, <3>4, <3>5, <3>6 DEF IInv
  <2>5. CASE out.ok = FALSE
    <3>1. GiveUp
      BY <2>1, <2>5
    <3>2. sdk' \in BOOLEAN /\ rate' \in Rates \cup {0}
      BY <2>2, <2>3
    <3> QED BY <1>1, <2>3, <3>1, <3>2, GiveUpStep
  <2> QED BY <2>3, <2>4, <2>5
<1>4. CASE ~sdk /\ GiveUp /\ UNCHANGED <<sdk, camera>>
  <2>1. sdk' \in BOOLEAN /\ rate' \in Rates \cup {0} /\ camera' \in Cameras
    BY <1>1, <1>2, <1>4 DEF TypeOK
  <2>2. BoardSound'
    <3>1. rate' \in Rates /\ sdk' = FALSE /\ camera' = Dark
      BY <1>1, <1>2, <1>4 DEF TypeOK
    <3>2. Dark.fps <= rate'
      BY <3>1, RatesAreNumbers
    <3> QED BY <3>1, <3>2 DEF BoardSound
  <2> QED BY <1>1, <1>4, <2>1, <2>2, GiveUpStep
<1> QED BY <1>3, <1>4 DEF ResetAtStart

LEMMA EnableStep ==
  ASSUME IInv, Enable
  PROVE  IInv'
<1>1. /\ phase = "enabling" /\ initialized' = TRUE /\ phase' = "storing"
      /\ UNCHANGED << line, rects, osd_changed, watching, sdk, rate, camera, open, drawn >>
      /\ TypeOK /\ fatal = FALSE /\ watching = FALSE
  BY DEF Enable, board, regions, IInv, TypeOK, Flags
<1>2. AllOff' /\ HalfRead' /\ Resets' /\ Recovers'
  BY <1>1 DEF AllOff, HalfRead, Resets, Recovers
<1>3. BoardSound'
  BY <1>1 DEF BoardSound, IInv
<1>4. CASE sdk /\ WriteFile(value) /\ UNCHANGED <<value, fatal, status, doubt>>
  <2>1. /\ file' \in File /\ unsaved' \in BOOLEAN
        /\ ~unsaved' => file' = Whole(value')
    <3>1. Whole(value) \in File
      BY <1>1, LastLineIs DEF Whole, File, TypeOK
    <3> QED BY <1>1, <1>4, <3>1 DEF WriteFile, TypeOK
  <2>2. TypeOK'
    BY <1>1, <1>4, <2>1 DEF TypeOK, status
  <2>3. Flags' /\ Heals'
    BY <1>1, <1>4 DEF Flags, Heals
  <2>4. KeptInFile'
    BY <1>1, <2>1 DEF KeptInFile
  <2>5. Follows'
    BY <1>1, <1>4 DEF Follows, FlipFollows, RectsFollow, StreamFollows, IInv
  <2> QED BY <1>2, <1>3, <2>2, <2>3, <2>4, <2>5 DEF IInv
<1>5. CASE /\ fatal' = TRUE /\ value' = Defaults /\ WriteFile(Defaults)
           /\ Log("other", FALSE)
           /\ doubt' = IF sdk THEN doubt \cup {"boot"} ELSE doubt
  <2>1. value' \in Params /\ value'.rectangles = NoRects
    BY <1>1, <1>5, DefaultsAreParams DEF TypeOK
  <2>2. /\ file' \in File /\ unsaved' \in BOOLEAN
        /\ ~unsaved' => file' = Whole(value')
    <3>1. Whole(value') \in File
      BY <2>1, LastLineIs DEF Whole, File
    <3> QED BY <1>1, <1>5, <3>1 DEF WriteFile, TypeOK
  <2>3. loops' \in 0..LoopLimit /\ last' \in {"start", "watchdog", "other"}
    BY <1>1, <1>5, Logged
  <2>4. doubt' \subseteq Doubts
    BY <1>1, <1>5 DEF TypeOK, Doubts
  <2>5. TypeOK'
    BY <1>1, <1>5, <2>1, <2>2, <2>3, <2>4 DEF TypeOK
  <2>6. Flags' /\ Heals' /\ Follows'
    BY <1>1, <1>5, <2>1 DEF Flags, Heals, Follows
  <2>7. KeptInFile'
    BY <1>1, <2>2 DEF KeptInFile
  <2> QED BY <1>2, <1>3, <2>5, <2>6, <2>7 DEF IInv
<1> QED BY <1>4, <1>5 DEF Enable

LEMMA EnableTooEarlyStep ==
  ASSUME IInv, EnableTooEarly
  PROVE  IInv'
<1>1. /\ GiveUp /\ UNCHANGED << sdk, rate, camera >> /\ TypeOK /\ BoardSound
      /\ initialized = FALSE /\ watching = FALSE
  BY DEF EnableTooEarly, board, IInv, TypeOK, Flags
<1>2. BoardSound' /\ sdk' \in BOOLEAN /\ rate' \in Rates \cup {0} /\ camera' \in Cameras
  BY <1>1 DEF BoardSound, TypeOK
<1> QED BY <1>1, <1>2, GiveUpStep
--------------------------------------------------------------------------------
LEMMA InitInv == Init => IInv
<1> SUFFICES ASSUME Init PROVE IInv
  OBVIOUS
<1>1. /\ phase = "off" /\ line = 1 /\ value = Default /\ rects = NoRects
      /\ osd_changed = FALSE /\ initialized = FALSE /\ fatal = FALSE
      /\ watching = FALSE /\ sdk = FALSE /\ rate = 0 /\ camera = Dark /\ doubt = {}
      /\ open = {} /\ drawn = 0 /\ unsaved = FALSE
      /\ file = [saved |-> Default, lines |-> 0, broken |-> TRUE, found |-> FALSE]
      /\ loops = 0 /\ last = "other"
  BY DEF Init
<1>2. TypeOK
  <2>1. line \in 1..LastLine + 1 /\ loops \in 0..LoopLimit
    BY <1>1, LastLineIs DEF LoopLimit
  <2>2. value \in Params /\ camera \in Cameras
    BY <1>1, RatesAreNumbers
  <2>3. file \in File
    BY <1>1, RatesAreNumbers, LastLineIs DEF File
  <2>4. /\ doubt \subseteq Doubts /\ rects \in [Regions -> SUBSET Rects]
        /\ open \subseteq Regions /\ drawn \in Regions
    BY <1>1, RatesAreNumbers
  <2> QED BY <1>1, <2>1, <2>2, <2>3, <2>4 DEF TypeOK
<1>3. AllOff /\ Flags /\ HalfRead /\ KeptInFile /\ Resets /\ Recovers /\ Heals
  BY <1>1 DEF AllOff, Flags, HalfRead, KeptInFile, Resets, Recovers, Heals
<1>4. BoardSound
  BY <1>1, RatesAreNumbers DEF BoardSound
<1>5. Follows
  <2>1. FlipFollows /\ StreamFollows
    BY <1>1 DEF FlipFollows, StreamFollows, Dark, Default
  <2>2. RectsFollow
    BY <1>1, RatesAreNumbers DEF RectsFollow, Dark, Default, NoRects
  <2> QED BY <2>1, <2>2 DEF Follows
<1> QED BY <1>2, <1>3, <1>4, <1>5 DEF IInv

LEMMA CommandInv ==
  ASSUME IInv, Command
  PROVE  IInv'
<1>1. ASSUME NEW axes \in SUBSET Axes, NEW osd \in BOOLEAN, NEW r \in Rates,
             SetImage(axes, osd, r)
      PROVE  IInv'
  BY <1>1, SetImageStep
<1>2. ASSUME NEW fps \in Fps, NEW osd \in BOOLEAN, SetStream(fps, osd)
      PROVE  IInv'
  BY <1>2, SetStreamStep
<1>3. CASE GetImage \/ GetStream
  BY <1>3, GetStep
<1>4. ASSUME NEW i \in Regions, NEW list \in SUBSET Rects, NEW ok \in BOOLEAN,
             SetRoi(i, list, ok)
      PROVE  IInv'
  BY <1>4, SetRoiStep
<1>5. ASSUME NEW i \in Regions, MisreadRoi(i)
      PROVE  IInv'
  BY <1>5, MisreadRoiStep
<1>6. ASSUME NEW device \in Devices, SetDevice(device)
      PROVE  IInv'
  BY <1>6, SetDeviceStep
<1>7. CASE Reset \/ OtherCommand \/ ReplyFails
  BY <1>7, ResetStep, OtherCommandStep, ReplyFailsStep
<1> QED BY <1>1, <1>2, <1>3, <1>4, <1>5, <1>6, <1>7 DEF Command

LEMMA StartInv ==
  ASSUME IInv, Start
  PROVE  IInv'
<1>1. CASE PowerOn \/ ReadImage \/ ReadStream \/ ReadDevice \/ ReadEnd
  BY <1>1, PowerOnStep, ReadImageStep, ReadStreamStep, ReadDeviceStep, ReadEndStep
<1>2. ASSUME NEW i \in Regions, ReadRoi(i)
      PROVE  IInv'
  BY <1>2, ReadRoiStep
<1>3. CASE ResetAtStart \/ Enable \/ EnableTooEarly \/ Started
  BY <1>3, ResetAtStartStep, EnableStep, EnableTooEarlyStep, StartedStep
<1> QED BY <1>1, <1>2, <1>3 DEF Start

LEMMA NextInv == IInv /\ [Next]_vars => IInv'
<1> SUFFICES ASSUME IInv, [Next]_vars PROVE IInv'
  OBVIOUS
<1>1. CASE Command
  BY <1>1, CommandInv
<1>2. CASE Start
  BY <1>2, StartInv
<1>3. CASE Written \/ Stop
  BY <1>3, WrittenStep, StopStep
<1>4. ASSUME NEW quick \in BOOLEAN, WatchdogReboot(quick)
      PROVE  IInv'
  BY <1>4, WatchdogRebootStep
<1>5. CASE UNCHANGED vars
  <2>1. UNCHANGED << phase, line, value, rects, osd_changed, initialized, fatal,
                     watching, sdk, rate, camera, file, unsaved, loops, last, doubt,
                     open, drawn >>
    BY <1>5 DEF vars, settings, board, store, status, process, regions
  <2>2. TypeOK' /\ AllOff' /\ Flags' /\ BoardSound'
    BY <2>1 DEF IInv, TypeOK, AllOff, Flags, BoardSound
  <2>3. HalfRead' /\ Follows'
    BY <2>1 DEF IInv, HalfRead, RecoveredFrom, ListAfter, Listed, Follows, FlipFollows,
       RectsFollow, StreamFollows
  <2>4. KeptInFile' /\ Heals'
    BY <2>1 DEF IInv, KeptInFile, SavedFields, Whole, Heals
  <2>5. Resets' /\ Recovers'
    BY <2>1 DEF IInv, Resets, Recovers, Readable, Recovered, RecoveredFrom, ListAfter,
       Listed, Defaults
  <2> QED BY <2>2, <2>3, <2>4, <2>5 DEF IInv
<1> QED BY <1>1, <1>2, <1>3, <1>4, <1>5 DEF Next

LEMMA Invariance == Spec => []IInv
<1>1. Init => IInv
  BY InitInv
<1>2. IInv /\ [Next]_vars => IInv'
  BY NextInv
<1> QED BY <1>1, <1>2, PTL DEF Spec

(* Every parameter, flag and line number of the CGI server has its type; in   *)
(* particular what a get command reads from the camera, or a reset computes,  *)
(* is a value the parameter can have.                                         *)
THEOREM TypeCorrect == Spec => []TypeOK
<1>1. IInv => TypeOK
  BY DEF IInv
<1> QED BY <1>1, Invariance, PTL

(* Settings survive a restart, but for all regions of interest with           *)
(* rectangles except the last, which comes back as region 0.  Between commands*)
(* the state file, unless it could not be written, holds the parameters, and  *)
(* what a start that the camera did not refuse makes of it is every setting   *)
(* that is in it or the defaults, never a mixture (cgi_param_set.cpp 29-95,   *)
(* cgi_server.cpp 307-321, 443-524).                                          *)
THEOREM SettingsPreserved == Spec => []Preserved
<1>1. IInv => Preserved
  <2> SUFFICES ASSUME IInv PROVE Preserved
    OBVIOUS
  <2>1. ASSUME phase = "idle", initialized, ~unsaved
        PROVE  /\ file.lines = LastLine /\ ~file.broken
               /\ file.saved = [value EXCEPT
                    !.flip = IF "flip" \in doubt THEN file.saved.flip ELSE @,
                    !.fps = IF "stream" \in doubt THEN file.saved.fps ELSE @]
    <3>1. /\ file.lines = LastLine /\ ~file.broken /\ SavedFields(file.saved)
          /\ value \in Params /\ file.saved \in Params
      BY <2>1 DEF IInv, KeptInFile, TypeOK, File
    <3> DEFINE f == IF "flip" \in doubt THEN file.saved.flip ELSE value.flip
               g == IF "stream" \in doubt THEN file.saved.fps ELSE value.fps
               w == [value EXCEPT !.flip = f, !.fps = g]
    <3>2. f \in SUBSET Axes /\ g \in Fps
      BY <3>1 DEF Params
    <3>3. file.saved.flip = f /\ file.saved.fps = g
      BY <3>1 DEF SavedFields
    <3> HIDE DEF f, g
    <3>4. /\ w \in Params /\ w.flip = f /\ w.fps = g /\ w.osd = value.osd
          /\ w.sensor_rate = value.sensor_rate /\ w.stream_osd = value.stream_osd
          /\ w.rectangles = value.rectangles /\ w.device = value.device
      BY <3>1, <3>2 DEF Params
    <3> HIDE DEF w
    <3>5. PICK x \in Params : x = file.saved
      BY <3>1
    <3>6. PICK y \in Params : y = w
      BY <3>4
    <3>7. /\ x.flip = y.flip /\ x.osd = y.osd /\ x.sensor_rate = y.sensor_rate
          /\ x.fps = y.fps /\ x.stream_osd = y.stream_osd
          /\ x.rectangles = y.rectangles /\ x.device = y.device
      BY <3>1, <3>3, <3>4, <3>5, <3>6 DEF SavedFields
    <3>8. x = y
      BY <3>7, SameParams
    <3>9. file.saved = w
      BY <3>5, <3>6, <3>8
    <3> QED BY <3>1, <3>9 DEF w, f, g
  <2>2. Recovers
    BY DEF IInv
  <2> QED BY <2>1, <2>2 DEF Preserved, Recovers
<1> QED BY <1>1, Invariance, PTL

(* What the camera was told is what the parameters say, but for what a failed *)
(* command or a reset left open, after any sequence of commands, failures and *)
(* restarts.  Of the regions of interest this says only that the camera has   *)
(* the list of the one it was sent last: it has none of the others.  No stream*)
(* is faster than the sensor (sdk_manager.cpp 739-752, 923-1153, 1270-1279,   *)
(* cgi_server.cpp 571-627).                                                   *)
THEOREM CameraIsFollowed == Spec => []CameraFollows
<1>1. IInv => CameraFollows
  <2> SUFFICES ASSUME IInv PROVE CameraFollows
    OBVIOUS
  <2>1. camera.fps <= rate
    BY DEF IInv, BoardSound
  <2>2. ASSUME phase = "idle", watching
        PROVE  FlipFollows /\ RectsFollow /\ StreamFollows
    BY <2>2 DEF IInv, Follows
  <2> QED BY <2>1, <2>2 DEF CameraFollows, FlipFollows, RectsFollow, StreamFollows
<1> QED BY <1>1, Invariance, PTL

(* A start that fails although the camera refused nothing, the host name and  *)
(* the clock could be set and the state file be written, leaves a file that   *)
(* the next start reads to its end (cgi_server.cpp 484-525).                  *)
THEOREM StartsHeal == Spec => []FailedStartHeals
<1>1. IInv => FailedStartHeals
  <2> SUFFICES ASSUME IInv, phase = "idle", ~watching, "boot" \notin doubt, ~unsaved
               PROVE  initialized /\ file.lines = LastLine /\ Readable
    BY DEF FailedStartHeals
  <2>1. initialized /\ fatal
    BY DEF IInv, Flags
  <2>2. file.lines = LastLine /\ ~file.broken /\ SavedFields(file.saved)
    BY <2>1 DEF IInv, KeptInFile
  <2>3. value.rectangles = NoRects
    BY <2>1 DEF IInv, Heals
  <2>4. \A i \in Regions : file.saved.rectangles[i] = {}
    BY <2>2, <2>3 DEF SavedFields, NoRects
  <2> QED BY <2>1, <2>2, <2>4 DEF Readable
<1> QED BY <1>1, Invariance, PTL
================================================================================
