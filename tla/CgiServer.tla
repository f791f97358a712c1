------------------------------- MODULE CgiServer -------------------------------
(* The settings of the camera in the CGI server: the parameters in memory     *)
(* (_param_state), what the camera was told of them (SDKManager), the state   *)
(* file that keeps them over a restart, and the status file from which a      *)
(* restart learns that the watchdog stopped the ones before it.               *)
(*                                                                            *)
(* A command is one action: process() runs with the server lock held, and     *)
(* nothing it has done survives the power but what is in the files.  Writing  *)
(* the state file, and reading it, go line by line, because the power can go  *)
(* at any moment.  Of the parameters the model keeps one for each way of      *)
(* treating them: `flip' is relative and is sent only when it changed, `osd'  *)
(* of the image is passed on to the streams, `sensor_rate' acts on the next   *)
(* start, `fps' is limited by it, `stream_osd' is sent first by a stream      *)
(* command, `rectangles', of each region of interest, has a second copy       *)
(* (Roi::_rects), and `device' is kept by a reset.  One stream stands for all *)
(* streams.                                                                   *)
EXTENDS Integers, FiniteSetsExt

CONSTANTS Axes,         \* the axes the image can be flipped about
          Rates,        \* sensor rates
          Fps,          \* frame rates of a stream
          Devices,      \* network settings
          RoiCount,     \* regions of interest (5: Roi::COUNT)
          Rects,        \* rectangles of a region of interest
          Edge,         \* those whose rounded border is outside the picture
          DefaultRate, DefaultFps, DefaultDevice

ASSUME CgiAssumption ==
  /\ Rates \subseteq Fps /\ Fps \subseteq Nat \ {0}
  /\ DefaultRate \in Rates /\ DefaultFps \in Fps /\ DefaultDevice \in Devices
  /\ RoiCount \in Nat \ {0} /\ Edge \subseteq Rects

VARIABLES
  phase,         \* off, reading, resetting, enabling, storing (a start), idle, writing
  line,          \* the next line of the state file to read
  value,         \* _param_state
  rects,         \* Roi::_rects
  osd_changed,   \* _osd_changed
  initialized,   \* Server::_initialized
  fatal,         \* _fatal_error
  watching,      \* the watchdog thread exists
  sdk,           \* SDKManager::_initialized
  rate,          \* _sensor_rate, 0 before the SDK has one
  camera,        \* what the camera was told
  file,          \* the state file
  loops, last,   \* the status file, as watchdog_loop() finds it at its end
  \* history since the power came on:
  doubt,         \* what a failure leaves open
  open,          \* the regions of interest one leaves open
  drawn,         \* the region the camera was last sent
  unsaved        \* the last write of the state file failed

settings == <<value, rects, osd_changed>>
board == <<sdk, rate, camera>>
status == <<loops, last>>
process == <<initialized, fatal, watching>>
store == <<file, unsaved>>
regions == <<open, drawn>>
vars == <<phase, line, settings, process, board, store, status, doubt, regions>>

Regions == 0..RoiCount - 1

Params == [flip : SUBSET Axes, osd : BOOLEAN, sensor_rate : Rates, fps : Fps,
           stream_osd : BOOLEAN, rectangles : [Regions -> SUBSET Rects],
           device : Devices]

NoRects == [i \in Regions |-> {}]
Default == [flip |-> {}, osd |-> FALSE, sensor_rate |-> DefaultRate,
            fps |-> DefaultFps, stream_osd |-> FALSE, rectangles |-> NoRects,
            device |-> DefaultDevice]

(* The lines of the state file are image, stream, a roi for each region, and  *)
(* device_info, in this order.  A file whose writing was cut has fewer, and   *)
(* perhaps a piece of one more; one not found cannot be read either.          *)
ImageLine == 1
StreamLine == 2
RoiLine(i) == 3 + i
LastLine == RoiLine(RoiCount)
File == [saved : Params, lines : 0..LastLine, broken : BOOLEAN, found : BOOLEAN]

Unset == 0   \* a stream that was never configured
Dark == [flip |-> {}, osd |-> FALSE, fps |-> Unset, rects |-> {}]
Cameras == [flip : SUBSET Axes, osd : BOOLEAN, fps : Fps \cup {Unset},
            rects : SUBSET Rects]

LoopLimit == 3
Doubts == {"flip", "stream", "boot"}
Smaller(a, b) == IF a <= b THEN a ELSE b

TypeOK ==
  /\ phase \in {"off", "reading", "resetting", "enabling", "storing", "idle", "writing"}
  /\ line \in 1..LastLine + 1
  /\ value \in Params
  /\ rects \in [Regions -> SUBSET Rects]
  /\ osd_changed \in BOOLEAN
  /\ initialized \in BOOLEAN /\ fatal \in BOOLEAN /\ watching \in BOOLEAN
  /\ sdk \in BOOLEAN
  /\ rate \in Rates \cup {0}
  /\ camera \in Cameras
  /\ file \in File
  /\ loops \in 0..LoopLimit /\ last \in {"start", "watchdog", "other"}
  /\ doubt \subseteq Doubts /\ open \subseteq Regions /\ drawn \in Regions
  /\ unsaved \in BOOLEAN

(* A camera that was never started has no state file.                         *)
Init ==
  /\ phase = "off" /\ line = 1
  /\ value = Default /\ rects = NoRects /\ osd_changed = FALSE
  /\ initialized = FALSE /\ fatal = FALSE /\ watching = FALSE
  /\ sdk = FALSE /\ rate = 0 /\ camera = Dark
  /\ file = [saved |-> Default, lines |-> 0, broken |-> TRUE, found |-> FALSE]
  /\ loops = 0 /\ last = "other"
  /\ doubt = {} /\ open = {} /\ drawn = 0 /\ unsaved = FALSE
--------------------------------------------------------------------------------
(* write_status_file(), and what a scan of the file then counts: watchdog     *)
(* reboots soon after a start with nothing but such pairs between them.       *)
Log(code, quick) ==
  /\ loops' = IF code = "watchdog" /\ last = "start" /\ quick
              THEN Smaller(loops + 1, LoopLimit)
              ELSE IF code = "start" /\ last = "watchdog" THEN loops ELSE 0
  /\ last' = code

(* SDKManager::set_stream() for the parameters v on a camera c of rate r: the *)
(* possible outcomes.  The display comes first, then the frame rate is        *)
(* checked (and reduced while the server starts), then the encoder is set and *)
(* perhaps enabled; any call may fail.                                        *)
StreamOutcomes(v, c, r) ==
  LET fps == IF initialized THEN v.fps ELSE Smaller(v.fps, r)
      shown == [c EXCEPT !.osd = v.stream_osd]
      set == [shown EXCEPT !.fps = fps]
  IN {[ok |-> FALSE, value |-> v, camera |-> d] : d \in {c, shown}}
     \cup (IF fps > r THEN {}
           ELSE {[ok |-> b, value |-> [v EXCEPT !.fps = fps], camera |-> set] :
                   b \in BOOLEAN})

(* A fault: what differs from the default is sent, instead of what changed.   *)
ImageOutcomesAnew(v, c) ==
  LET flipped == [c EXCEPT !.flip = IF v.flip # Default.flip THEN v.flip ELSE @]
  IN {[ok |-> FALSE, value |-> v, camera |-> d] : d \in {c, flipped}}
     \cup {[ok |-> TRUE, value |-> v, camera |-> flipped]}

(* SDKManager::set_image(): only what changed is sent, flip before the rest.  *)
ImageOutcomes(v, c) ==
  LET flipped == [c EXCEPT !.flip = IF v.flip # value.flip THEN v.flip ELSE @]
  IN {[ok |-> FALSE, value |-> v, camera |-> d] : d \in {c, flipped}}
     \cup {[ok |-> TRUE, value |-> v, camera |-> flipped]}

(* The whole of an image command: the display of the streams follows.         *)
Repaint(v) == v.osd # value.osd \/ osd_changed
SetImageOutcomes(v, c, r) ==
  UNION {IF i.ok /\ Repaint(v)
         THEN StreamOutcomes([v EXCEPT !.stream_osd = v.osd], i.camera, r)
         ELSE {i} : i \in ImageOutcomes(v, c)}

(* ParamState::reset() keeps the device information; SDKManager::reset()      *)
(* keeps the sensor rate the camera runs at, and makes the frame rates fit.   *)
Defaults == [Default EXCEPT !.device = value.device]
ResetOutcomes(v, c, r) ==
  UNION {IF i.ok
         THEN StreamOutcomes([v EXCEPT !.fps = Smaller(v.fps, r)], i.camera, r)
         ELSE {i} : i \in ImageOutcomes(v, c)}

(* What a call that changes flip, and one that sends a stream, leave open     *)
(* when they fail and settle when they do not.                                *)
Vouched(flips, streams, ok) ==
  LET named == (IF flips THEN {"flip"} ELSE {})
               \cup (IF streams THEN {"stream"} ELSE {})
  IN IF ok THEN doubt \ named ELSE doubt \cup named

(* ParamState::write_file() empties the file, unless it does not open, and    *)
(* writes line after line; how far it got matters if the power goes meanwhile *)
(* (see Stop) or the flash is full before the end.  Nobody asks.              *)
Whole(v) == [saved |-> v, lines |-> LastLine, broken |-> FALSE, found |-> TRUE]
WriteFile(v) ==
  \/ file' = Whole(v) /\ unsaved' = FALSE
  \/ UNCHANGED file /\ unsaved' = TRUE
CutFile ==
  /\ ~unsaved
  /\ \E n \in 0..LastLine, tail \in BOOLEAN :
       file' = [file EXCEPT !.lines = n, !.broken = tail /\ n < LastLine]
FlashFull == CutFile /\ unsaved' = TRUE

(* Before the server is initialised it writes nothing.                        *)
Save(v) ==
  IF initialized
  THEN phase' = "writing" /\ WriteFile(v)
  ELSE UNCHANGED <<phase, store>>
--------------------------------------------------------------------------------
(* The commands.  A failure reverts the parameters, and only them.            *)

Allowed == phase = "idle" /\ initialized /\ ~fatal

SetImage(axes, osd, sensor_rate) ==
  LET v == [value EXCEPT !.flip = (@ \ axes) \cup (axes \ @),
                         !.osd = osd, !.sensor_rate = sensor_rate]
  IN /\ Allowed
     /\ \E out \in SetImageOutcomes(v, camera, rate) :
          /\ camera' = out.camera
          /\ doubt' = Vouched(v.flip # value.flip, Repaint(v), out.ok)
          /\ IF out.ok
             THEN /\ value' = out.value /\ osd_changed' = FALSE
                  /\ Save(out.value)
             ELSE UNCHANGED <<value, osd_changed, phase, store>>
     /\ UNCHANGED <<line, rects, process, sdk, rate, status, regions>>

(* image?action=get reads flip back from the camera into the parameters.      *)
GetImage ==
  /\ Allowed
  /\ value' = [value EXCEPT !.flip = camera.flip]
  /\ UNCHANGED <<phase, line, rects, osd_changed, process, board, store, status,
                 doubt, regions>>

(* A fault: a failed command keeps the parameters.                            *)
SetStreamKept(fps, osd) ==
  LET v == [value EXCEPT !.fps = fps, !.stream_osd = osd]
  IN /\ Allowed
     /\ \E out \in StreamOutcomes(v, camera, rate) :
          /\ camera' = out.camera
          /\ doubt' = Vouched(FALSE, TRUE, out.ok)
          /\ value' = out.value
          /\ IF out.ok
             THEN /\ osd_changed' = (osd_changed \/ osd # value.stream_osd)
                  /\ Save(out.value)
             ELSE UNCHANGED <<osd_changed, phase, store>>
     /\ UNCHANGED <<line, rects, process, sdk, rate, status, regions>>

SetStream(fps, osd) ==
  LET v == [value EXCEPT !.fps = fps, !.stream_osd = osd]
  IN /\ Allowed
     /\ \E out \in StreamOutcomes(v, camera, rate) :
          /\ camera' = out.camera
          /\ doubt' = Vouched(FALSE, TRUE, out.ok)
          /\ IF out.ok
             THEN /\ value' = out.value
                  /\ osd_changed' = (osd_changed \/ osd # value.stream_osd)
                  /\ Save(out.value)
             ELSE UNCHANGED <<value, osd_changed, phase, store>>
     /\ UNCHANGED <<line, rects, process, sdk, rate, status, regions>>

(* A fault: what the camera answers is not verified.                          *)
GetStreamBlind ==
  /\ Allowed
  /\ value' = [value EXCEPT !.fps = camera.fps]
  /\ UNCHANGED <<phase, line, rects, osd_changed, process, board, store, status,
                 doubt, regions>>

(* An encoder that was never configured has a frame rate no stream can have.  *)
GetStream ==
  /\ Allowed
  /\ camera.fps # Unset
  /\ value' = [value EXCEPT !.fps = camera.fps]
  /\ UNCHANGED <<phase, line, rects, osd_changed, process, board, store, status,
                 doubt, regions>>

(* SDKManager::set_roi() removes what the camera has and sends every rectangle*)
(* of the list; the outcomes when a call fails and when none does.            *)
SendRoi(list, ok) ==
  \E sent \in IF ok THEN {list} ELSE (SUBSET list) \cup {camera.rects} :
    camera' = [camera EXCEPT !.rects = sent]

(* roi?action=set, add, delete and clear make a new list, of the one there is *)
(* or of the one given: any list.  No other region is sent with it.           *)
SetRoi(i, list, ok) ==
  /\ Allowed
  /\ rects' = [rects EXCEPT ![i] = list]
  /\ SendRoi(list, ok)
  /\ drawn' = i
  /\ IF ok
     THEN /\ value' = [value EXCEPT !.rectangles[i] = list]
          /\ open' = open \ {i}
          /\ Save(value')
     ELSE /\ open' = open \cup {i}
          /\ UNCHANGED <<value, phase, store>>
  /\ UNCHANGED <<line, osd_changed, process, sdk, rate, status, doubt>>

(* roi?action=set with a text that cannot be read has cleared the list.       *)
MisreadRoi(i) ==
  /\ Allowed
  /\ rects' = [rects EXCEPT ![i] = {}]
  /\ open' = open \cup {i}
  /\ UNCHANGED <<phase, line, value, osd_changed, process, board, store, status,
                 doubt, drawn>>

(* device_info?action=set.  A change of the network also schedules a reboot   *)
(* and writes a line to the status file: see OtherCommand and Stop.           *)
SetDevice(device) ==
  /\ Allowed
  /\ value' = [value EXCEPT !.device = device]
  /\ Save(value')
  /\ UNCHANGED <<line, rects, osd_changed, process, board, status, doubt, regions>>

(* reset, and what it leaves open: the regions of interest are not sent.      *)
Unsent == {i \in Regions : value.rectangles[i] # {} \/ rects[i] # {}}
ResetParams == [Defaults EXCEPT !.sensor_rate = IF sdk THEN rate ELSE @]
ResetCamera == IF sdk THEN camera ELSE Dark

(* reset is also accepted after a start that failed, even one that failed     *)
(* before the SDK was initialised, which it then is.                          *)
Reset ==
  /\ phase = "idle"
  /\ rate' = ResetParams.sensor_rate
  /\ \/ \E out \in ResetOutcomes(ResetParams, ResetCamera, rate') :
          /\ sdk' = TRUE /\ camera' = out.camera
          /\ IF out.ok
             THEN /\ value' = out.value
                  /\ open' = open \cup Unsent
                  /\ Save(out.value)
             ELSE UNCHANGED <<value, phase, store, open>>
          /\ doubt' = Vouched(value.flip # {}, TRUE, out.ok)
     \/ /\ ~sdk
        /\ UNCHANGED <<phase, value, sdk, camera, store, doubt, open>>
  /\ UNCHANGED <<line, rects, osd_changed, process, status, drawn>>

(* status, which starts a new status file, and reboot, firmware and a change  *)
(* of the network, which write a line to it.                                  *)
OtherCommand ==
  /\ phase = "idle"
  /\ Log("other", FALSE)
  /\ UNCHANGED <<phase, line, settings, process, board, store, doubt, regions>>

(* A reply that cannot be sent leaves the server in its reduced state.        *)
ReplyFails ==
  /\ phase = "idle"
  /\ fatal' = TRUE
  /\ Log("other", FALSE)
  /\ UNCHANGED <<phase, line, settings, initialized, watching, board, store, doubt,
                 regions>>
--------------------------------------------------------------------------------
Written ==
  /\ phase = "writing"
  /\ phase' = "idle"
  /\ UNCHANGED store \/ FlashFull
  /\ UNCHANGED <<line, settings, process, board, status, doubt, regions>>

(* The end of a start: the watchdog, if all went well, and then run().        *)
Started ==
  /\ phase = "storing"
  /\ phase' = "idle"
  /\ watching' = ~fatal
  /\ Log("start", FALSE)
  /\ UNCHANGED store \/ FlashFull
  /\ UNCHANGED <<line, settings, initialized, fatal, board, doubt, regions>>

(* Only the files are left.                                                   *)
Off ==
  /\ phase' = "off" /\ line' = 1
  /\ value' = Default /\ rects' = NoRects /\ osd_changed' = FALSE
  /\ initialized' = FALSE /\ fatal' = FALSE /\ watching' = FALSE
  /\ sdk' = FALSE /\ rate' = 0 /\ camera' = Dark
  /\ doubt' = {} /\ open' = {} /\ drawn' = 0 /\ unsaved' = FALSE

(* The power goes, or the thread of a reboot command ends its second of sleep;*)
(* neither asks whether a file is being written.                              *)
Stop ==
  /\ phase # "off"
  /\ UNCHANGED file \/ (phase \in {"storing", "writing"} /\ CutFile)
  /\ Off
  /\ UNCHANGED status

(* The watchdog takes the server lock, so it finds no command half done.      *)
WatchdogReboot(quick) ==
  /\ phase = "idle" /\ watching
  /\ Log("watchdog", quick)
  /\ Off
  /\ UNCHANGED file
--------------------------------------------------------------------------------
PowerOn ==
  /\ phase = "off"
  /\ phase' = "reading"
  /\ UNCHANGED <<line, settings, process, board, store, status, doubt, regions>>

Reading(n) == phase = "reading" /\ line = n /\ n <= file.lines

(* A line that fails ends the reading; the parameters go back to what they    *)
(* were before it, and a reset follows.                                       *)
StartOver == phase' = "resetting" /\ line' = 1 /\ UNCHANGED <<value, osd_changed>>
LineFails == StartOver /\ Log("other", FALSE)

NextLine == phase' = phase /\ line' = line + 1 /\ UNCHANGED status

(* The image line brings the sensor rate, so the SDK is initialised here.     *)
ReadImage ==
  LET v == [value EXCEPT !.flip = file.saved.flip, !.osd = file.saved.osd,
                         !.sensor_rate = file.saved.sensor_rate]
  IN /\ Reading(ImageLine)
     /\ rate' = v.sensor_rate
     /\ \/ /\ sdk' = TRUE
           /\ \E out \in SetImageOutcomes(v, Dark, v.sensor_rate) :
                /\ camera' = out.camera
                /\ IF out.ok
                   THEN /\ value' = out.value /\ osd_changed' = FALSE
                        /\ NextLine /\ UNCHANGED doubt
                   ELSE /\ LineFails
                        /\ doubt' = doubt \cup {"flip", "stream", "boot"}
        \/ /\ LineFails
           /\ doubt' = doubt \cup {"boot"}
           /\ UNCHANGED <<sdk, camera>>
     /\ UNCHANGED <<rects, process, store, regions>>

ReadStream ==
  LET v == [value EXCEPT !.fps = file.saved.fps, !.stream_osd = file.saved.stream_osd]
  IN /\ Reading(StreamLine)
     /\ \E out \in StreamOutcomes(v, camera, rate) :
          /\ camera' = out.camera
          /\ IF out.ok
             THEN /\ value' = out.value
                  /\ osd_changed' = (osd_changed \/ v.stream_osd # value.stream_osd)
                  /\ NextLine /\ UNCHANGED doubt
             ELSE LineFails /\ doubt' = doubt \cup {"stream", "boot"}
     /\ UNCHANGED <<rects, process, sdk, rate, store, regions>>

(* A region without rectangles has no line.  Every line has the id of region  *)
(* 0, so each replaces the one before.  Roi::set() rounded the borders        *)
(* outwards when the list was written, and checks them again here.            *)
ReadRoi(i) ==
  LET list == file.saved.rectangles[i]
  IN /\ Reading(RoiLine(i))
     /\ \/ /\ list = {}
           /\ NextLine
           /\ UNCHANGED <<value, rects, osd_changed, camera, doubt, open>>
        \/ /\ list \cap Edge # {}
           /\ rects' = [rects EXCEPT ![0] = {}] /\ open' = open \cup {0}
           /\ LineFails
           /\ UNCHANGED <<camera, doubt>>
        \/ /\ list # {} /\ list \cap Edge = {}
           /\ rects' = [rects EXCEPT ![0] = list]
           /\ \E ok \in BOOLEAN :
                /\ SendRoi(list, ok)
                /\ IF ok
                   THEN /\ value' = [value EXCEPT !.rectangles[0] = list]
                        /\ NextLine /\ UNCHANGED <<osd_changed, doubt, open>>
                   ELSE /\ LineFails
                        /\ doubt' = doubt \cup {"boot"} /\ open' = open \cup {0}
     /\ UNCHANGED <<process, sdk, rate, store, drawn>>

(* While the server starts, device_info only sets the parameters.             *)
ReadDevice ==
  /\ Reading(LastLine)
  /\ value' = [value EXCEPT !.device = file.saved.device]
  /\ NextLine
  /\ UNCHANGED <<rects, osd_changed, process, board, store, doubt, regions>>

(* The end of the file: a line that was cut, or no more lines, or no file.    *)
ReadEnd ==
  /\ phase = "reading" /\ line > file.lines
  /\ IF file.broken
     THEN StartOver /\ IF file.found THEN Log("other", FALSE) ELSE UNCHANGED status
     ELSE /\ phase' = IF loops >= LoopLimit THEN "resetting" ELSE "enabling"
          /\ line' = 1
          /\ UNCHANGED <<value, osd_changed, status>>
  /\ doubt' = IF line <= StreamLine THEN doubt \cup {"stream"} ELSE doubt
  /\ UNCHANGED <<rects, process, board, store, regions>>

(* The exception handler of the constructor, before _initialized is set: the  *)
(* parameters are reset, but the state file is not written.  run() follows.   *)
GiveUp ==
  /\ phase' = "idle"
  /\ fatal' = TRUE
  /\ value' = Defaults
  /\ loops' = 0 /\ last' = "start"
  /\ doubt' = doubt \cup {"boot"}
  /\ UNCHANGED <<line, rects, osd_changed, initialized, watching, store, regions>>

ResetAtStart ==
  /\ phase = "resetting"
  /\ rate' = ResetParams.sensor_rate
  /\ \/ \E out \in ResetOutcomes(ResetParams, ResetCamera, rate') :
          /\ sdk' = TRUE /\ camera' = out.camera
          /\ IF out.ok
             THEN /\ phase' = "enabling"
                  /\ value' = out.value
                  /\ doubt' = Vouched(value.flip # {}, TRUE, TRUE)
                  /\ open' = open \cup Unsent
                  /\ UNCHANGED <<line, rects, osd_changed, process, store, status, drawn>>
             ELSE GiveUp
     \/ /\ ~sdk
        /\ GiveUp
        /\ UNCHANGED <<sdk, camera>>

(* A fault: _initialized is set after the encoders are enabled.               *)
EnableFirst ==
  /\ phase = "enabling"
  /\ \/ /\ sdk
        /\ initialized' = TRUE /\ phase' = "storing"
        /\ WriteFile(value)
        /\ UNCHANGED <<value, fatal, status, doubt>>
     \/ /\ fatal' = TRUE
        /\ value' = Defaults
        /\ phase' = "idle"
        /\ Log("other", FALSE)
        /\ doubt' = IF sdk THEN doubt \cup {"boot"} ELSE doubt
        /\ UNCHANGED <<initialized, store>>
  /\ UNCHANGED <<line, rects, osd_changed, watching, board, regions>>

(* _initialized = true, the encoders are enabled, the state is written.  An   *)
(* exception here still writes it, with the parameters reset.                 *)
Enable ==
  /\ phase = "enabling"
  /\ initialized' = TRUE /\ phase' = "storing"
  /\ \/ /\ sdk
        /\ WriteFile(value)
        /\ UNCHANGED <<value, fatal, status, doubt>>
     \/ /\ fatal' = TRUE
        /\ value' = Defaults
        /\ WriteFile(Defaults)
        /\ Log("other", FALSE)
        /\ doubt' = IF sdk THEN doubt \cup {"boot"} ELSE doubt
  /\ UNCHANGED <<line, rects, osd_changed, watching, board, regions>>

(* Setting the host name or the clock failed.                                 *)
EnableTooEarly ==
  /\ phase = "enabling"
  /\ GiveUp
  /\ UNCHANGED board
--------------------------------------------------------------------------------
Command ==
  \/ \E axes \in SUBSET Axes, osd \in BOOLEAN, r \in Rates : SetImage(axes, osd, r)
  \/ \E fps \in Fps, osd \in BOOLEAN : SetStream(fps, osd)
  \/ GetImage \/ GetStream
  \/ \E i \in Regions, list \in SUBSET Rects, ok \in BOOLEAN : SetRoi(i, list, ok)
  \/ \E i \in Regions : MisreadRoi(i)
  \/ \E device \in Devices : SetDevice(device)
  \/ Reset \/ OtherCommand \/ ReplyFails

Start ==
  \/ PowerOn
  \/ ReadImage \/ ReadStream \/ (\E i \in Regions : ReadRoi(i))
  \/ ReadDevice \/ ReadEnd
  \/ ResetAtStart \/ Enable \/ EnableTooEarly \/ Started

Next ==
  \/ Command \/ Start
  \/ Written
  \/ Stop
  \/ \E quick \in BOOLEAN : WatchdogReboot(quick)

Spec == Init /\ [][Next]_vars
--------------------------------------------------------------------------------
(* The list region 0 has after n lines: that of the last region with a line.  *)
Listed(n) == {i \in Regions : RoiLine(i) <= n /\ file.saved.rectangles[i] # {}}
ListAfter(n) ==
  IF Listed(n) = {} THEN {} ELSE file.saved.rectangles[Max(Listed(n))]

(* What a start makes of the first n lines of the file: every setting of the  *)
(* lines that are there, frame rates reduced to the sensor rate, and the      *)
(* defaults for the rest; an osd of the image also shows on the streams.      *)
RecoveredFrom(n) ==
  LET s == file.saved
  IN [flip        |-> IF n >= ImageLine THEN s.flip ELSE {},
      osd         |-> n >= ImageLine /\ s.osd,
      sensor_rate |-> IF n >= ImageLine THEN s.sensor_rate ELSE DefaultRate,
      fps         |-> IF n >= StreamLine THEN Smaller(s.fps, s.sensor_rate)
                      ELSE IF n = ImageLine /\ s.osd
                           THEN Smaller(DefaultFps, s.sensor_rate) ELSE DefaultFps,
      stream_osd  |-> IF n >= StreamLine THEN s.stream_osd
                      ELSE n = ImageLine /\ s.osd,
      rectangles  |-> [NoRects EXCEPT ![0] = ListAfter(n)],
      device      |-> IF n = LastLine THEN s.device ELSE DefaultDevice]
Recovered == RecoveredFrom(file.lines)

Readable ==
  /\ ~file.broken
  /\ \A i \in Regions : RoiLine(i) <= file.lines => file.saved.rectangles[i] \cap Edge = {}

(* Settings survive a restart, but for the regions of interest, of which only *)
(* the last that has rectangles does, and as region 0 (roi.h:55,              *)
(* cgi_param_set.cpp:87-89).  Between commands the state file, if it could be *)
(* written, holds the parameters, but for those a failed command left open    *)
(* and a get then read back from the camera; and when a start during which    *)
(* the camera refused nothing has read the file, line by line and through the *)
(* commands, the parameters are what the file says, except after three        *)
(* watchdog reboots in a row or if a line cannot be read: then the settings   *)
(* that a reset resets have their defaults, never a mixture.                  *)
Preserved ==
  /\ phase = "idle" /\ initialized /\ ~unsaved =>
       /\ file.lines = LastLine /\ ~file.broken
       /\ file.saved = [value EXCEPT
            !.flip = IF "flip" \in doubt THEN file.saved.flip ELSE @,
            !.fps = IF "stream" \in doubt THEN file.saved.fps ELSE @]
  /\ phase = "enabling" /\ "boot" \notin doubt =>
       IF Readable /\ loops < LoopLimit
       THEN value = Recovered
       ELSE value = [Defaults EXCEPT !.sensor_rate = rate,
                                     !.fps = Smaller(DefaultFps, rate)]

(* The camera runs what the parameters say.  Only what changed is sent to it, *)
(* so this depends on every failure, revert, reset and restart before: what a *)
(* command that failed named stays open until a command that names it again   *)
(* succeeds, and a reset leaves the regions of interest as they are.  Of the  *)
(* regions the camera has the one it was sent last and none of the others,    *)
(* whatever the parameters say of those (sdk_manager.cpp:1270-1279).  No      *)
(* stream is ever run faster than the sensor.                                 *)
CameraFollows ==
  /\ phase = "idle" /\ watching =>
       /\ "flip" \notin doubt => camera.flip = value.flip
       /\ "stream" \notin doubt =>
            camera.fps = value.fps /\ camera.osd = value.stream_osd
       /\ \A i \in Regions \ open : rects[i] = value.rectangles[i]
       /\ drawn \notin open => camera.rects = value.rectangles[drawn]
  /\ camera.fps <= rate

(* A start that fails does not fail for ever: unless the camera refused a     *)
(* call, the host name or the clock could not be set (EnableTooEarly), or the *)
(* state file could not be written, it has left a file the next start can     *)
(* read, wherever the power went while the one before was written.            *)
FailedStartHeals ==
  phase = "idle" /\ ~watching /\ "boot" \notin doubt /\ ~unsaved =>
    /\ initialized
    /\ file.lines = LastLine
    /\ Readable
================================================================================
