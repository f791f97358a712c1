------------------------------ MODULE MCCgiServer ------------------------------
(* CgiServer for TLC, which follows every restart but not every pair of       *)
(* troubles at once.  The theorems do without these bounds.                   *)
EXTENDS CgiServer

(* A list of rectangles left open is followed without another doubt, and a    *)
(* write of the state file that failed without either and over the defaults   *)
(* only: what they share is the state file, whose lines they do not mix.      *)
OneTrouble ==
  /\ initialized => open = {} \/ doubt = {}
  /\ unsaved => open = {} /\ doubt = {} /\ file.saved = Default

(* Regions of interest are set while the other parameters, but for the frame  *)
(* rate, have their defaults: no command treats the two together but a reset. *)
Undrawn == drawn = 0 /\ rects = NoRects /\ value.rectangles = NoRects
Apart == Undrawn \/ [value EXCEPT !.rectangles = NoRects, !.fps = DefaultFps] = Default
================================================================================
