----------------------------- MODULE MCRtspServer -----------------------------
(***************************************************************************)
(* One live stream with the name its callback saves it under, "0", and the *)
(* name of its URL, and a file.                                            *)
(***************************************************************************)
EXTENDS RtspServer, TLC

CONSTANTS number, url, movie, id0

MCNumberName == [i \in StreamIds |-> number]
MCStreamIdOf == [n \in Names |-> IF n = movie THEN NotLive ELSE id0]
Symmetry     == Permutations(Sources) \cup Permutations(Talkers)
================================================================================
