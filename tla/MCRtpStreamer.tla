---------------------------- MODULE MCRtpStreamer -----------------------------
(***************************************************************************)
(* Two clients of one streamer; frames of up to three packets.             *)
(***************************************************************************)
EXTENDS RtpStreamer, TLC

Symmetry == Permutations(Clients)
================================================================================
