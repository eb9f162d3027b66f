----------------------------- MODULE MCDemuxer -----------------------------
(* An instance of Demuxer for TLC. *)
EXTENDS Demuxer

LoopNever == {}
=============================================================================
