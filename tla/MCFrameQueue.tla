---------------------------- MODULE MCFrameQueue ----------------------------
(* Small instances of FrameQueue for TLC. *)
EXTENDS FrameQueue
CONSTANTS w, r1, r2
=============================================================================
