----------------------------- MODULE MCSeekPath -----------------------------
(* Instances of SeekPath for TLC. *)
EXTENDS SeekPath

TargetsAndBad == {-1, 1, 3}
=============================================================================
