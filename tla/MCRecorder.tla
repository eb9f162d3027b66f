----------------------------- MODULE MCRecorder -----------------------------
(* Two short inputs for Recorder.                                          *)
EXTENDS Recorder

Pkt(media, n, key, pts, dts) == [media |-> media, n |-> n, key |-> key, pts |-> pts, dts |-> dts]

NoAudio == [video |-> "hevc", audio |-> "none"]

\* First a live stream with a picture before the first key frame, a packet
\* without PTS and one whose DTS is limited by its PTS, or a file; then a short
\* live stream.
MCInputs ==
    <<{[live |-> TRUE, codecs |-> [video |-> "h264", audio |-> "aac"],
        packets |-> <<Pkt("video", 1, FALSE, 4, 4), Pkt("video", 2, TRUE, 5, 5),
                      Pkt("audio", 1, TRUE, NoPts, 7), Pkt("video", 3, FALSE, 5, 6),
                      Pkt("video", 4, TRUE, 7, 7)>>],
       [live |-> FALSE, codecs |-> NoAudio,
        packets |-> <<Pkt("video", 1, TRUE, 0, 0)>>]},
      {[live |-> TRUE, codecs |-> NoAudio,
        packets |-> <<Pkt("video", 1, TRUE, 0, 0)>>]}>>
=============================================================================
