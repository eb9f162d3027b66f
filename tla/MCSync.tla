------------------------------- MODULE MCSync -------------------------------
(***************************************************************************)
(* Instances for TLC of the pacing of the video decoder and of its byte    *)
(* scanners.  They share no state: a behaviour runs one of them, chosen in *)
(* the initial state.                                                      *)
(***************************************************************************)
EXTENDS StreamSync, Sequences

VARIABLES
    part,     \* the part that is run; the others stay in an initial state
    bBytes

\* Every input of up to six of four bytes.
bVars == <<bBytes>>
Bits == INSTANCE BitStream WITH
    Bytes <- {0, 1, 3, 7}, MaxLength <- 6, Paddings <- {0, 2, 12, 16}, bytes <- bBytes

-----------------------------------------------------------------------------
Parts == {"sync", "bits"}

DataInit ==
    /\ part \in Parts
    /\ Init
    /\ part # "sync" => live /\ master = "audio" /\ decoderSpeed = 4
    /\ Bits!Init

DataNext ==
    \/ part = "sync" /\ Next
       /\ UNCHANGED <<part, bVars>>
    \/ part = "bits" /\ Bits!Next
       /\ UNCHANGED <<part, vars>>

allVars == <<part, vars, bVars>>

DataSpec ==
    /\ DataInit /\ [][DataNext]_allVars
-----------------------------------------------------------------------------
\* computeVideoDelay never holds a picture back for longer than its pacing and
\* 200 ms and drops it only for being late, and decodeLoop commits none before
\* its time unless it is late.
PacingKept == part = "sync" => DelayBounded /\ DropsOnlyLate /\ NotEarly

\* The scanners of VideoDecoder undo what an encoder does: they find the NAL
\* units and the SEI user data, undo framing and escaping, and repair the
\* profile of an SPS and nothing else.
ScannersCorrect ==
    part = "bits" => /\ Bits!UnitsFound /\ Bits!EncodingUndone
                     /\ Bits!UserDataFound /\ Bits!ProfileRepaired
=============================================================================
