---------------------------- MODULE FrameChannel ----------------------------
(***************************************************************************)
(* What FrameQueue promises the application: a bounded FIFO of decoded     *)
(* frames.  The decoder publishes the frame it has just written, the       *)
(* application takes the oldest one, seek and re-initialisation empty the  *)
(* channel and a smaller capacity keeps the oldest frames that fit.  When  *)
(* a seek empties the channel under a frame that is being written, what is *)
(* published in its place is not determined.                               *)
(***************************************************************************)
EXTENDS Naturals, Sequences

CONSTANTS Sizes

VARIABLES items,     \* the published frames, oldest first
          capacity,
          written    \* what the decoder may publish next: one frame, none, or anything

vars == <<items, capacity>>

Init == items = <<>> /\ capacity \in Sizes

Publish ==
    /\ Len(items) < capacity
    /\ \E f \in written : items' = Append(items, f)
    /\ UNCHANGED capacity

Take ==
    /\ items # <<>>
    /\ items' = Tail(items)
    /\ UNCHANGED capacity

Empty ==
    /\ items' = <<>>
    /\ UNCHANGED capacity

Resize ==
    /\ capacity' \in Sizes
    /\ items' = SubSeq(items, 1, IF Len(items) <= capacity' THEN Len(items) ELSE capacity')

Next == Publish \/ Take \/ Empty \/ Resize

Spec == Init /\ [][Next]_vars
=============================================================================
