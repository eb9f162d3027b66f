--------------------------- MODULE PacketChannel ---------------------------
(***************************************************************************)
(* What PacketQueue promises its users, without threads, locks, condition  *)
(* variables or statistics: a bounded FIFO channel of packets that can be  *)
(* closed and opened again, whose epoch (serial_) advances whenever its    *)
(* contents are discarded or it is opened.  A closed channel takes nothing *)
(* in and can still be emptied.                                            *)
(***************************************************************************)
EXTENDS Naturals, Sequences

CONSTANTS Packets, Capacities

VARIABLES items, closed, epoch, capacity

vars == <<items, closed, epoch, capacity>>

Init ==
    /\ items = <<>>
    /\ closed = FALSE
    /\ epoch = 0
    /\ capacity \in Capacities

Send ==
    /\ ~closed
    /\ Len(items) < capacity
    /\ \E p \in Packets : items' = Append(items, p)
    /\ UNCHANGED <<closed, epoch, capacity>>

Receive ==
    /\ items # <<>>
    /\ items' = Tail(items)
    /\ UNCHANGED <<closed, epoch, capacity>>

Discard ==
    /\ items' = <<>>
    /\ epoch' = epoch + 1
    /\ UNCHANGED <<closed, capacity>>

Open ==
    /\ closed' = FALSE
    /\ epoch' = epoch + 1
    /\ UNCHANGED <<items, capacity>>

Close ==
    /\ closed' = TRUE
    /\ UNCHANGED <<items, epoch, capacity>>

Resize ==
    /\ capacity' \in Capacities
    /\ UNCHANGED <<items, closed, epoch>>

Next == Send \/ Receive \/ Discard \/ Open \/ Close \/ Resize

Spec == Init /\ [][Next]_vars
=============================================================================
