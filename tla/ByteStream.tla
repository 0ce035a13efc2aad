----------------------------- MODULE ByteStream -----------------------------
(***************************************************************************)
(* What a sorter promises its reader: segments arrive in any order, any    *)
(* number of times, and the reader is given the bytes of the stream in     *)
(* order, each once, never one that has not arrived.                       *)
(***************************************************************************)
EXTENDS Integers

VARIABLES
    arrived,        \* offsets that have arrived
    read            \* the reader has been given the bytes 0 .. read - 1

Init == arrived = {} /\ read = 0

Arrive ==
    /\ arrived \subseteq arrived'
    /\ UNCHANGED read

Deliver ==
    /\ read <= read'
    /\ read .. read' - 1 \subseteq arrived
    /\ UNCHANGED arrived

Spec == Init /\ [][Arrive \/ Deliver]_<<arrived, read>>
=============================================================================
