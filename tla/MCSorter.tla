------------------------------ MODULE MCSorter ------------------------------
(***************************************************************************)
(* Sorter over a short stream.                                             *)
(***************************************************************************)
EXTENDS Sorter

CONSTANTS
    Total,          \* bytes in a stream that is cut once
    LongTotal       \* bytes in a stream that is cut anew with every packet

Segment(from, to) == [off |-> from, len |-> to - from]

\* A peer that never recuts: the stream is cut at some offsets, once for all.
CutAt(cuts) ==
    LET points == cuts \cup {0, Total}
    IN  {Segment(a, b) : <<a, b>> \in
            {p \in points \X points :
                p[1] < p[2] /\ \A c \in points : ~(p[1] < c /\ c < p[2])}}

CutOnce == {CutAt(cuts) : cuts \in SUBSET (1 .. Total - 1)}

\* A peer that cuts the stream anew with every packet sends any segment.
AnyCut ==
    {Segment(a, b) : <<a, b>> \in {p \in (0 .. LongTotal) \X (0 .. LongTotal) : p[1] < p[2]}}

MCSegmentations == CutOnce \cup {AnyCut}
=============================================================================
