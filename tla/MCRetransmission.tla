-------------------------- MODULE MCRetransmission --------------------------
(***************************************************************************)
(* Retransmission with the ACK frames a peer can build from the packet     *)
(* numbers 0 .. MaxNum, whatever it received of them.                      *)
(***************************************************************************)
EXTENDS Retransmission, SequencesExt

\* The maximal runs of a set of packet numbers, as the peer's ascending list.
RunsOf(S) ==
    LET runs == {b \in [start : S, end : S] :
                    /\ b.start <= b.end
                    /\ b.start .. b.end \subseteq S
                    /\ b.start - 1 \notin S
                    /\ b.end + 1 \notin S}
    IN  SetToSortSeq(runs, LAMBDA a, b : a.start < b.start)

FrameOf(S) == GenerateFrame(RunsOf(S), Len(RunsOf(S)))

MCAckFrames == {FrameOf(S) : S \in SUBSET (0 .. MaxNum) \ {{}}}
=============================================================================
