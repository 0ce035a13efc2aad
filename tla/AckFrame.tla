------------------------------ MODULE AckFrame ------------------------------
(***************************************************************************)
(* The ACK frame: how the ack generator writes the packet numbers it has   *)
(* received into a frame, and how the retransmission module reads them     *)
(* back.  Both sides work on ranges, one record [start, end] per maximal   *)
(* run of packet numbers.                                                  *)
(***************************************************************************)
EXTENDS Integers, Sequences

Block(s, e) == [start |-> s, end |-> e]

Numbers(ranges) == UNION {ranges[i].start .. ranges[i].end : i \in DOMAIN ranges}

\* The packet numbers missing between two ranges, minus one.
FaultyGap(above, below) == above.start - below.end - 1
Gap(above, below) == above.start - below.end - 2

\* The frame is filled from the last range of the list to the first: the last
\* one gives largest_ack and first_range, every other one a gap and a length
\* relative to the range above it.  ranges_count, not the list, sizes the array.
GenerateFrame(ranges, ranges_count) ==
    LET n == ranges_count
        Above(i) == ranges[n - i + 1]
        Below(i) == ranges[n - i]
    IN  [ largest_ack |-> ranges[n].end,
          first_range |-> ranges[n].end - ranges[n].start,
          ranges      |-> [i \in 1 .. n - 1 |->
                             [ gap |-> Gap(Above(i), Below(i)),
                               len |-> Below(i).end - Below(i).start ]] ]

\* The blocks a frame denotes, block 0 first.
Blocks(frame) ==
    LET block[i \in 0 .. Len(frame.ranges)] ==
          IF i = 0
          THEN Block(frame.largest_ack - frame.first_range, frame.largest_ack)
          ELSE LET e == block[i - 1].start - frame.ranges[i].gap - 2
               IN  Block(e - frame.ranges[i].len, e)
    IN  block

Denotes(frame) == Numbers(Blocks(frame))

\* No block of the frame goes below packet number 0, which holds for every frame
\* built from packet numbers.  The receiver subtracts in uint64_t and does not
\* look: a block that goes below 0 wraps around and may meet another one.
DoesNotWrap(frame) ==
    \A i \in 0 .. Len(frame.ranges) : Blocks(frame)[i].start \in Nat

\* find_newly_acked compares the packet with a block before it computes the
\* next one and leaves when ++i reaches the array's length: a frame with ranges
\* is read up to, and not including, its last block.  The blocks are apart, so a
\* packet matches once, as long as DoesNotWrap(frame).
ExaminedBlocks(frame) ==
    IF frame.ranges = <<>> THEN {0} ELSE 0 .. Len(frame.ranges) - 1

FaultyAckedBy(frame) ==
    LET block == Blocks(frame)
    IN  block[Len(frame.ranges)].start .. frame.largest_ack

AckedBy(frame) ==
    LET block == Blocks(frame)
    IN  UNION {block[i].start .. block[i].end : i \in ExaminedBlocks(frame)}
=============================================================================
