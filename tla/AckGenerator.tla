---------------------------- MODULE AckGenerator ----------------------------
(***************************************************************************)
(* The ack generator of one packet number space (modules/ack_generator).   *)
(* The numbers of the packets processed so far are kept as a list of       *)
(* ranges; an ACK frame is generated from the list when should_send asks   *)
(* for one.                                                                *)
(*                                                                         *)
(* ignore_threhold stays 0 (nothing calls its setter), alarm stays 0       *)
(* (nothing sets it) and the ack delay is left out (the receiving side     *)
(* always replaces it by 0).                                               *)
(***************************************************************************)
EXTENDS AckFrame, SequencesExt

CONSTANT MaxNum         \* bound: the largest packet number received

ASSUME MaxNumAssumption == MaxNum \in Nat

VARIABLES
    ranges,             \* the list, ascending
    ranges_count,
    lg_obnum,           \* the largest number observed
    should_send,
    dropped,
    received,           \* history: every number given to received()
    unreported          \* history: ack-eliciting numbers no ACK frame reported yet

vars == <<ranges, ranges_count, lg_obnum, should_send, dropped, received, unreported>>

PacketNumbers == 0 .. MaxNum

Init ==
    /\ ranges = <<>>
    /\ ranges_count = 0
    /\ lg_obnum = 0
    /\ should_send = FALSE
    /\ dropped = FALSE
    /\ received = {}
    /\ unreported = {}

-----------------------------------------------------------------------------
(***************************************************************************)
(* quic_ack_generator_insert_ranges                                        *)
(***************************************************************************)

\* The walk stops at the first range that holds num, touches it, or lies above
\* it; all three mean num <= end + 1.
StopsAt(num) == {i \in DOMAIN ranges : num <= ranges[i].end + 1}

\* The stop range, when the walk stops at all.
Stop(num) == Min(StopsAt(num))

FaultyRecorded(num) ==
    /\ StopsAt(num) # {}
    /\ ranges[Stop(num)].start <= num

Recorded(num) ==
    /\ StopsAt(num) # {}
    /\ ranges[Stop(num)].start <= num
    /\ num <= ranges[Stop(num)].end

Touches(r, num) == num = r.end + 1 \/ num + 1 = r.start

Grown(num) ==
    [ranges EXCEPT ![Stop(num)] =
        IF num = @.end + 1 THEN Block(@.start, num) ELSE Block(num, @.end)]

\* A range that grew up to a neighbour is merged into it.
MeetsBelow(s, i) == i > 1 /\ s[i - 1].end + 1 = s[i].start
FaultyMeetsAbove(s, i) == i < Len(s) /\ s[i + 1].start = s[i].end
MeetsAbove(s, i) == i < Len(s) /\ s[i + 1].start - 1 = s[i].end

MergeBelow(s, i) == RemoveAt([s EXCEPT ![i - 1].end = s[i].end], i)
FaultyMergeAbove(s, i) == RemoveAt(s, i)
MergeAbove(s, i) == RemoveAt([s EXCEPT ![i + 1].start = s[i].start], i)

\* insert_ranges(num) for a num no range contains: the list it leaves and what
\* it adds to ranges_count.  After a merge below, the code goes on with the
\* range it freed; that merge never happens, the walk would have stopped at
\* the range below.
InsertRanges(num) ==
    LET i == Stop(num)
        grown == Grown(num)
    IN  CASE StopsAt(num) = {} ->
                [list |-> Append(ranges, Block(num, num)), delta |-> 1]
          [] StopsAt(num) # {} /\ ~Touches(ranges[i], num) ->
                [list |-> InsertAt(ranges, i, Block(num, num)), delta |-> 1]
          [] StopsAt(num) # {} /\ Touches(ranges[i], num) ->
                IF MeetsBelow(grown, i)
                THEN [list |-> MergeBelow(grown, i), delta |-> -1]
                ELSE IF MeetsAbove(grown, i)
                     THEN [list |-> MergeAbove(grown, i), delta |-> -1]
                     ELSE [list |-> grown, delta |-> 0]

-----------------------------------------------------------------------------
\* quic_ack_generator_check_is_lost: num fills a hole below the last range.
CheckIsLost(num) ==
    /\ num > 0
    /\ ranges # <<>>
    /\ num < Last(ranges).start
    /\ ~Recorded(num)

Largest(num) == IF num >= lg_obnum THEN num ELSE lg_obnum

\* quic_ack_generator_module_received
Received(num, should_ack) ==
    /\ ~dropped
    /\ LET fresh == ~Recorded(num)
       IN  /\ ranges' = IF fresh THEN InsertRanges(num).list ELSE ranges
           /\ ranges_count' = ranges_count + (IF fresh THEN InsertRanges(num).delta ELSE 0)
           /\ should_send' = (should_send \/ (should_ack /\ (fresh \/ CheckIsLost(num))))
    /\ lg_obnum' = Largest(num)
    /\ received' = received \cup {num}
    /\ unreported' = IF should_ack /\ num \notin received
                     THEN unreported \cup {num} ELSE unreported
    /\ UNCHANGED dropped

\* quic_ack_generator_generate; the frame it returns:
AckFrame == GenerateFrame(ranges, ranges_count)

Generate ==
    /\ ~dropped
    /\ should_send
    /\ should_send' = FALSE
    /\ unreported' = unreported \ Denotes(AckFrame)
    /\ UNCHANGED <<ranges, ranges_count, lg_obnum, dropped, received>>

\* quic_ack_generator_drop: the packet number space is closed.
Drop ==
    /\ ranges' = <<>>
    /\ ranges_count' = 0
    /\ dropped' = TRUE
    /\ UNCHANGED <<lg_obnum, should_send, received, unreported>>

Next ==
    \/ \E num \in PacketNumbers, should_ack \in BOOLEAN : Received(num, should_ack)
    \/ Generate
    \/ Drop

Spec == Init /\ [][Next]_vars

-----------------------------------------------------------------------------
\* Types of the state.
TypeOK ==
    /\ ranges \in Seq([start : PacketNumbers, end : PacketNumbers])
    /\ ranges_count \in 0 .. MaxNum + 1
    /\ lg_obnum \in PacketNumbers
    /\ should_send \in BOOLEAN
    /\ dropped \in BOOLEAN
    /\ received \subseteq PacketNumbers
    /\ unreported \subseteq received

\* Whatever order packets arrive in, the list is ascending and two neighbours
\* are separated by at least one missing number, so the gap of an ACK frame
\* (start - end - 2) never underflows.
RangesSeparated ==
    /\ TypeOK
    /\ \A i \in DOMAIN ranges : ranges[i].start <= ranges[i].end
    /\ \A i \in 1 .. Len(ranges) - 1 : ranges[i].end + 1 < ranges[i + 1].start

\* The counter that sizes the frame's array is the length of the list that
\* fills it: no block of a generated frame is left uninitialized, none is
\* written past the end.
CountMatches == ranges_count = Len(ranges)

\* The frame a generate() would build now denotes exactly the packets that
\* were processed: nothing is acknowledged that did not arrive and nothing
\* that arrived is forgotten, over insertion, merging and gap arithmetic; its
\* array has the size of the list that fills it, and its delay is measured from
\* the packet that is its largest_ack.
FrameIsExact ==
    /\ CountMatches
    /\ ranges # <<>> =>
            Denotes(AckFrame) = received /\ AckFrame.largest_ack = lg_obnum

\* An ack-eliciting packet that no frame has reported yet keeps should_send
\* raised, whatever arrives or is generated in between.
NothingUnreportedIsForgotten == (unreported # {} /\ ~dropped) => should_send

\* While a space is open a number once recorded stays recorded.
NeverForgets == [][~dropped' => Numbers(ranges) \subseteq Numbers(ranges')]_vars
=============================================================================
