------------------------------- MODULE Sorter -------------------------------
(***************************************************************************)
(* The sorter (sorter.c): it reassembles a byte stream for recv streams    *)
(* and for the TLS handshake from segments that arrive out of order and    *)
(* more than once.  The bytes that are missing are a list of gaps, the     *)
(* bytes that are there lie in clusters of CLUSTER_SIZE bytes.             *)
(*                                                                         *)
(* A byte is its offset: peers that resend a byte resend the same value.   *)
(* write and read run under the stream's mutex, so each is one step.       *)
(* Reading the freed start_gap again finds its off and len unchanged, as   *)
(* the allocator only overwrites the links of the list node.               *)
(***************************************************************************)
EXTENDS Integers, SequencesExt

CONSTANTS
    MAX_SIZE,           \* QUIC_SORTER_MAX_SIZE
    CLUSTER_SIZE,       \* QUIC_SORTER_CLUSTER_SIZE
    Segmentations,      \* the ways a peer may cut the stream into segments
    ReadLens            \* lengths the reader asks for

ASSUME SizesAssumption ==
    /\ MAX_SIZE \in Nat \ {0}
    /\ CLUSTER_SIZE \in Nat \ {0}
    /\ ReadLens \subseteq Nat \ {0}

\* An offset on the wire has 62 bits: no segment comes near MAX_SIZE, 2^63 - 1.
ASSUME SegmentsAssumption ==
    \A cut \in Segmentations :
        /\ cut \subseteq [off : Nat, len : Nat]
        /\ \A seg \in cut : seg.off + seg.len < MAX_SIZE

VARIABLES
    segments,           \* the segments this peer sends: a set of [off, len]
    gaps,               \* the list of gaps
    clusters,           \* cluster key -> offsets that have been written to it
    avail_size,
    readed_size,
    written             \* history: offsets given to quic_sorter_write

vars == <<segments, gaps, clusters, avail_size, readed_size, written>>

Gap(off, len) == [off |-> off, len |-> len]
GapEnd(gap) == gap.off + gap.len - 1

Init ==
    /\ segments \in Segmentations
    /\ gaps = <<Gap(0, MAX_SIZE)>>
    /\ clusters = [k \in {} |-> {}]
    /\ avail_size = 0
    /\ readed_size = 0
    /\ written = {}

-----------------------------------------------------------------------------
\* The walk for start_gap stops at the first gap that overlaps start .. end or
\* lies above it.
StartGap(start, end) ==
    Min({i \in DOMAIN gaps : start <= GapEnd(gaps[i]) \/ end < gaps[i].off})

\* The walk for end_gap goes on while the segment reaches into the next gap.
EndGap(s, end) ==
    Min({i \in s .. Len(gaps) :
            \/ end <= GapEnd(gaps[i])
            \/ i < Len(gaps) /\ end < gaps[i + 1].off})

\* What is left of a gap below start, and above end.
FaultyBelow(gap, start) == Gap(gap.off, start - gap.off - 1)
Below(gap, start) == Gap(gap.off, start - gap.off)
FaultyAbove(gap, end) == Gap(end + 1, gap.len)
Above(gap, end) == Gap(end + 1, GapEnd(gap) - end)

\* What the bytes start .. end, clipped to the gaps, leave of start_gap (s) and
\* end_gap (e) and the gaps between them, which are freed.  When the segment
\* spans gaps, an end_gap it fills is not removed, and in the last case end_gap
\* is moved up without being shortened.
Remains(s, e, start, end) ==
    CASE start = gaps[s].off /\ s = e ->
            IF end >= GapEnd(gaps[s]) THEN <<>> ELSE <<Above(gaps[s], end)>>
      [] start = gaps[s].off /\ s # e ->
            (IF end >= GapEnd(gaps[s]) THEN <<>> ELSE <<gaps[s]>>)
            \o <<IF end < GapEnd(gaps[e]) THEN Above(gaps[e], end) ELSE gaps[e]>>
      [] start # gaps[s].off /\ end = GapEnd(gaps[e]) ->
            IF s = e THEN <<Below(gaps[s], start)>>
                     ELSE <<Below(gaps[s], start), gaps[e]>>
      [] start # gaps[s].off /\ end # GapEnd(gaps[e]) ->
            IF s = e THEN <<Below(gaps[s], start), Above(gaps[s], end)>>
                     ELSE <<Below(gaps[s], start), Gap(end + 1, gaps[e].len)>>

\* quic_sorter_write_cluster
Stored(bytes) ==
    LET Key(o) == o \div CLUSTER_SIZE
    IN  [k \in DOMAIN clusters \cup {Key(o) : o \in bytes} |->
            {o \in bytes : Key(o) = k}
                \cup (IF k \in DOMAIN clusters THEN clusters[k] ELSE {})]

\* quic_sorter_write.  A segment below every gap it meets is old news.
Write(off, len) ==
    LET last == off + len - 1
        s == StartGap(off, last)
    IN  /\ len > 0
        /\ written' = written \cup (off .. last)
        /\ IF last < gaps[s].off
           THEN UNCHANGED <<gaps, clusters, avail_size>>
           ELSE LET e     == EndGap(s, last)
                    start == IF off < gaps[s].off THEN gaps[s].off ELSE off
                    end   == IF last > GapEnd(gaps[e]) THEN GapEnd(gaps[e]) ELSE last
                IN  /\ gaps' = SubSeq(gaps, 1, s - 1) \o Remains(s, e, start, end)
                                  \o SubSeq(gaps, e + 1, Len(gaps))
                    /\ clusters' = Stored(start .. end)
                    /\ avail_size' = gaps'[1].off
        /\ UNCHANGED <<segments, readed_size>>

-----------------------------------------------------------------------------
\* quic_sorter_readable, a difference of uint64_t: MAX_SIZE is 2^63 - 1.
Word == 2 * (MAX_SIZE + 1)
FaultyReadable == (avail_size + 1 - readed_size) % Word
Readable == (avail_size - readed_size) % Word

\* quic_sorter_read_cluster: how far it gets, and the clusters it has consumed.
ReadTo(len) ==
    LET wanted  == readed_size .. readed_size + len - 1
        missing == {o \in wanted : o \div CLUSTER_SIZE \notin DOMAIN clusters}
    IN  IF missing = {} THEN readed_size + len ELSE Min(missing)

FaultyConsumed(to) == {k \in DOMAIN clusters : k * CLUSTER_SIZE < to}
Consumed(to) == {k \in DOMAIN clusters : (k + 1) * CLUSTER_SIZE \in readed_size + 1 .. to}

\* quic_sorter_read
Read(len) ==
    LET to == ReadTo(IF Readable < len THEN Readable ELSE len)
    IN  /\ readed_size' = to
        /\ clusters' = [k \in DOMAIN clusters \ Consumed(to) |-> clusters[k]]
        /\ UNCHANGED <<segments, gaps, avail_size, written>>

Next ==
    \/ \E seg \in segments : Write(seg.off, seg.len)
    \/ \E len \in ReadLens : Read(len)

Spec == Init /\ [][Next]_vars

\* No two segments overlap.
OneCut(cut) == \A a, b \in cut : a # b => GapEnd(a) < b.off \/ GapEnd(b) < a.off

\* A peer that resends a segment as it was cut the first time, as this program's
\* own sender does.
NeverRecuts == OneCut(segments)

\* Such a peer repeats each segment until it is acknowledged, and the reader
\* keeps asking.
FairSpec ==
    /\ Spec
    /\ \A seg \in UNION {cut \in Segmentations : OneCut(cut)} :
            WF_vars(NeverRecuts /\ seg \in segments /\ Write(seg.off, seg.len))
    /\ \A len \in ReadLens : WF_vars(Read(len))

-----------------------------------------------------------------------------
Bytes == 0 .. MAX_SIZE - 1
Missing == UNION {gaps[i].off .. GapEnd(gaps[i]) : i \in DOMAIN gaps}
Held == UNION {clusters[k] : k \in DOMAIN clusters}

TypeOK ==
    /\ segments \in Segmentations
    /\ gaps \in Seq([off : Bytes, len : 1 .. MAX_SIZE])
    /\ \A k \in DOMAIN clusters :
            clusters[k] \subseteq k * CLUSTER_SIZE .. (k + 1) * CLUSTER_SIZE - 1
    /\ avail_size \in Bytes
    /\ readed_size \in Bytes
    /\ written \subseteq Bytes

\* However the peer cuts and recuts the stream, no byte that has not arrived is
\* taken off the gaps, and none lies below the offset up to which a reader reads.
NothingIsTakenForArrived ==
    /\ Bytes \ written \subseteq Missing
    /\ 0 .. avail_size - 1 \subseteq written

\* And whatever order the segments of one segmentation arrive in, and however
\* often, the gaps are the bytes that have not arrived: ascending, none empty, no
\* two adjacent, and a reader may read all the bytes below the first of them.
GapsAreWhatIsMissing ==
    /\ NothingIsTakenForArrived
    /\ NeverRecuts =>
        /\ Missing = Bytes \ written
        /\ \A i \in 1 .. Len(gaps) - 1 : GapEnd(gaps[i]) + 1 < gaps[i + 1].off
        /\ avail_size \notin written

\* The bytes a reader may read have arrived, and readable, an unsigned difference,
\* does not underflow.
AvailIsThePrefix ==
    NeverRecuts =>
        /\ TypeOK
        /\ readed_size <= avail_size
        /\ 0 .. avail_size - 1 \subseteq written

\* Every readable byte is still in a cluster, though reading frees clusters
\* behind it and writing creates them in any order: a read never stops short,
\* and never copies bytes that were not written.
ReadableIsHeld == NeverRecuts => readed_size .. avail_size - 1 \subseteq Held

\* The byte stream the sorter implements; it promises nothing to the reader of a
\* peer that recuts.
Stream == INSTANCE ByteStream WITH
            arrived <- written,
            read    <- IF NeverRecuts THEN readed_size ELSE 0

ImplementsByteStream == Stream!Spec

\* When all segments keep coming, cut as they were, the reader gets the whole
\* stream.
EverythingIsRead ==
    NeverRecuts => <>(\A seg \in segments : seg.off + seg.len <= readed_size)
=============================================================================
