---------------------------- MODULE SorterProofs ----------------------------
(***************************************************************************)
(* Proofs about Sorter, for every size of a cluster and every stream.      *)
(* While no segment overlaps another, a segment has arrived as a whole or  *)
(* lies in one gap as a whole; the branches of quic_sorter_write for       *)
(* segments that span gaps are then never taken, and the gaps are exactly  *)
(* the bytes that are missing (IInv).  When segments overlap the gaps lose *)
(* their order and hold bytes that arrived, but none is lost from them     *)
(* that is missing (RecutInv).                                             *)
(***************************************************************************)
EXTENDS Sorter, DataLemmas

-----------------------------------------------------------------------------
(***************************************************************************)
(* Clusters: an offset has one cluster.                                    *)
(***************************************************************************)

\* Division and remainder of the offsets.
LEMMA Division ==
    ASSUME NEW o \in Nat, NEW c \in Nat \ {0}
    PROVE  /\ o \div c \in Nat
           /\ (o \div c) * c <= o
           /\ o < ((o \div c) + 1) * c
  OBVIOUS

\* An offset between two multiples of c has the lower one's quotient.
LEMMA DivisionUnique ==
    ASSUME NEW o \in Nat, NEW c \in Nat \ {0}, NEW k \in Nat,
           k * c <= o, o < (k + 1) * c
    PROVE  o \div c = k
  OBVIOUS

\* A number below w is its own remainder: readable does not wrap.
LEMMA SmallRemainder ==
    ASSUME NEW x \in Nat, NEW w \in Nat, x < w
    PROVE  x % w = x
  OBVIOUS

-----------------------------------------------------------------------------
(***************************************************************************)
(* The inductive invariant.                                                *)
(***************************************************************************)
\* A gap is never empty.
GapType == [off : Nat, len : Nat \ {0}]
\* The byte o lies in the gap.
In(o, gap) == gap.off <= o /\ o <= GapEnd(gap)

\* The gaps ascend with something between them, and the last has no end.
Apart(list) ==
    /\ list \in Seq(GapType)
    /\ Len(list) # 0
    /\ \A i, j \in DOMAIN list : i < j => GapEnd(list[i]) + 1 < list[j].off
    /\ GapEnd(list[Len(list)]) = MAX_SIZE - 1

\* They cover what has not arrived.
Covers(list, arrived) ==
    \A o \in Bytes : o \notin arrived <=> \E i \in DOMAIN list : In(o, list[i])

\* A segment arrives as a whole.
Whole(arrived) ==
    \A seg \in segments :
        \/ seg.off .. GapEnd(seg) \subseteq arrived
        \/ (seg.off .. GapEnd(seg)) \cap arrived = {}

\* The clusters hold what belongs to them, and all that arrived and is unread.
Clustered ==
    /\ \A k \in DOMAIN clusters :
            k \in Nat /\ clusters[k] \subseteq k * CLUSTER_SIZE .. (k + 1) * CLUSTER_SIZE - 1
    /\ \A o \in written : readed_size <= o => o \in Held

\* What holds for a peer that never recuts.
Sound ==
    /\ written \subseteq Bytes
    /\ Apart(gaps)
    /\ Covers(gaps, written)
    /\ Whole(written)
    /\ avail_size = gaps[1].off
    /\ readed_size \in Nat
    /\ readed_size <= avail_size
    /\ Clustered

\* The inductive invariant: recutting, which the model allows, voids it.
IInv == segments \in Segmentations /\ (NeverRecuts => Sound)

\* The whole stream is one gap at first.
LEMMA InitIInv == Init => IInv
<1> SUFFICES ASSUME Init PROVE IInv
  OBVIOUS
<1>1. MAX_SIZE \in Nat \ {0}
  BY SizesAssumption
<1>2. gaps = <<Gap(0, MAX_SIZE)>> /\ Gap(0, MAX_SIZE) = [off |-> 0, len |-> MAX_SIZE]
  BY DEF Init, Gap
<1>3. Len(gaps) = 1 /\ gaps[1].off = 0 /\ gaps[1].len = MAX_SIZE /\ gaps \in Seq(GapType)
  BY <1>1, <1>2 DEF GapType
<1>4. GapEnd(gaps[1]) = MAX_SIZE - 1
  BY <1>1, <1>3 DEF GapEnd
<1>5. Apart(gaps)
  BY <1>3, <1>4 DEF Apart
<1>6. Covers(gaps, written)
  BY <1>1, <1>3, <1>4 DEF Covers, In, Bytes, Init
<1>7. Whole(written) /\ Clustered
  BY DEF Whole, Clustered, Init
<1> QED
  BY <1>3, <1>5, <1>6, <1>7 DEF Init, IInv, Sound

-----------------------------------------------------------------------------
(***************************************************************************)
(* Writing a segment.                                                      *)
(***************************************************************************)

\* Numbers and shape of the gaps.
LEMMA GapNumbers ==
    ASSUME NEW list, Apart(list), NEW i \in DOMAIN list
    PROVE  /\ i \in 1 .. Len(list) /\ Len(list) \in Nat
           /\ list[i].off \in Nat /\ list[i].len \in Nat \ {0}
           /\ GapEnd(list[i]) \in Nat /\ list[i].off <= GapEnd(list[i])
           /\ GapEnd(list[i]) <= MAX_SIZE - 1
<1>1. list[i] \in GapType /\ i \in 1 .. Len(list) /\ Len(list) \in Nat
  BY DEF Apart
<1>2. /\ list[i].off \in Nat /\ list[i].len \in Nat \ {0}
      /\ GapEnd(list[i]) \in Nat /\ list[i].off <= GapEnd(list[i])
  BY <1>1 DEF GapType, GapEnd
<1>3. Len(list) \in DOMAIN list /\ list[Len(list)] \in GapType
  BY <1>1 DEF Apart
<1>4. CASE i = Len(list)
  BY <1>1, <1>2, <1>4, SizesAssumption DEF Apart
<1>5. CASE i # Len(list)
  <2>1. i < Len(list)
    BY <1>1, <1>5
  <2>2. GapEnd(list[i]) + 1 < list[Len(list)].off
    BY <1>3, <2>1 DEF Apart
  <2>3. list[Len(list)].off <= GapEnd(list[Len(list)]) /\ list[Len(list)].off \in Nat
    BY <1>3 DEF GapType, GapEnd
  <2>4. GapEnd(list[Len(list)]) = MAX_SIZE - 1 /\ MAX_SIZE - 1 \in Nat
    BY SizesAssumption DEF Apart
  <2> QED
    BY <1>1, <1>2, <2>2, <2>3, <2>4
<1> QED
  BY <1>1, <1>2, <1>4, <1>5

\* The segments of the stream end before MAX_SIZE.
LEMMA SegmentNumbers ==
    ASSUME segments \in Segmentations, NEW seg \in segments, seg.len > 0
    PROVE  /\ seg.off \in Nat /\ seg.len \in Nat \ {0}
           /\ GapEnd(seg) = seg.off + seg.len - 1
           /\ GapEnd(seg) \in Nat /\ seg.off <= GapEnd(seg) /\ GapEnd(seg) < MAX_SIZE - 1
           /\ seg.off .. GapEnd(seg) \subseteq Bytes
<1>1. seg \in [off : Nat, len : Nat] /\ seg.off + seg.len < MAX_SIZE
  BY SegmentsAssumption
<1> QED
  BY <1>1, SizesAssumption DEF GapEnd, Bytes

\* The walk for start_gap ends, at the first gap that it may end at.
LEMMA StartGapIs ==
    ASSUME Apart(gaps), NEW a \in Nat, NEW z \in Nat, a <= MAX_SIZE - 1
    PROVE  /\ StartGap(a, z) \in DOMAIN gaps
           /\ a <= GapEnd(gaps[StartGap(a, z)]) \/ z < gaps[StartGap(a, z)].off
           /\ \A i \in DOMAIN gaps :
                a <= GapEnd(gaps[i]) \/ z < gaps[i].off => StartGap(a, z) <= i
<1> DEFINE P == {i \in DOMAIN gaps : a <= GapEnd(gaps[i]) \/ z < gaps[i].off}
<1>1. Len(gaps) \in DOMAIN gaps /\ DOMAIN gaps \subseteq Nat
  BY DEF Apart
<1>2. Len(gaps) \in P
  BY <1>1 DEF Apart
<1>3. P \in SUBSET Nat /\ P # {}
  BY <1>1, <1>2
<1>4. StartGap(a, z) = Min(P)
  BY DEF StartGap
<1>5. Min(P) \in P /\ \A y \in P : Min(P) <= y
  BY <1>3, MinOfNats
<1> QED
  BY <1>4, <1>5

\* A segment that has arrived is below every gap the walk has not passed.
LEMMA OldSegment ==
    ASSUME Apart(gaps), Covers(gaps, written), NEW a \in Nat, NEW z \in Nat,
           a <= z, z < MAX_SIZE - 1, a .. z \subseteq written
    PROVE  z < gaps[StartGap(a, z)].off
<1> DEFINE s == StartGap(a, z)
<1>1. MAX_SIZE \in Nat /\ a <= MAX_SIZE - 1
  BY SizesAssumption
<1>2. s \in DOMAIN gaps /\ (a <= GapEnd(gaps[s]) \/ z < gaps[s].off)
  BY <1>1, StartGapIs
<1> HIDE DEF s
<1>3. gaps[s].off \in Nat /\ GapEnd(gaps[s]) \in Nat /\ gaps[s].off <= GapEnd(gaps[s])
  BY <1>2, GapNumbers
<1>4. ASSUME gaps[s].off <= z PROVE FALSE
  <2>1. PICK o \in Nat : o = IF a <= gaps[s].off THEN gaps[s].off ELSE a
    BY <1>3
  <2>2. o \in a .. z /\ o \in Bytes
    BY <1>1, <1>3, <1>4, <2>1 DEF Bytes
  <2>3. In(o, gaps[s])
    BY <1>2, <1>3, <1>4, <2>1 DEF In
  <2> QED
    BY <1>2, <2>2, <2>3 DEF Covers
<1> QED
  BY <1>3, <1>4 DEF s

\* A segment of which nothing has arrived lies in one gap, where both walks end.
LEMMA NewSegment ==
    ASSUME Apart(gaps), Covers(gaps, written), NEW a \in Nat, NEW z \in Nat,
           a <= z, z < MAX_SIZE - 1, (a .. z) \cap written = {}
    PROVE  LET s == StartGap(a, z)
           IN  /\ s \in DOMAIN gaps
               /\ EndGap(s, z) = s
               /\ gaps[s].off <= a /\ z <= GapEnd(gaps[s])
<1> DEFINE s == StartGap(a, z)
<1>1. MAX_SIZE \in Nat /\ a <= MAX_SIZE - 1 /\ a \in Bytes
  BY SizesAssumption DEF Bytes
<1>2. /\ s \in DOMAIN gaps
      /\ \A i \in DOMAIN gaps : a <= GapEnd(gaps[i]) \/ z < gaps[i].off => s <= i
      /\ a <= GapEnd(gaps[s]) \/ z < gaps[s].off
  BY <1>1, StartGapIs
<1> HIDE DEF s
<1>3. PICK i \in DOMAIN gaps : In(a, gaps[i])
  <2>1. a \notin written
    OBVIOUS
  <2> QED
    BY <1>1, <2>1 DEF Covers
<1>4. /\ gaps[s].off \in Nat /\ GapEnd(gaps[s]) \in Nat /\ gaps[s].off <= GapEnd(gaps[s])
      /\ s \in Nat /\ s \in 1 .. Len(gaps) /\ Len(gaps) \in Nat
  BY <1>2, GapNumbers
<1>5. gaps[i].off \in Nat /\ GapEnd(gaps[i]) \in Nat /\ i \in Nat
  BY GapNumbers
<1>6. s = i
  <2>1. s <= i
    BY <1>2, <1>3 DEF In
  <2>2. ASSUME s < i PROVE FALSE
    <3>1. GapEnd(gaps[s]) + 1 < gaps[i].off
      BY <1>2, <2>2 DEF Apart
    <3> QED
      BY <1>2, <1>3, <1>4, <1>5, <3>1 DEF In
  <2> QED
    BY <1>4, <1>5, <2>1, <2>2
<1>7. gaps[s].off <= a /\ a <= GapEnd(gaps[s])
  BY <1>3, <1>6 DEF In
<1>8. ASSUME z > GapEnd(gaps[s]) PROVE FALSE
  <2>1. PICK o \in Nat : o = GapEnd(gaps[s]) + 1
    BY <1>4
  <2>2. o \in a .. z /\ o \in Bytes
    BY <1>1, <1>4, <1>7, <1>8, <2>1 DEF Bytes
  <2>3. PICK j \in DOMAIN gaps : In(o, gaps[j])
    BY <2>2 DEF Covers
  <2>4. gaps[j].off \in Nat /\ GapEnd(gaps[j]) \in Nat /\ j \in Nat
    BY GapNumbers
  <2>5. CASE j < s
    <3>1. GapEnd(gaps[j]) + 1 < gaps[s].off
      BY <1>2, <2>5 DEF Apart
    <3> QED
      BY <1>4, <2>1, <2>3, <2>4, <3>1, SMTT(60) DEF In
  <2>6. CASE s < j
    <3>1. GapEnd(gaps[s]) + 1 < gaps[j].off
      BY <1>2, <2>6 DEF Apart
    <3> QED
      BY <1>4, <2>1, <2>3, <2>4, <3>1 DEF In
  <2>7. CASE s = j
    BY <1>4, <2>1, <2>3, <2>7 DEF In
  <2> QED
    BY <1>4, <2>4, <2>5, <2>6, <2>7
<1>9. z <= GapEnd(gaps[s])
  BY <1>4, <1>8
<1>10. EndGap(s, z) = s
  <2> DEFINE P == {k \in s .. Len(gaps) :
                    \/ z <= GapEnd(gaps[k])
                    \/ k < Len(gaps) /\ z < gaps[k + 1].off}
  <2>1. s \in P /\ P \in SUBSET Nat
    BY <1>4, <1>9
  <2>2. Min(P) \in P /\ \A y \in P : Min(P) <= y
    BY <2>1, MinOfNats
  <2>3. Min(P) \in s .. Len(gaps) /\ Min(P) <= s
    BY <2>1, <2>2
  <2>4. EndGap(s, z) = Min(P)
    BY DEF EndGap
  <2> HIDE DEF P
  <2> QED
    BY <1>4, <2>3, <2>4
<1> QED
  BY <1>2, <1>7, <1>9, <1>10 DEF s


\* r is what the bytes a .. z leave of a gap that they lie in.
LeftOf(r, gap, a, z) ==
    /\ r \in Seq(GapType)
    /\ Len(r) \in 0 .. 2
    /\ \A k \in 1 .. Len(r) :
            /\ gap.off <= r[k].off
            /\ GapEnd(r[k]) <= GapEnd(gap)
            /\ GapEnd(r[k]) < a \/ z < r[k].off
    /\ Len(r) = 2 => GapEnd(r[1]) + 1 < r[2].off
    /\ \A o \in Nat : In(o, gap) /\ (o < a \/ z < o) => \E k \in 1 .. Len(r) : In(o, r[k])
    /\ z < GapEnd(gap) => Len(r) # 0 /\ GapEnd(r[Len(r)]) = GapEnd(gap)

\* What the four branches leave of a gap when the segment lies in it.
LEMMA RemainsOfOne ==
    ASSUME Apart(gaps), NEW s \in DOMAIN gaps, NEW a \in Nat, NEW z \in Nat,
           a <= z, gaps[s].off <= a, z <= GapEnd(gaps[s])
    PROVE  LeftOf(Remains(s, s, a, z), gaps[s], a, z)
<1> DEFINE g == gaps[s]
           b == Below(g, a)
           t == Above(g, z)
           e == GapEnd(g)
           R == Remains(s, s, a, z)
<1>0. g.off \in Nat /\ e \in Nat /\ g.off <= e
  BY GapNumbers
<1>1. a > g.off => /\ b \in GapType /\ b.off = g.off /\ GapEnd(b) = a - 1
  BY <1>0 DEF Below, Gap, GapEnd, GapType
<1>2. z < e => /\ t \in GapType /\ t.off = z + 1 /\ GapEnd(t) = e
  <2> SUFFICES ASSUME z < e PROVE t \in GapType /\ t.off = z + 1 /\ GapEnd(t) = e
    OBVIOUS
  <2>1. t = [off |-> z + 1, len |-> e - z]
    BY DEF Above, Gap
  <2> HIDE DEF e, t
  <2>2. e \in Nat /\ z < e
    BY <1>0
  <2>3. t \in GapType /\ t.off = z + 1 /\ t.len = e - z
    BY <2>1, <2>2 DEF GapType
  <2>4. GapEnd(t) = e
    BY <2>2, <2>3 DEF GapEnd
  <2> QED
    BY <2>3, <2>4
<1>3. R = IF a = g.off THEN IF z >= e THEN <<>> ELSE <<t>>
          ELSE IF z = e THEN <<b>> ELSE <<b, t>>
  BY DEF Remains
<1>4. g.off <= a /\ z <= e
  OBVIOUS
<1> HIDE DEF R, g, b, t, e
<1>5. CASE a = g.off /\ z = e
  <2>1. R = <<>>
    BY <1>0, <1>3, <1>5
  <2>2. R \in Seq(GapType) /\ Len(R) = 0
    BY <2>1
  <2>3. \A o \in Nat : ~ (In(o, g) /\ (o < a \/ z < o))
    BY <1>0, <1>5 DEF In, e
  <2> QED
    BY <1>0, <1>5, <2>2, <2>3 DEF LeftOf, R, g, e
<1>6. CASE a = g.off /\ z < e
  <2>1. R = <<t>>
    BY <1>0, <1>3, <1>6
  <2>2. R \in Seq(GapType) /\ Len(R) = 1 /\ R[1] = t
    BY <1>2, <1>6, <2>1
  <2>3. \A o \in Nat : In(o, g) /\ (o < a \/ z < o) => In(o, R[1])
    BY <1>0, <1>2, <1>6, <2>2 DEF In, e
  <2>4. g.off <= R[1].off /\ GapEnd(R[1]) <= e /\ z < R[1].off /\ GapEnd(R[1]) = e
    BY <1>0, <1>2, <1>6, <2>2
  <2> QED
    BY <2>2, <2>3, <2>4 DEF LeftOf, R, g, e
<1>7. CASE a > g.off /\ z = e
  <2>1. R = <<b>>
    BY <1>0, <1>3, <1>7
  <2>2. R \in Seq(GapType) /\ Len(R) = 1 /\ R[1] = b
    BY <1>1, <1>7, <2>1
  <2>3. \A o \in Nat : In(o, g) /\ (o < a \/ z < o) => In(o, R[1])
    BY <1>0, <1>1, <1>7, <2>2 DEF In, e
  <2>4. g.off <= R[1].off /\ GapEnd(R[1]) <= e /\ GapEnd(R[1]) < a
    BY <1>0, <1>1, <1>7, <2>2
  <2> QED
    BY <1>0, <1>7, <2>2, <2>3, <2>4 DEF LeftOf, R, g, e
<1>8. CASE a > g.off /\ z < e
  <2>1. R = <<b, t>>
    BY <1>0, <1>3, <1>8
  <2>2. R \in Seq(GapType) /\ Len(R) = 2 /\ R[1] = b /\ R[2] = t
    BY <1>1, <1>2, <1>8, <2>1
  <2>3. \A o \in Nat : In(o, g) /\ (o < a \/ z < o) => In(o, R[1]) \/ In(o, R[2])
    BY <1>0, <1>1, <1>2, <1>8, <2>2 DEF In, e
  <2>4. /\ g.off <= R[1].off /\ GapEnd(R[1]) <= e /\ GapEnd(R[1]) < a
        /\ g.off <= R[2].off /\ GapEnd(R[2]) = e /\ z < R[2].off
        /\ GapEnd(R[1]) + 1 < R[2].off
    BY <1>0, <1>1, <1>2, <1>8, <2>2
  <2>5. \A k \in 1 .. Len(R) : k = 1 \/ k = 2
    BY <2>2
  <2>6. GapEnd(R[2]) <= e
    BY <1>0, <2>4
  <2> QED
    BY <2>2, <2>3, <2>4, <2>5, <2>6 DEF LeftOf, R, g, e
<1>9. (a = g.off \/ a > g.off) /\ (z = e \/ z < e)
  BY <1>0, <1>4
<1> QED
  BY <1>5, <1>6, <1>7, <1>8, <1>9


\* Every gap of the new list comes from one of the old: the gap itself, or the
\* gap the segment lies in; the order is the same.
LEMMA SplicedFrom ==
    ASSUME Apart(gaps), NEW s \in DOMAIN gaps, NEW a \in Nat, NEW z \in Nat,
           NEW r, LeftOf(r, gaps[s], a, z), NEW t, t = Splice(gaps, s, s, r)
    PROVE  /\ t \in Seq(GapType) /\ Len(t) = Len(gaps) - 1 + Len(r)
           /\ \A j \in DOMAIN t : \E i \in DOMAIN gaps :
                /\ i = IF j < s THEN j ELSE IF j < s + Len(r) THEN s ELSE j + 1 - Len(r)
                /\ i # s => t[j] = gaps[i]
                /\ i = s => j - s + 1 \in 1 .. Len(r) /\ t[j] = r[j - s + 1]
<1>1. gaps \in Seq(GapType) /\ r \in Seq(GapType) /\ s \in 1 .. Len(gaps) /\ s \in Nat
  BY DEF Apart, LeftOf
<1>2. /\ t \in Seq(GapType) /\ Len(t) = Len(gaps) - 1 + Len(r)
      /\ \A j \in 1 .. s - 1 : t[j] = gaps[j]
      /\ \A j \in 1 .. Len(r) : t[s - 1 + j] = r[j]
      /\ \A j \in s + 1 .. Len(gaps) : t[j - 1 + Len(r)] = gaps[j]
  <2>1. t = Splice(gaps, s, s, r)
    OBVIOUS
  <2>2. IsSplice(GapType, t, gaps, s, s, r)
    BY <1>1, <2>1, SpliceElements
  <2>3. s - s + 1 = 1 /\ \A j \in s + 1 .. Len(gaps) : j - (s - s + 1) = j - 1
    BY <1>1
  <2> QED
    BY <2>2, <2>3 DEF IsSplice
<1>3. Len(gaps) \in Nat /\ Len(r) \in Nat
  BY <1>1
<1>4. ASSUME NEW j \in DOMAIN t
      PROVE  \E i \in DOMAIN gaps :
                /\ i = IF j < s THEN j ELSE IF j < s + Len(r) THEN s ELSE j + 1 - Len(r)
                /\ i # s => t[j] = gaps[i]
                /\ i = s => j - s + 1 \in 1 .. Len(r) /\ t[j] = r[j - s + 1]
  <2>0. j \in 1 .. Len(t) /\ j \in Nat /\ DOMAIN gaps = 1 .. Len(gaps)
    BY <1>1, <1>2
  <2>1. CASE j < s
    BY <1>1, <1>2, <1>3, <2>0, <2>1, SMTT(60)
  <2>2. CASE ~ (j < s) /\ j < s + Len(r)
    <3>1. j - s + 1 \in 1 .. Len(r) /\ s - 1 + (j - s + 1) = j
      BY <1>1, <1>3, <2>0, <2>2
    <3>2. t[j] = r[j - s + 1]
      BY <1>2, <3>1
    <3> QED
      BY <2>2, <3>1, <3>2
  <2>3. CASE ~ (j < s) /\ ~ (j < s + Len(r))
    <3>1. /\ j + 1 - Len(r) \in s + 1 .. Len(gaps) /\ (j + 1 - Len(r)) - 1 + Len(r) = j
          /\ j + 1 - Len(r) \in 1 .. Len(gaps) /\ j + 1 - Len(r) # s
      <4> DEFINE m == Len(r)
                 n == Len(gaps)
      <4>1. /\ m \in Nat /\ n \in Nat /\ s \in 1 .. n /\ j \in 1 .. n - 1 + m
            /\ ~ (j < s + m)
        BY <1>1, <1>2, <1>3, <2>0, <2>3
      <4> HIDE DEF m, n
      <4>2. /\ j + 1 - m \in s + 1 .. n /\ (j + 1 - m) - 1 + m = j
            /\ j + 1 - m \in 1 .. n /\ j + 1 - m # s
        BY ONLY <4>1
      <4> QED
        BY <4>2 DEF m, n
    <3>2. t[j] = gaps[j + 1 - Len(r)]
      BY <1>2, <3>1
    <3> QED
      BY <2>0, <2>3, <3>1, <3>2
  <2> QED
    BY <2>1, <2>2, <2>3
<1> QED
  BY <1>2, <1>4

\* Cutting the bytes of a segment out of the gap it lies in.
LEMMA CutOut ==
    ASSUME Apart(gaps), Covers(gaps, written),
           NEW s \in DOMAIN gaps, NEW a \in Nat, NEW z \in Nat,
           a <= z, z < MAX_SIZE - 1, gaps[s].off <= a, z <= GapEnd(gaps[s]),
           NEW r, LeftOf(r, gaps[s], a, z), NEW t, t = Splice(gaps, s, s, r)
    PROVE  /\ Apart(t)
           /\ Covers(t, written \cup (a .. z))
           /\ gaps[1].off <= t[1].off
<1> DEFINE From(j) == IF j < s THEN j ELSE IF j < s + Len(r) THEN s ELSE j + 1 - Len(r)
<1>1. t \in Seq(GapType) /\ Len(t) = Len(gaps) - 1 + Len(r)
  BY SplicedFrom
<1>2. ASSUME NEW j \in DOMAIN t
      PROVE  /\ From(j) \in DOMAIN gaps
             /\ From(j) # s => t[j] = gaps[From(j)]
             /\ From(j) = s => j - s + 1 \in 1 .. Len(r) /\ t[j] = r[j - s + 1]
  BY SplicedFrom
<1>3. /\ s \in 1 .. Len(gaps) /\ s \in Nat /\ Len(gaps) \in Nat /\ DOMAIN gaps = 1 .. Len(gaps)
      /\ Len(r) \in 0 .. 2 /\ DOMAIN t = 1 .. Len(t)
  BY <1>1, GapNumbers, SMTT(60) DEF Apart, LeftOf
<1>4. ASSUME NEW i \in DOMAIN gaps
      PROVE  /\ gaps[i].off \in Nat /\ GapEnd(gaps[i]) \in Nat /\ gaps[i].off <= GapEnd(gaps[i])
             /\ GapEnd(gaps[i]) <= MAX_SIZE - 1 /\ i \in Nat
  BY GapNumbers
<1>5. ASSUME NEW j \in DOMAIN t
      PROVE  /\ t[j].off \in Nat /\ GapEnd(t[j]) \in Nat /\ t[j].off <= GapEnd(t[j])
             /\ j \in Nat
  <2>1. t[j] \in GapType /\ j \in Nat
    BY <1>1, <1>3
  <2> QED
    BY <2>1 DEF GapType, GapEnd
\* A new gap lies in the one it comes from, and not in the segment.
<1>6. ASSUME NEW j \in DOMAIN t
      PROVE  /\ gaps[From(j)].off <= t[j].off /\ GapEnd(t[j]) <= GapEnd(gaps[From(j)])
             /\ From(j) = s => GapEnd(t[j]) < a \/ z < t[j].off
  <2>1. CASE From(j) # s
    BY <1>2, <1>4, <2>1
  <2>2. CASE From(j) = s
    BY <1>2, <2>2 DEF LeftOf
  <2> QED
    BY <2>1, <2>2
<1>7. ASSUME NEW i \in DOMAIN t, NEW j \in DOMAIN t, i < j
      PROVE  GapEnd(t[i]) + 1 < t[j].off
  <2>1. From(i) < From(j) \/ (From(i) = s /\ From(j) = s /\ i = s /\ j = s + 1 /\ Len(r) = 2)
    <3> DEFINE m == Len(r)
    <3>1. m \in 0 .. 2 /\ i \in Nat /\ j \in Nat /\ s \in Nat /\ i < j
      BY <1>3, <1>5, <1>7
    <3>2. From(j) = IF j < s THEN j ELSE IF j < s + m THEN s ELSE j + 1 - m
      OBVIOUS
    <3>3. From(i) = IF i < s THEN i ELSE IF i < s + m THEN s ELSE i + 1 - m
      OBVIOUS
    <3> HIDE DEF m, From
    <3>4. From(i) < From(j) \/ (From(i) = s /\ From(j) = s /\ i = s /\ j = s + 1 /\ m = 2)
      BY ONLY <3>1, <3>2, <3>3
    <3> QED
      BY <3>4 DEF m
  <2>2. CASE From(i) < From(j)
    <3> HIDE DEF From
    <3>1. GapEnd(gaps[From(i)]) + 1 < gaps[From(j)].off
      BY <1>2, <2>2 DEF Apart
    <3>2. From(i) \in DOMAIN gaps /\ From(j) \in DOMAIN gaps
      BY <1>2
    <3>3. GapEnd(t[i]) <= GapEnd(gaps[From(i)]) /\ gaps[From(j)].off <= t[j].off
      BY <1>6
    <3> QED
      BY <1>4, <1>5, <3>1, <3>2, <3>3
  <2>3. CASE From(i) = s /\ From(j) = s /\ i = s /\ j = s + 1 /\ Len(r) = 2
    <3>1. t[i] = r[1] /\ t[j] = r[2]
      <4>1. i - s + 1 = 1 /\ j - s + 1 = 2
        BY <1>3, <2>3
      <4> QED
        BY <1>2, <2>3, <4>1
    <3> QED
      BY <2>3, <3>1 DEF LeftOf
  <2> QED
    BY <2>1, <2>2, <2>3
<1>8. Len(t) # 0 /\ GapEnd(t[Len(t)]) = MAX_SIZE - 1
  <2>0. GapEnd(gaps[Len(gaps)]) = MAX_SIZE - 1 /\ MAX_SIZE - 1 \in Nat
    BY SizesAssumption DEF Apart
  <2>1. CASE s = Len(gaps)
    <3>1. z < GapEnd(gaps[s])
      BY <2>0, <2>1
    <3>2. Len(r) # 0 /\ GapEnd(r[Len(r)]) = MAX_SIZE - 1
      BY <2>0, <2>1, <3>1 DEF LeftOf
    <3>3. /\ Len(t) # 0 /\ Len(t) \in DOMAIN t /\ Len(t) - s + 1 = Len(r)
          /\ From(Len(t)) = s
      BY <1>1, <1>3, <2>1, <3>2
    <3> HIDE DEF From
    <3>4. t[Len(t)] = r[Len(r)]
      BY <1>2, <3>3
    <3> QED
      BY <3>2, <3>3, <3>4
  <2>2. CASE s # Len(gaps)
    <3>1. Len(t) # 0 /\ Len(t) \in DOMAIN t /\ From(Len(t)) = Len(gaps)
      BY <1>1, <1>3, <2>2
    <3> HIDE DEF From
    <3>2. t[Len(t)] = gaps[Len(gaps)]
      BY <1>2, <2>2, <3>1
    <3> QED
      BY <2>0, <3>1, <3>2
  <2> QED
    BY <2>1, <2>2
<1>9. Apart(t)
  BY <1>1, <1>7, <1>8 DEF Apart
<1>10. gaps[1].off <= t[1].off
  <2>1. 1 \in DOMAIN t /\ 1 \in DOMAIN gaps
    BY <1>1, <1>3, <1>8
  <2>2. gaps[From(1)].off <= t[1].off /\ From(1) \in DOMAIN gaps
    BY <1>2, <1>6, <2>1
  <2>3. gaps[1].off <= gaps[From(1)].off
    <3> HIDE DEF From
    <3>1. CASE From(1) = 1
      BY <1>4, <2>1, <3>1
    <3>2. CASE From(1) # 1
      <4>1. 1 < From(1)
        BY <1>3, <2>2, <3>2
      <4>2. GapEnd(gaps[1]) + 1 < gaps[From(1)].off
        BY <2>1, <2>2, <4>1 DEF Apart
      <4> QED
        BY <1>4, <2>1, <2>2, <4>2
    <3> QED
      BY <3>1, <3>2
  <2> HIDE DEF From
  <2> QED
    BY <1>4, <1>5, <2>1, <2>2, <2>3
\* A byte in an old gap that is not in the segment is in a new gap.
<1>11. ASSUME NEW o \in Bytes, NEW i \in DOMAIN gaps, In(o, gaps[i]), o \notin a .. z
       PROVE  \E j \in DOMAIN t : In(o, t[j])
  <2>0. o \in Nat
    BY DEF Bytes
  <2>1. CASE i = s
    <3>1. o < a \/ z < o
      BY <1>11, <2>0
    <3>2. PICK k \in 1 .. Len(r) : In(o, r[k])
      BY <1>11, <2>0, <2>1, <3>1 DEF LeftOf
    <3> DEFINE j == s - 1 + k
    <3>3. j \in DOMAIN t /\ From(j) = s /\ j - s + 1 = k
      BY <1>1, <1>3, SMTT(60)
    <3> HIDE DEF j, From
    <3>4. t[j] = r[k]
      BY <1>2, <3>3
    <3> QED
      BY <3>2, <3>3, <3>4
  <2>2. CASE i # s
    <3> DEFINE j == IF i < s THEN i ELSE i - 1 + Len(r)
    <3>1. j \in DOMAIN t /\ From(j) = i
      <4> DEFINE m == Len(r)
                 n == Len(gaps)
      <4>1. /\ m \in 0 .. 2 /\ i \in 1 .. n /\ n \in Nat /\ s \in 1 .. n /\ i # s
            /\ DOMAIN t = 1 .. n - 1 + m
        BY <1>1, <1>3, <1>4, <2>2
      <4>2. j = IF i < s THEN i ELSE i - 1 + m
        OBVIOUS
      <4>3. From(j) = IF j < s THEN j ELSE IF j < s + m THEN s ELSE j + 1 - m
        OBVIOUS
      <4> HIDE DEF m, n, From, j
      <4>4. j \in 1 .. n - 1 + m /\ From(j) = i
        BY ONLY <4>1, <4>2, <4>3
      <4> QED
        BY <4>1, <4>4
    <3> HIDE DEF j, From
    <3>2. t[j] = gaps[i]
      BY <1>2, <2>2, <3>1
    <3> QED
      BY <1>11, <3>1, <3>2
  <2> QED
    BY <2>1, <2>2
\* A byte in a new gap is in an old gap and not in the segment.
<1>12. ASSUME NEW o \in Bytes, NEW j \in DOMAIN t, In(o, t[j])
       PROVE  (\E i \in DOMAIN gaps : In(o, gaps[i])) /\ o \notin a .. z
  <2>0. o \in Nat
    BY DEF Bytes
  <2> HIDE DEF From
  <2>1. /\ From(j) \in DOMAIN gaps
        /\ gaps[From(j)].off <= t[j].off /\ GapEnd(t[j]) <= GapEnd(gaps[From(j)])
    BY <1>2, <1>6
  <2>2. In(o, gaps[From(j)])
    BY <1>4, <1>5, <1>12, <2>0, <2>1 DEF In
  <2>3. o \notin a .. z
    <3>1. CASE From(j) = s
      BY <1>5, <1>6, <1>12, <2>0, <3>1 DEF In
    <3>2. CASE From(j) # s
      <4>1. GapEnd(gaps[From(j)]) + 1 < gaps[s].off \/ GapEnd(gaps[s]) + 1 < gaps[From(j)].off
        <5>1. From(j) < s \/ s < From(j)
          BY <1>3, <2>1, <3>2
        <5> QED
          BY <2>1, <5>1 DEF Apart
      <4> QED
        BY <1>4, <2>0, <2>1, <2>2, <4>1 DEF In
    <3> QED
      BY <3>1, <3>2
  <2> QED
    BY <2>1, <2>2, <2>3
<1>13. Covers(t, written \cup (a .. z))
  <2>1. ASSUME NEW o \in Bytes, o \notin written \cup (a .. z)
        PROVE  \E j \in DOMAIN t : In(o, t[j])
    <3>1. PICK i \in DOMAIN gaps : In(o, gaps[i])
      BY <2>1 DEF Covers
    <3> QED
      BY <1>11, <2>1, <3>1
  <2>2. ASSUME NEW o \in Bytes, NEW j \in DOMAIN t, In(o, t[j])
        PROVE  o \notin written \cup (a .. z)
    <3>1. (\E i \in DOMAIN gaps : In(o, gaps[i])) /\ o \notin a .. z
      BY <1>12, <2>2
    <3> QED
      BY <3>1 DEF Covers
  <2> QED
    BY <2>1, <2>2 DEF Covers
<1> QED
  BY <1>9, <1>10, <1>13


\* Bytes that are stored are held, as are those that were.
LEMMA StoredIsHeld ==
    ASSUME NEW bytes \in SUBSET Nat, clusters' = Stored(bytes), written' = written \cup bytes,
           readed_size' = readed_size, readed_size \in Nat, Clustered
    PROVE  Clustered'
<1> DEFINE c == CLUSTER_SIZE
<1>0. c \in Nat \ {0}
  BY SizesAssumption
<1>1. /\ DOMAIN clusters' = DOMAIN clusters \cup {o \div c : o \in bytes}
      /\ \A k \in DOMAIN clusters' : clusters'[k] =
            {o \in bytes : o \div c = k} \cup (IF k \in DOMAIN clusters THEN clusters[k] ELSE {})
  BY DEF Stored
<1>2. ASSUME NEW k \in DOMAIN clusters' PROVE k \in Nat
  BY <1>0, <1>1, Division DEF Clustered
<1>3. ASSUME NEW k \in DOMAIN clusters', NEW o \in clusters'[k]
      PROVE  o \in k * c .. (k + 1) * c - 1
  <2>1. CASE o \in bytes /\ o \div c = k
    <3>1. k * c <= o /\ o < (k + 1) * c /\ o \in Nat
      BY <1>0, <2>1, Division
    <3>2. k * c \in Int /\ (k + 1) * c \in Int
      BY <1>0, <1>2
    <3> DEFINE l == k * c
               u == (k + 1) * c
    <3> HIDE DEF l, u, c
    <3>3. o \in l .. u - 1
      <4>1. l <= o /\ o < u /\ o \in Nat /\ l \in Int /\ u \in Int
        BY <3>1, <3>2 DEF l, u
      <4> QED
        BY ONLY <4>1
    <3> QED
      BY <3>3 DEF l, u
  <2>2. CASE k \in DOMAIN clusters /\ o \in clusters[k]
    BY <2>2 DEF Clustered
  <2> QED
    BY <1>1, <1>3, <2>1, <2>2
<1>4. ASSUME NEW o \in written', readed_size' <= o PROVE o \in Held'
  <2>1. CASE o \in bytes
    <3>1. o \div c \in DOMAIN clusters' /\ o \in clusters'[o \div c]
      BY <1>1, <2>1, ZenonT(60)
    <3> QED
      BY <3>1 DEF Held
  <2>2. CASE o \in written
    <3>1. PICK k \in DOMAIN clusters : o \in clusters[k]
      BY <1>4, <2>2 DEF Clustered, Held
    <3>2. k \in DOMAIN clusters' /\ o \in clusters'[k]
      BY <1>1, <3>1
    <3> QED
      BY <3>2 DEF Held
  <2> QED
    BY <2>1, <2>2
<1> QED
  BY <1>2, <1>3, <1>4 DEF Clustered

\* A segment that arrives for the first time, or again, keeps the invariant.
LEMMA SoundWrite ==
    ASSUME segments \in Segmentations, NeverRecuts, Sound,
           NEW seg \in segments, Write(seg.off, seg.len)
    PROVE  Sound'
<1> DEFINE a == seg.off
           z == seg.off + seg.len - 1
           s == StartGap(a, z)
<1>1. seg.len > 0 /\ written' = written \cup (a .. z) /\ UNCHANGED <<segments, readed_size>>
  BY DEF Write
<1>2. /\ a \in Nat /\ z \in Nat /\ a <= z /\ z < MAX_SIZE - 1 /\ z = GapEnd(seg)
      /\ a .. z \subseteq Bytes /\ MAX_SIZE - 1 \in Nat
  BY <1>1, SegmentNumbers, SizesAssumption, SMTT(60)
<1>3. /\ IF z < gaps[s].off
         THEN UNCHANGED <<gaps, clusters, avail_size>>
         ELSE LET e     == EndGap(s, z)
                  start == IF a < gaps[s].off THEN gaps[s].off ELSE a
                  end   == IF z > GapEnd(gaps[e]) THEN GapEnd(gaps[e]) ELSE z
              IN  /\ gaps' = SubSeq(gaps, 1, s - 1) \o Remains(s, e, start, end)
                                \o SubSeq(gaps, e + 1, Len(gaps))
                  /\ clusters' = Stored(start .. end)
                  /\ avail_size' = gaps'[1].off
  BY DEF Write
<1>4. (a .. z \subseteq written) \/ ((a .. z) \cap written = {})
  BY <1>2 DEF Sound, Whole
<1>5. Whole(written)'
  <2>1. ASSUME NEW other \in segments, other # seg
        PROVE  (other.off .. GapEnd(other)) \cap (a .. z) = {}
    <3>1. z < other.off \/ GapEnd(other) < a
      BY <1>2, <2>1 DEF NeverRecuts, OneCut
    <3>2. other.off \in Nat /\ other.len \in Nat /\ GapEnd(other) \in Int
      <4>1. other \in [off : Nat, len : Nat]
        BY SegmentsAssumption
      <4> QED
        BY <4>1 DEF GapEnd
    <3> QED
      BY <1>2, <3>1, <3>2
  <2>2. ASSUME NEW other \in segments
        PROVE  \/ other.off .. GapEnd(other) \subseteq written \cup (a .. z)
               \/ (other.off .. GapEnd(other)) \cap (written \cup (a .. z)) = {}
    <3>1. CASE other = seg
      BY <1>2, <3>1
    <3>2. CASE other # seg
      BY <2>1, <3>2 DEF Sound, Whole
    <3> QED
      BY <3>1, <3>2
  <2> QED
    BY <1>1, <2>2 DEF Whole
<1> HIDE DEF a, z, s
<1>6. CASE a .. z \subseteq written
  <2>1. z < gaps[s].off
    BY <1>2, <1>6, OldSegment DEF Sound, s
  <2>2. UNCHANGED <<gaps, clusters, avail_size>> /\ written' = written
    BY <1>1, <1>3, <1>6, <2>1
  <2> QED
    BY <1>1, <1>5, <2>2 DEF Sound, Clustered, Held
<1>7. CASE (a .. z) \cap written = {}
  <2>1. s \in DOMAIN gaps /\ EndGap(s, z) = s /\ gaps[s].off <= a /\ z <= GapEnd(gaps[s])
    BY <1>2, <1>7, NewSegment DEF Sound, s
  <2>2. gaps[s].off \in Nat /\ GapEnd(gaps[s]) \in Nat
    BY <2>1, GapNumbers DEF Sound
  <2>3. ~ (z < gaps[s].off) /\ ~ (a < gaps[s].off) /\ ~ (z > GapEnd(gaps[s]))
    BY <1>2, <2>1, <2>2
  <2>4. /\ gaps' = Splice(gaps, s, s, Remains(s, s, a, z))
        /\ clusters' = Stored(a .. z)
        /\ avail_size' = gaps'[1].off
    BY <1>3, <2>1, <2>3 DEF Splice
  <2>5. LeftOf(Remains(s, s, a, z), gaps[s], a, z)
    BY <1>2, <2>1, RemainsOfOne DEF Sound
  <2>6. Apart(gaps') /\ Covers(gaps', written \cup (a .. z)) /\ gaps[1].off <= gaps'[1].off
    BY <1>2, <2>1, <2>4, <2>5, CutOut DEF Sound
  <2>7. Clustered'
    <3>1. a .. z \in SUBSET Nat
      BY <1>2
    <3> QED
      BY <1>1, <2>4, <3>1, StoredIsHeld DEF Sound
  <2>8. readed_size' \in Nat /\ readed_size' <= avail_size'
    <3>1. 1 \in DOMAIN gaps /\ 1 \in DOMAIN gaps'
      BY <2>6 DEF Sound, Apart
    <3>2. gaps[1].off \in Nat /\ gaps'[1].off \in Nat
      BY <2>6, <3>1, GapNumbers DEF Sound
    <3>3. readed_size \in Nat /\ readed_size <= gaps[1].off
      BY DEF Sound
    <3> QED
      BY <1>1, <2>4, <2>6, <3>2, <3>3
  <2>9. (written \subseteq Bytes)'
    BY <1>1, <1>2 DEF Sound, Bytes
  <2>10. Apart(gaps)' /\ Covers(gaps, written)'
    BY <1>1, <2>6 DEF Apart, Covers, GapEnd, GapType, In, Bytes
  <2> QED
    BY <1>5, <2>4, <2>7, <2>8, <2>9, <2>10 DEF Sound
<1> QED
  BY <1>4, <1>6, <1>7

-----------------------------------------------------------------------------
(***************************************************************************)
(* Reading.                                                                *)
(***************************************************************************)

\* What is below avail_size has arrived.
LEMMA PrefixArrived ==
    ASSUME Sound
    PROVE  /\ avail_size \in Bytes /\ avail_size \notin written
           /\ 0 .. avail_size - 1 \subseteq written
<1>1. 1 \in DOMAIN gaps
  BY DEF Sound, Apart
<1>2. /\ avail_size = gaps[1].off /\ gaps[1].off \in Nat
      /\ gaps[1].off <= GapEnd(gaps[1]) /\ GapEnd(gaps[1]) \in Nat
      /\ GapEnd(gaps[1]) <= MAX_SIZE - 1 /\ MAX_SIZE \in Nat
  BY <1>1, GapNumbers, SizesAssumption DEF Sound
<1>3. avail_size \in Bytes /\ In(avail_size, gaps[1])
  BY <1>2 DEF Bytes, In
<1>4. avail_size \notin written
  BY <1>1, <1>3 DEF Sound, Covers
<1>5. ASSUME NEW o \in 0 .. avail_size - 1 PROVE o \in written
  <2>1. o \in Bytes /\ o \in Nat /\ o < gaps[1].off
    BY <1>2 DEF Bytes
  <2>2. ASSUME NEW i \in DOMAIN gaps, In(o, gaps[i]) PROVE FALSE
    <3>1. gaps[i].off \in Nat /\ i \in Nat /\ i \in 1 .. Len(gaps)
      BY GapNumbers DEF Sound
    <3>2. CASE i = 1
      BY <1>2, <2>1, <2>2, <3>2 DEF In
    <3>3. CASE i # 1
      <4>1. 1 < i
        BY <3>1, <3>3
      <4>2. GapEnd(gaps[1]) + 1 < gaps[i].off
        BY <1>1, <4>1 DEF Sound, Apart
      <4> QED
        BY <1>2, <2>1, <2>2, <3>1, <4>2 DEF In
    <3> QED
      BY <3>2, <3>3
  <2> QED
    BY <2>1, <2>2 DEF Sound, Covers
<1> QED
  BY <1>3, <1>4, <1>5

\* A held byte is in the cluster of its offset.
LEMMA HeldInItsCluster ==
    ASSUME Clustered, NEW o \in Nat, o \in Held
    PROVE  o \div CLUSTER_SIZE \in DOMAIN clusters
<1>1. PICK k \in DOMAIN clusters : o \in clusters[k]
  BY DEF Held
<1>2. k \in Nat /\ o \in k * CLUSTER_SIZE .. (k + 1) * CLUSTER_SIZE - 1
  BY <1>1 DEF Clustered
<1>3. CLUSTER_SIZE \in Nat \ {0}
  BY SizesAssumption
<1>4. k * CLUSTER_SIZE <= o /\ o < (k + 1) * CLUSTER_SIZE
  BY <1>2, <1>3
<1>5. o \div CLUSTER_SIZE = k
  BY <1>2, <1>3, <1>4, DivisionUnique
<1> QED
  BY <1>1, <1>5

\* A read is given what it asks for, as far as it is readable.
LEMMA ReadIsFull ==
    ASSUME Sound, NEW len \in ReadLens
    PROVE  \E to \in Nat :
                /\ to = ReadTo(IF Readable < len THEN Readable ELSE len)
                /\ readed_size <= to /\ to <= avail_size
<1>1. readed_size \in Nat /\ avail_size \in Nat /\ readed_size <= avail_size
      /\ avail_size < MAX_SIZE /\ MAX_SIZE \in Nat /\ len \in Nat
  BY PrefixArrived, SizesAssumption DEF Sound, Bytes
<1>2. Readable = avail_size - readed_size
  <2>1. Word \in Nat /\ avail_size - readed_size \in Nat /\ avail_size - readed_size < Word
    BY <1>1 DEF Word
  <2> HIDE DEF Word
  <2> DEFINE x == avail_size - readed_size
  <2> HIDE DEF x
  <2>2. x % Word = x
    BY <2>1, SmallRemainder DEF x
  <2> QED
    BY <2>2 DEF Readable, x
<1> DEFINE n == IF Readable < len THEN Readable ELSE len
<1>3. n \in Nat /\ readed_size + n <= avail_size
  BY <1>1, <1>2
<1> HIDE DEF n
<1>4. ASSUME NEW o \in readed_size .. readed_size + n - 1
      PROVE  o \div CLUSTER_SIZE \in DOMAIN clusters
  <2>1. o \in Nat /\ readed_size <= o /\ o \in 0 .. avail_size - 1
    BY <1>1, <1>3
  <2>2. o \in Held
    BY <2>1, PrefixArrived DEF Sound, Clustered
  <2> QED
    BY <2>1, <2>2, HeldInItsCluster DEF Sound
<1>5. ReadTo(n) = readed_size + n
  BY <1>4 DEF ReadTo
<1> QED
  BY <1>1, <1>3, <1>5 DEF n

\* Reading frees only clusters that are behind the reader.
LEMMA SoundRead ==
    ASSUME Sound, NEW len \in ReadLens, Read(len)
    PROVE  Sound' /\ readed_size <= readed_size' /\ readed_size' <= avail_size
<1>1. PICK to \in Nat :
                /\ to = ReadTo(IF Readable < len THEN Readable ELSE len)
                /\ readed_size <= to /\ to <= avail_size
  BY ReadIsFull
<1>2. /\ readed_size' = to
      /\ clusters' = [k \in DOMAIN clusters \ Consumed(to) |-> clusters[k]]
      /\ UNCHANGED <<segments, gaps, avail_size, written>>
  BY <1>1 DEF Read
<1>3. readed_size \in Nat
  BY DEF Sound
<1>4. ASSUME NEW o \in written, to <= o PROVE o \in Held'
  <2>1. o \in Nat
    BY DEF Sound, Bytes
  <2>2. PICK k \in DOMAIN clusters : o \in clusters[k]
    BY <1>1, <1>3, <1>4, <2>1 DEF Sound, Clustered, Held
  <2>3. o \in k * CLUSTER_SIZE .. (k + 1) * CLUSTER_SIZE - 1 /\ k \in Nat
    BY <2>2 DEF Sound, Clustered
  <2>4. k \notin Consumed(to)
    <3> DEFINE u == (k + 1) * CLUSTER_SIZE
    <3>1. u \in Nat
      BY <2>3, SizesAssumption
    <3>2. o <= u - 1
      BY <2>3
    <3> HIDE DEF u
    <3>3. u > to
      BY <1>1, <1>4, <2>1, <3>1, <3>2
    <3>4. u \notin readed_size + 1 .. to
      BY <1>3, <3>1, <3>3
    <3> QED
      BY <3>4 DEF Consumed, u
  <2>5. k \in DOMAIN clusters' /\ o \in clusters'[k]
    BY <1>2, <2>2, <2>4
  <2> QED
    BY <2>5 DEF Held
<1>5. Clustered'
  <2>1. \A k \in DOMAIN clusters' : k \in DOMAIN clusters /\ clusters'[k] = clusters[k]
    BY <1>2
  <2> QED
    BY <1>2, <1>4, <2>1 DEF Sound, Clustered
<1>6. (written \subseteq Bytes)' /\ Apart(gaps)' /\ Covers(gaps, written)' /\ Whole(written)'
  BY <1>2 DEF Sound, Apart, Covers, GapEnd, GapType, In, Bytes, Whole
<1> QED
  BY <1>1, <1>2, <1>5, <1>6 DEF Sound

-----------------------------------------------------------------------------
(***************************************************************************)
(* The theorems.                                                           *)
(***************************************************************************)

\* No step changes how the peer cuts the stream.
LEMMA CutStays ==
    ASSUME [Next]_vars
    PROVE  segments' = segments /\ NeverRecuts' = NeverRecuts
<1>1. segments' = segments
  BY DEF Next, Write, Read, vars
<1> QED
  BY <1>1 DEF NeverRecuts, OneCut

\* Every step of the sorter keeps the invariant.
LEMMA NextIInv == IInv /\ [Next]_vars => IInv'
<1> SUFFICES ASSUME IInv, [Next]_vars, NeverRecuts PROVE Sound'
  BY CutStays DEF IInv
<1>1. segments \in Segmentations /\ Sound
  BY DEF IInv
<1>2. CASE \E seg \in segments : Write(seg.off, seg.len)
  BY <1>1, <1>2, SoundWrite
<1>3. CASE \E len \in ReadLens : Read(len)
  BY <1>1, <1>3, SoundRead
<1>4. CASE UNCHANGED vars
  BY <1>1, <1>4 DEF vars, Sound, Covers, Whole, Clustered, Held
<1> QED
  BY <1>2, <1>3, <1>4 DEF Next

\* The inductive invariant holds.
THEOREM Invariance == Spec => []IInv
  BY InitIInv, NextIInv, PTL DEF Spec

\* What the gaps cover is what they leave out of the stream.
LEMMA MissingIsCovered ==
    ASSUME Sound
    PROVE  Missing = Bytes \ written
<1>1. ASSUME NEW o \in Missing PROVE o \in Bytes \ written
  <2>1. PICK i \in DOMAIN gaps : o \in gaps[i].off .. GapEnd(gaps[i])
    BY <1>1 DEF Missing
  <2>2. /\ gaps[i].off \in Nat /\ GapEnd(gaps[i]) \in Nat /\ GapEnd(gaps[i]) <= MAX_SIZE - 1
    BY <2>1, GapNumbers DEF Sound
  <2>3. o \in Bytes /\ In(o, gaps[i])
    BY <2>1, <2>2, SizesAssumption DEF Bytes, In
  <2> QED
    BY <2>3 DEF Sound, Covers
<1>2. ASSUME NEW o \in Bytes \ written PROVE o \in Missing
  <2>1. PICK i \in DOMAIN gaps : In(o, gaps[i])
    BY <1>2 DEF Sound, Covers
  <2>2. gaps[i].off \in Nat /\ GapEnd(gaps[i]) \in Nat
    BY <2>1, GapNumbers DEF Sound
  <2>3. o \in gaps[i].off .. GapEnd(gaps[i])
    BY <2>1, <2>2, SizesAssumption DEF Bytes, In
  <2> QED
    BY <2>3 DEF Missing
<1> QED
  BY <1>1, <1>2

\* The sorter's variables keep their types.
LEMMA SoundTypes ==
    ASSUME Sound, segments \in Segmentations
    PROVE  TypeOK
<1>1. gaps \in Seq([off : Bytes, len : 1 .. MAX_SIZE])
  <2>1. ASSUME NEW i \in 1 .. Len(gaps) PROVE gaps[i] \in [off : Bytes, len : 1 .. MAX_SIZE]
    <3>1. i \in DOMAIN gaps /\ gaps[i] \in GapType
      BY DEF Sound, Apart
    <3>2. /\ gaps[i].off \in Nat /\ gaps[i].len \in Nat \ {0}
          /\ GapEnd(gaps[i]) \in Nat /\ GapEnd(gaps[i]) <= MAX_SIZE - 1
      BY <3>1, GapNumbers DEF Sound
    <3>3. gaps[i].off \in Bytes /\ gaps[i].len \in 1 .. MAX_SIZE
      BY <3>2, SizesAssumption, SMTT(60) DEF GapEnd, Bytes
    <3> QED
      BY <3>1, <3>3 DEF GapType
  <2> DEFINE T == [off : Bytes, len : 1 .. MAX_SIZE]
  <2>2. gaps \in Seq(GapType)
    BY DEF Sound, Apart
  <2>3. \A i \in 1 .. Len(gaps) : gaps[i] \in T
    BY <2>1
  <2> HIDE DEF T
  <2>4. gaps \in Seq(T)
    BY ONLY <2>2, <2>3
  <2> QED
    BY <2>4 DEF T
<1>2. avail_size \in Bytes /\ readed_size \in Bytes
  BY PrefixArrived, SizesAssumption DEF Sound, Bytes
<1> QED
  BY <1>1, <1>2 DEF TypeOK, Sound, Clustered

\* readable never underflows and never promises a byte that has not arrived.
THEOREM ReadableHasArrived == Spec => []AvailIsThePrefix
<1>1. IInv => AvailIsThePrefix
  BY SoundTypes, PrefixArrived DEF IInv, AvailIsThePrefix, Sound
<1> QED
  BY <1>1, Invariance, PTL

\* quic_sorter_read frees no cluster that holds an unread byte, so a read of
\* readable bytes never stops short.
THEOREM ReadableStaysHeld == Spec => []ReadableIsHeld
<1>1. ASSUME Sound PROVE readed_size .. avail_size - 1 \subseteq Held
  <2>1. ASSUME NEW o \in readed_size .. avail_size - 1 PROVE o \in Held
    <3>1. readed_size \in Nat /\ avail_size \in Nat
      BY <1>1, PrefixArrived DEF Sound, Bytes
    <3>2. o \in 0 .. avail_size - 1 /\ readed_size <= o
      BY <2>1, <3>1
    <3> QED
      BY <1>1, <3>2, PrefixArrived DEF Sound, Clustered
  <2> QED
    BY <2>1
<1>2. IInv => ReadableIsHeld
  BY <1>1 DEF IInv, ReadableIsHeld
<1> QED
  BY <1>2, Invariance, PTL

\* A range within a prefix.
LEMMA Shorter ==
    ASSUME NEW r \in Nat, NEW to \in Nat, NEW n \in Nat, to <= n
    PROVE  r .. to - 1 \subseteq 0 .. n - 1
  OBVIOUS

\* What a reader of a peer that never recuts was given, the stream's read.
Given == IF NeverRecuts THEN readed_size ELSE 0

\* A write is an arrival, a read a delivery.
LEMMA StepsAreTheStreams ==
    ASSUME IInv, [Next]_vars
    PROVE  [Stream!Arrive \/ Stream!Deliver]_<<written, Given>>
<1>0. NeverRecuts' = NeverRecuts
  BY CutStays
<1>1. CASE \E seg \in segments : Write(seg.off, seg.len)
  BY <1>0, <1>1 DEF Write, Stream!Arrive
<1>2. CASE NeverRecuts /\ \E len \in ReadLens : Read(len)
  <2>1. readed_size <= readed_size' /\ readed_size' <= avail_size /\ written' = written
    BY <1>2, SoundRead DEF IInv, Read
  <2>2. readed_size \in Nat /\ readed_size' \in Nat /\ avail_size \in Nat
    BY <1>2, SoundRead, PrefixArrived DEF IInv, Sound, Bytes
  <2>3. readed_size .. readed_size' - 1 \subseteq 0 .. avail_size - 1
    BY <2>1, <2>2, Shorter
  <2>4. 0 .. avail_size - 1 \subseteq written
    BY <1>2, PrefixArrived DEF IInv
  <2> QED
    BY <1>0, <1>2, <2>1, <2>3, <2>4 DEF Stream!Deliver
<1>3. CASE ~NeverRecuts /\ \E len \in ReadLens : Read(len)
  BY <1>0, <1>3 DEF Read, Given
<1>4. CASE UNCHANGED vars
  BY <1>0, <1>4 DEF vars, Given
<1> QED
  BY <1>1, <1>2, <1>3, <1>4 DEF Next

\* The sorter implements a byte stream: the reader of a peer that never recuts
\* gets the bytes in order, each once, none before it has arrived.
THEOREM SorterImplementsByteStream == Spec => ImplementsByteStream
<1>1. Init => Stream!Init
  BY DEF Init, Stream!Init
<1>2. IInv /\ [Next]_vars => [Stream!Arrive \/ Stream!Deliver]_<<written, Given>>
  BY StepsAreTheStreams
<1> QED
  BY <1>1, <1>2, Invariance, PTL DEF Spec, ImplementsByteStream, Stream!Spec, Given

-----------------------------------------------------------------------------
(***************************************************************************)
(* A peer that recuts: the gaps overlap and lose their order, but each     *)
(* missing byte lies in a gap that comes after no gap above the byte.      *)
(***************************************************************************)

\* The byte o lies in the j-th gap, and no gap before that one starts above o.
SeenIn(list, j, o) ==
    /\ In(o, list[j])
    /\ \A i \in DOMAIN list : i < j => list[i].off <= o

\* Every byte that has not arrived is seen in some gap.
Sighted(list, arrived) ==
    \A o \in Bytes \ arrived : \E j \in DOMAIN list : SeenIn(list, j, o)

\* The invariant whatever the cuts: the last byte of the 2^63 never arrives.
RecutInv ==
    /\ segments \in Segmentations
    /\ written \subseteq 0 .. MAX_SIZE - 2
    /\ gaps \in Seq(GapType)
    /\ Len(gaps) # 0
    /\ avail_size = gaps[1].off
    /\ Sighted(gaps, written)

\* At first the one gap shows every byte.
LEMMA InitRecutInv == Init => RecutInv
<1> SUFFICES ASSUME Init PROVE RecutInv
  OBVIOUS
<1>1. MAX_SIZE \in Nat \ {0}
  BY SizesAssumption
<1>2. gaps = <<Gap(0, MAX_SIZE)>> /\ Gap(0, MAX_SIZE) = [off |-> 0, len |-> MAX_SIZE]
  BY DEF Init, Gap
<1>3. Len(gaps) = 1 /\ gaps[1].off = 0 /\ gaps[1].len = MAX_SIZE /\ gaps \in Seq(GapType)
  BY <1>1, <1>2 DEF GapType
<1>4. Sighted(gaps, written)
  <2>1. ASSUME NEW o \in Bytes PROVE SeenIn(gaps, 1, o)
    BY <1>1, <1>3 DEF SeenIn, In, GapEnd, Bytes
  <2> QED
    BY <1>3, <2>1 DEF Sighted
<1> QED
  BY <1>3, <1>4 DEF RecutInv, Init

\* Among the gaps r that remain, one has the byte o and none before it is above o.
StaysInSight(r, o) ==
    \E k \in 1 .. Len(r) :
        In(o, r[k]) /\ \A i \in 1 .. k - 1 : r[i].off <= o

\* s and e are the start_gap and the end_gap that the segment a .. z meets.
Meets(s, e, a, z) ==
    /\ gaps \in Seq(GapType)
    /\ s \in DOMAIN gaps /\ e \in DOMAIN gaps /\ s <= e
    /\ a \in Nat /\ z \in Nat /\ a <= z
    /\ a <= GapEnd(gaps[s]) /\ gaps[s].off <= z /\ gaps[e].off <= z
    /\ s # e => GapEnd(gaps[s]) < z
    /\ \A i \in s .. e - 1 : GapEnd(gaps[i]) < z

\* The first byte of the segment, clipped to start_gap.
ClippedStart(s, a) == IF a < gaps[s].off THEN gaps[s].off ELSE a
\* The last byte of the segment, clipped to end_gap.
ClippedEnd(e, z) == IF z > GapEnd(gaps[e]) THEN GapEnd(gaps[e]) ELSE z

\* The numbers of a list of gaps.
LEMMA GapIs ==
    ASSUME gaps \in Seq(GapType), NEW i \in DOMAIN gaps
    PROVE  /\ gaps[i].off \in Nat /\ gaps[i].len \in Nat \ {0}
           /\ GapEnd(gaps[i]) = gaps[i].off + gaps[i].len - 1
           /\ GapEnd(gaps[i]) \in Nat /\ gaps[i].off <= GapEnd(gaps[i])
<1>1. gaps[i] \in GapType
  OBVIOUS
<1> QED
  BY <1>1 DEF GapType, GapEnd

\* Both walks end: the last byte never arrives, so a gap goes on to it.
LEMMA WalksEnd ==
    ASSUME RecutInv, NEW a \in Nat, NEW z \in Nat, a <= z, z < MAX_SIZE - 1,
           NEW s, s = StartGap(a, z)
    PROVE  /\ s \in DOMAIN gaps
           /\ ~ (z < gaps[s].off) => Meets(s, EndGap(s, z), a, z)
<1> DEFINE P == {i \in DOMAIN gaps : a <= GapEnd(gaps[i]) \/ z < gaps[i].off}
           m == MAX_SIZE - 1
<1>1. gaps \in Seq(GapType) /\ DOMAIN gaps = 1 .. Len(gaps) /\ Len(gaps) \in Nat
  BY DEF RecutInv
<1>2. m \in Nat /\ m \in Bytes \ written
  BY SizesAssumption DEF RecutInv, Bytes
<1>3. PICK l \in DOMAIN gaps : In(m, gaps[l])
  BY <1>2 DEF RecutInv, Sighted, SeenIn
<1>4. l \in Nat /\ GapEnd(gaps[l]) \in Nat /\ z < GapEnd(gaps[l]) /\ a <= GapEnd(gaps[l])
  BY <1>1, <1>2, <1>3, GapIs DEF In
<1>5. l \in P /\ P \in SUBSET Nat
  BY <1>1, <1>3, <1>4
<1>6. s = Min(P)
  BY DEF StartGap
<1>7. s \in P /\ \A i \in P : s <= i
  BY <1>5, <1>6, MinOfNats
<1>8. s \in DOMAIN gaps /\ s \in 1 .. Len(gaps) /\ s <= l
  BY <1>1, <1>5, <1>7
<1> HIDE DEF P, m
<1>9. ASSUME ~ (z < gaps[s].off) PROVE Meets(s, EndGap(s, z), a, z)
  <2> DEFINE Q == {i \in s .. Len(gaps) : \/ z <= GapEnd(gaps[i])
                                          \/ i < Len(gaps) /\ z < gaps[i + 1].off}
             e == EndGap(s, z)
  <2>1. l \in Q /\ Q \in SUBSET Nat
    BY <1>1, <1>4, <1>8, <1>3
  <2>2. e = Min(Q)
    BY DEF EndGap
  <2>3. e \in Q /\ \A i \in Q : e <= i
    BY <2>1, <2>2, MinOfNats, ZenonT(60)
  <2>4. e \in s .. Len(gaps) /\ e \in DOMAIN gaps /\ e \in Nat /\ s \in Nat
    BY <1>1, <1>8, <2>3
  <2>5. ASSUME NEW i \in s .. e - 1 PROVE GapEnd(gaps[i]) < z /\ ~ (z < gaps[i + 1].off)
    <3>1. i \in s .. Len(gaps) /\ i < Len(gaps) /\ i \notin Q /\ i \in DOMAIN gaps
      BY <1>1, <1>8, <2>3, <2>4, <2>5
    <3>2. ~ (z <= GapEnd(gaps[i])) /\ ~ (z < gaps[i + 1].off)
      BY <3>1
    <3>3. GapEnd(gaps[i]) \in Nat
      BY <1>1, <3>1, GapIs
    <3> QED
      BY <3>2, <3>3
  <2> HIDE DEF Q, e
  <2>6. gaps[e].off <= z
    <3>1. gaps[e].off \in Nat
      BY <1>1, <2>4, GapIs
    <3>2. CASE e = s
      BY <1>9, <3>1, <3>2
    <3>3. CASE e # s
      <4>1. e - 1 \in s .. e - 1 /\ (e - 1) + 1 = e
        BY <2>4, <3>3
      <4>2. ~ (z < gaps[(e - 1) + 1].off)
        BY <2>5, <4>1
      <4> QED
        BY <3>1, <4>1, <4>2
    <3> QED
      BY <3>2, <3>3
  <2>7. gaps[s].off <= z /\ a <= GapEnd(gaps[s])
    <3>1. gaps[s].off \in Nat
      BY <1>1, <1>8, GapIs
    <3> QED
      BY <1>7, <1>9, <3>1 DEF P
  <2>8. s # e => GapEnd(gaps[s]) < z
    <3>1. ASSUME s # e PROVE s \in s .. e - 1
      BY <2>4, <3>1
    <3> QED
      BY <2>5, <3>1
  <2> QED
    BY <1>1, <1>8, <2>4, <2>5, <2>6, <2>7, <2>8 DEF Meets, e
<1> QED
  BY <1>8, <1>9


\* None of the gaps of r starts above the byte o.
NoneAbove(r, o) == \A k \in 1 .. Len(r) : r[k].off <= o

\* A list of one element before another.
LEMMA OneBefore ==
    ASSUME NEW x, NEW y
    PROVE  <<>> \o <<x>> = <<x>> /\ <<y>> \o <<x>> = <<y, x>>
<1> DEFINE T == {x, y}
           p == <<x>>
           q == <<y>>
           c == q \o p
           d == <<y, x>>
<1>1. p \in Seq(T) /\ q \in Seq(T) /\ Len(p) = 1 /\ Len(q) = 1 /\ p[1] = x /\ q[1] = y
  OBVIOUS
<1>2. d \in Seq(T) /\ Len(d) = 2 /\ d[1] = y /\ d[2] = x
  OBVIOUS
<1>3. <<>> \o p = p
  BY <1>1, ConcatEmptySeq
<1> HIDE DEF p, q
<1>4. /\ c \in Seq(T) /\ Len(c) = Len(q) + Len(p)
      /\ \A j \in 1 .. Len(q) + Len(p) : c[j] = IF j <= Len(q) THEN q[j] ELSE p[j - Len(q)]
  BY <1>1, ConcatProperties, ZenonT(60)
<1>5. Len(c) = 2 /\ c[1] = y /\ c[2] = x
  <2> HIDE DEF c
  <2>1. 1 \in 1 .. Len(q) + Len(p) /\ 2 \in 1 .. Len(q) + Len(p)
    BY <1>1
  <2>2. 1 <= Len(q) /\ ~ (2 <= Len(q)) /\ 2 - Len(q) = 1
    BY <1>1
  <2> QED
    BY <1>1, <1>4, <2>1, <2>2
<1> HIDE DEF c, d
<1>6. \A j \in 1 .. Len(c) : c[j] = d[j]
  BY <1>2, <1>5
<1>7. c = d
  BY <1>2, <1>4, <1>5, <1>6, SeqEqual
<1> QED
  BY <1>3, <1>7 DEF c, d, p, q

\* What the four branches leave, as lists of none, one or two gaps.
IsLeft(r, s, e, start, end) ==
    /\ start = gaps[s].off /\ s = e /\ end >= GapEnd(gaps[s]) => r = <<>>
    /\ start = gaps[s].off /\ s = e /\ ~ (end >= GapEnd(gaps[s])) =>
         r = <<Above(gaps[s], end)>>
    /\ start = gaps[s].off /\ s # e => \E x :
         /\ IF end < GapEnd(gaps[e]) THEN x = Above(gaps[e], end) ELSE x = gaps[e]
         /\ IF end >= GapEnd(gaps[s]) THEN r = <<x>> ELSE r = <<gaps[s], x>>
    /\ start # gaps[s].off /\ end = GapEnd(gaps[e]) /\ s = e =>
         r = <<Below(gaps[s], start)>>
    /\ start # gaps[s].off /\ end = GapEnd(gaps[e]) /\ s # e =>
         r = <<Below(gaps[s], start), gaps[e]>>
    /\ start # gaps[s].off /\ end # GapEnd(gaps[e]) /\ s = e =>
         r = <<Below(gaps[s], start), Above(gaps[s], end)>>
    /\ start # gaps[s].off /\ end # GapEnd(gaps[e]) /\ s # e =>
         r = <<Below(gaps[s], start), Gap(end + 1, gaps[e].len)>>

\* The four branches leave that.
LEMMA RemainsIs ==
    ASSUME NEW s, NEW e, NEW start, NEW end, NEW r, r = Remains(s, e, start, end)
    PROVE  IsLeft(r, s, e, start, end)
<1>1. ASSUME start = gaps[s].off, s = e
      PROVE  r = IF end >= GapEnd(gaps[s]) THEN <<>> ELSE <<Above(gaps[s], end)>>
  BY <1>1, Zenon DEF Remains
<1>2. ASSUME start = gaps[s].off, s # e
      PROVE  \E x : /\ IF end < GapEnd(gaps[e]) THEN x = Above(gaps[e], end) ELSE x = gaps[e]
                    /\ IF end >= GapEnd(gaps[s]) THEN r = <<x>> ELSE r = <<gaps[s], x>>
  <2> DEFINE x == IF end < GapEnd(gaps[e]) THEN Above(gaps[e], end) ELSE gaps[e]
             y == IF end >= GapEnd(gaps[s]) THEN <<>> ELSE <<gaps[s]>>
  <2>1. r = y \o <<x>>
    BY <1>2, Zenon DEF Remains
  <2>2. IF end < GapEnd(gaps[e]) THEN x = Above(gaps[e], end) ELSE x = gaps[e]
    BY Zenon
  <2>3. IF end >= GapEnd(gaps[s]) THEN y = <<>> ELSE y = <<gaps[s]>>
    BY Zenon
  <2> HIDE DEF x, y
  <2>4. <<>> \o <<x>> = <<x>> /\ <<gaps[s]>> \o <<x>> = <<gaps[s], x>>
    BY OneBefore
  <2>5. IF end >= GapEnd(gaps[s]) THEN r = <<x>> ELSE r = <<gaps[s], x>>
    BY <2>1, <2>3, <2>4, Zenon
  <2> QED
    BY <2>2, <2>5, Zenon
<1>3. ASSUME start # gaps[s].off, end = GapEnd(gaps[e])
      PROVE  r = IF s = e THEN <<Below(gaps[s], start)>> ELSE <<Below(gaps[s], start), gaps[e]>>
  BY <1>3, Zenon DEF Remains
<1>4. ASSUME start # gaps[s].off, end # GapEnd(gaps[e])
      PROVE  r = IF s = e THEN <<Below(gaps[s], start), Above(gaps[s], end)>>
                          ELSE <<Below(gaps[s], start), Gap(end + 1, gaps[e].len)>>
  BY <1>4, Zenon DEF Remains
<1> QED
  BY <1>1, <1>2, <1>3, <1>4, Zenon DEF IsLeft

\* What remains of the gaps that a segment meets is a list of gaps, and each of
\* them is one of the two gaps or is cut from one.
LEMMA RemainsAreGaps ==
    ASSUME NEW s, NEW e, NEW a, NEW z, Meets(s, e, a, z),
           NEW start, start = ClippedStart(s, a), NEW end, end = ClippedEnd(e, z),
           NEW r, r = Remains(s, e, start, end)
    PROVE  /\ r \in Seq(GapType) /\ Len(r) \in 0 .. 2
           /\ \A k \in 1 .. Len(r) :
                \/ r[k] = gaps[s]
                \/ r[k] = gaps[e]
                \/ start # gaps[s].off /\ r[k] = Below(gaps[s], start)
                \/ end < GapEnd(gaps[e]) /\ r[k] = Above(gaps[e], end)
                \/ r[k] = Gap(end + 1, gaps[e].len)
<1>1. /\ gaps[s].off \in Nat /\ GapEnd(gaps[s]) \in Nat /\ gaps[s] \in GapType
      /\ gaps[e].off \in Nat /\ GapEnd(gaps[e]) \in Nat /\ gaps[e] \in GapType
      /\ gaps[e].len \in Nat \ {0}
      /\ gaps[s].off <= GapEnd(gaps[s]) /\ gaps[e].off <= GapEnd(gaps[e])
  BY GapIs DEF Meets
<1>2. /\ start \in Nat /\ gaps[s].off <= start
      /\ end \in Nat /\ end <= GapEnd(gaps[e]) /\ end <= z
  BY <1>1 DEF Meets, ClippedStart, ClippedEnd
<1>0. IsLeft(r, s, e, start, end)
  BY RemainsIs
<1>3. ASSUME start # gaps[s].off PROVE Below(gaps[s], start) \in GapType
  BY <1>1, <1>2, <1>3 DEF Below, Gap, GapType
<1>4. ASSUME end < GapEnd(gaps[e]) PROVE Above(gaps[e], end) \in GapType
  BY <1>1, <1>2, <1>4 DEF Above, Gap, GapType
<1>5. Gap(end + 1, gaps[e].len) \in GapType
  BY <1>1, <1>2 DEF Gap, GapType
<1> DEFINE Fits(x) ==
        /\ x \in GapType
        /\ \/ x = gaps[s]
           \/ x = gaps[e]
           \/ start # gaps[s].off /\ x = Below(gaps[s], start)
           \/ end < GapEnd(gaps[e]) /\ x = Above(gaps[e], end)
           \/ x = Gap(end + 1, gaps[e].len)
<1>6. Fits(gaps[s]) /\ Fits(gaps[e]) /\ Fits(Gap(end + 1, gaps[e].len))
  BY <1>1, <1>5, Zenon
<1>7. start # gaps[s].off => Fits(Below(gaps[s], start))
  BY <1>3, Zenon
<1>8. end < GapEnd(gaps[e]) => Fits(Above(gaps[e], end))
  BY <1>4, Zenon
<1> HIDE DEF Fits
<1>9. \/ r = <<>>
      \/ \E x : Fits(x) /\ r = <<x>>
      \/ \E x, y : Fits(x) /\ Fits(y) /\ r = <<x, y>>
  <2>1. CASE start = gaps[s].off /\ s = e
    <3>1. ~ (end >= GapEnd(gaps[s])) => end < GapEnd(gaps[s])
      BY <1>1, <1>2
    <3> QED
      BY <1>8, <2>1, <3>1, <1>0, Zenon DEF IsLeft
  <2>2. CASE start = gaps[s].off /\ s # e
    <3>1. PICK x :
                /\ IF end < GapEnd(gaps[e]) THEN x = Above(gaps[e], end) ELSE x = gaps[e]
                /\ IF end >= GapEnd(gaps[s]) THEN r = <<x>> ELSE r = <<gaps[s], x>>
      BY <2>2, <1>0, Zenon DEF IsLeft
    <3>2. Fits(x)
      BY <1>6, <1>8, <3>1, Zenon
    <3>3. r = <<x>> \/ r = <<gaps[s], x>>
      BY <3>1, Zenon
    <3> QED
      BY <1>6, <3>2, <3>3, Zenon
  <2>3. CASE start # gaps[s].off /\ end = GapEnd(gaps[e])
    BY <1>0, <1>6, <1>7, <2>3, Zenon DEF IsLeft
  <2>4. CASE start # gaps[s].off /\ end # GapEnd(gaps[e]) /\ s = e
    <3>1. end < GapEnd(gaps[e])
      BY <1>1, <1>2, <2>4
    <3> QED
      BY <1>7, <1>8, <2>4, <3>1, <1>0, Zenon DEF IsLeft
  <2>5. CASE start # gaps[s].off /\ end # GapEnd(gaps[e]) /\ s # e
    BY <1>6, <1>7, <2>5, <1>0, Zenon DEF IsLeft
  <2> QED
    BY <2>1, <2>2, <2>3, <2>4, <2>5, Zenon
<1>10. /\ r \in Seq(GapType) /\ Len(r) \in 0 .. 2
       /\ \A k \in 1 .. Len(r) : Fits(r[k])
  <2>1. \A x : Fits(x) => x \in GapType
    BY Zenon DEF Fits
  <2>2. CASE r = <<>>
    BY <2>2
  <2>3. CASE \E x : Fits(x) /\ r = <<x>>
    BY <2>1, <2>3
  <2>4. CASE \E x, y : Fits(x) /\ Fits(y) /\ r = <<x, y>>
    <3>1. PICK x, y : Fits(x) /\ Fits(y) /\ r = <<x, y>>
      BY <2>4
    <3>2. x \in GapType /\ y \in GapType
      BY <2>1, <3>1
    <3>3. Len(r) = 2 /\ r[1] = x /\ r[2] = y /\ r \in Seq(GapType)
      BY <3>1, <3>2
    <3>4. \A k \in 1 .. Len(r) : k = 1 \/ k = 2
      BY <3>3
    <3> QED
      BY <3>1, <3>3, <3>4
  <2> QED
    BY <1>9, <2>2, <2>3, <2>4
<1> QED
  BY <1>10 DEF Fits

\* Nor do the four branches lose the sight of a byte: of one that lay in a gap
\* from start_gap to end_gap, or of one seen in a later gap.
LEMMA RemainsInSight ==
    ASSUME NEW s, NEW e, NEW a, NEW z, Meets(s, e, a, z),
           NEW o \in Nat, o \notin a .. z, gaps[s].off <= o,
           NEW r, r = Remains(s, e, ClippedStart(s, a), ClippedEnd(e, z))
    PROVE  /\ \A j \in s .. e : In(o, gaps[j]) => StaysInSight(r, o)
           /\ gaps[e].off <= o => NoneAbove(r, o) \/ StaysInSight(r, o)
<1> DEFINE start == ClippedStart(s, a)
           end == ClippedEnd(e, z)
<1>1. /\ gaps[s].off \in Nat /\ GapEnd(gaps[s]) \in Nat /\ gaps[s] \in GapType
      /\ gaps[e].off \in Nat /\ GapEnd(gaps[e]) \in Nat /\ gaps[e] \in GapType
      /\ gaps[e].len \in Nat \ {0} /\ gaps[s].len \in Nat \ {0}
      /\ GapEnd(gaps[e]) = gaps[e].off + gaps[e].len - 1
      /\ GapEnd(gaps[s]) = gaps[s].off + gaps[s].len - 1
      /\ gaps[s].off <= GapEnd(gaps[s]) /\ gaps[e].off <= GapEnd(gaps[e])
      /\ a \in Nat /\ z \in Nat /\ a <= z /\ s \in Nat /\ e \in Nat
  <2>1. /\ gaps \in Seq(GapType) /\ s \in DOMAIN gaps /\ e \in DOMAIN gaps
        /\ a \in Nat /\ z \in Nat /\ a <= z
    BY DEF Meets
  <2>2. s \in Nat /\ e \in Nat /\ gaps[s] \in GapType /\ gaps[e] \in GapType
    BY <2>1
  <2>3. /\ gaps[s].off \in Nat /\ gaps[s].len \in Nat \ {0}
        /\ GapEnd(gaps[s]) = gaps[s].off + gaps[s].len - 1
        /\ GapEnd(gaps[s]) \in Nat /\ gaps[s].off <= GapEnd(gaps[s])
    BY <2>1, GapIs
  <2>4. /\ gaps[e].off \in Nat /\ gaps[e].len \in Nat \ {0}
        /\ GapEnd(gaps[e]) = gaps[e].off + gaps[e].len - 1
        /\ GapEnd(gaps[e]) \in Nat /\ gaps[e].off <= GapEnd(gaps[e])
    BY <2>1, GapIs
  <2> QED
    BY <2>1, <2>2, <2>3, <2>4
<1>2. /\ start \in Nat /\ end \in Nat /\ gaps[s].off <= start
      /\ start = gaps[s].off \/ start = a
      /\ start = gaps[s].off => a <= gaps[s].off
      /\ end <= GapEnd(gaps[e]) /\ end <= z
      /\ z < GapEnd(gaps[e]) => end = z
  BY <1>1, SMTT(60) DEF Meets, ClippedStart, ClippedEnd
<1>3. r = Remains(s, e, start, end) /\ r \in Seq(GapType) /\ Len(r) \in 0 .. 2
  BY RemainsAreGaps
<1>0. IsLeft(r, s, e, start, end)
  BY <1>3, RemainsIs
<1>30. \A k \in 1 .. Len(r) :
        \/ r[k] = gaps[s]
        \/ r[k] = gaps[e]
        \/ start # gaps[s].off /\ r[k] = Below(gaps[s], start)
        \/ end < GapEnd(gaps[e]) /\ r[k] = Above(gaps[e], end)
        \/ r[k] = Gap(end + 1, gaps[e].len)
  BY RemainsAreGaps
<1> HIDE DEF start, end
<1>4. Below(gaps[s], start) = [off |-> gaps[s].off, len |-> start - gaps[s].off]
  BY DEF Below, Gap
<1>5. ASSUME o < a
      PROVE  StaysInSight(r, o)
  <2>1. start # gaps[s].off /\ start = a
    BY <1>1, <1>2, <1>5
  <2>4. \E x : r = <<Below(gaps[s], start)>> \/ r = <<Below(gaps[s], start), x>>
    BY <2>1, <1>3, <1>0, Zenon DEF IsLeft
  <2>2. 1 \in 1 .. Len(r) /\ r[1] = Below(gaps[s], start)
    BY <2>4
  <2>3. In(o, r[1])
    BY <1>1, <1>2, <1>4, <1>5, <2>1, <2>2, SMTT(60) DEF In, GapEnd
  <2> QED
    BY <2>2, <2>3 DEF StaysInSight
<1>6. CASE z < o
  <2>1. Above(gaps[e], end) = [off |-> end + 1, len |-> GapEnd(gaps[e]) - end]
        /\ GapEnd(Above(gaps[e], end)) = GapEnd(gaps[e])
    BY <1>1, <1>2 DEF Above, Gap, GapEnd
  <2>2. Gap(end + 1, gaps[e].len) = [off |-> end + 1, len |-> gaps[e].len]
        /\ GapEnd(Gap(end + 1, gaps[e].len)) = end + gaps[e].len
    BY <1>1, <1>2 DEF Gap, GapEnd
  <2>3. gaps[e].off <= z /\ end + 1 <= o
    BY <1>1, <1>2, <1>6 DEF Meets
  <2>4. ASSUME NEW j \in s .. e, In(o, gaps[j]) PROVE StaysInSight(r, o)
    <3>1. j = e
      <4>1. ASSUME j # e PROVE FALSE
        <5>1. j \in s .. e - 1 /\ j \in DOMAIN gaps
          BY <1>1, <2>4, <4>1 DEF Meets
        <5>2. GapEnd(gaps[j]) < z /\ GapEnd(gaps[j]) \in Nat
          BY <5>1, GapIs DEF Meets
        <5> QED
          BY <1>1, <1>6, <2>4, <5>2 DEF In
      <4> QED
        BY <4>1
    <3>2. o <= GapEnd(gaps[e]) /\ gaps[e].off <= o
      BY <2>4, <3>1 DEF In
    <3>3. end = z /\ end < GapEnd(gaps[e])
      BY <1>1, <1>2, <1>6, <3>2
    <3>4. In(o, Above(gaps[e], end))
      BY <2>1, <2>3, <3>2 DEF In
    <3>5. In(o, Gap(end + 1, gaps[e].len))
      BY <1>1, <2>2, <2>3, <3>2, <3>3 DEF In
    <3>6. CASE start = gaps[s].off /\ s = e
      <4>1. r = <<Above(gaps[e], end)>>
        <5>1. ~ (end >= GapEnd(gaps[s]))
          BY <1>1, <1>2, <3>3, <3>6
        <5> QED
          BY <1>3, <3>6, <5>1, <1>0, Zenon DEF IsLeft
      <4> QED
        BY <3>4, <4>1 DEF StaysInSight
    <3>7. CASE start = gaps[s].off /\ s # e
      <4>1. r = <<Above(gaps[e], end)>>
        <5>1. end >= GapEnd(gaps[s])
          BY <1>1, <3>3, <3>7 DEF Meets
        <5> QED
          BY <1>3, <3>3, <3>7, <5>1, <1>0, Zenon DEF IsLeft
      <4> QED
        BY <3>4, <4>1 DEF StaysInSight
    <3>8. CASE start # gaps[s].off
      <4>1. end # GapEnd(gaps[e])
        BY <1>1, <1>2, <3>3
      <4> DEFINE y == IF s = e THEN Above(gaps[s], end) ELSE Gap(end + 1, gaps[e].len)
      <4>5. r = <<Below(gaps[s], start), y>>
        BY <1>3, <3>8, <4>1, <1>0, Zenon DEF IsLeft
      <4>6. In(o, y)
        BY <3>4, <3>5, Zenon
      <4> HIDE DEF y
      <4>2. 2 \in 1 .. Len(r) /\ In(o, r[2]) /\ r[1] = Below(gaps[s], start)
        BY <4>5, <4>6
      <4>3. r[1].off <= o
        BY <1>4, <4>2
      <4>4. \A i \in 1 .. 2 - 1 : i = 1
        OBVIOUS
      <4> QED
        BY <4>2, <4>3, <4>4 DEF StaysInSight
    <3> QED
      BY <3>6, <3>7, <3>8
  <2>5. ASSUME gaps[e].off <= o PROVE NoneAbove(r, o)
    <3>1. /\ Above(gaps[e], end).off <= o /\ Gap(end + 1, gaps[e].len).off <= o
          /\ Below(gaps[s], start).off <= o
      BY <1>4, <2>1, <2>2, <2>3
    <3> QED
      BY <1>30, <2>5, <3>1, Zenon DEF NoneAbove
  <2> QED
    BY <2>4, <2>5
<1> QED
  BY <1>1, <1>5, <1>6


\* Replacing the gaps that a segment meets by what remains of them keeps a byte
\* that has not arrived in sight.
LEMMA SpliceInSight ==
    ASSUME NEW s, NEW e, NEW a, NEW z, Meets(s, e, a, z),
           NEW o \in Nat, o \notin a .. z,
           NEW j \in DOMAIN gaps, SeenIn(gaps, j, o),
           NEW r, r = Remains(s, e, ClippedStart(s, a), ClippedEnd(e, z)),
           NEW t, t = Splice(gaps, s, e, r)
    PROVE  \E k \in DOMAIN t : SeenIn(t, k, o)
<1> DEFINE n == Len(gaps)
           d == e - s + 1
           m == Len(r)
<1>1. /\ gaps \in Seq(GapType) /\ r \in Seq(GapType)
      /\ s \in 1 .. n /\ e \in s .. n /\ j \in 1 .. n
  BY RemainsAreGaps DEF Meets
<1>2. n \in Nat /\ m \in Nat /\ d \in Nat /\ DOMAIN gaps = 1 .. n
  BY <1>1
<1>3. IsSplice(GapType, t, gaps, s, e, r)
  BY <1>1, SpliceElements
<1> HIDE DEF n, m
<1>4. /\ t \in Seq(GapType) /\ Len(t) = n - d + m /\ DOMAIN t = 1 .. n - d + m
      /\ \A i \in 1 .. s - 1 : t[i] = gaps[i]
      /\ \A i \in 1 .. m : t[s - 1 + i] = r[i]
      /\ \A i \in e + 1 .. n : t[i - d + m] = gaps[i]
  BY <1>3 DEF IsSplice, n, m
<1> HIDE DEF d
<1>5. d = e - s + 1
  BY DEF d
<1>6. In(o, gaps[j]) /\ \A i \in 1 .. n : i < j => gaps[i].off <= o
  BY <1>2 DEF SeenIn
\* In what remains.
<1>7. ASSUME StaysInSight(r, o), s <= j PROVE \E k \in DOMAIN t : SeenIn(t, k, o)
  <2>1. PICK k \in 1 .. m : In(o, r[k]) /\ \A i \in 1 .. k - 1 : r[i].off <= o
    BY <1>7 DEF StaysInSight, m
  <2>2. s - 1 + k \in 1 .. n - d + m /\ In(o, t[s - 1 + k])
    BY <1>1, <1>2, <1>4, <1>5, <2>1
  <2>3. ASSUME NEW i \in 1 .. n - d + m, i < s - 1 + k PROVE t[i].off <= o
    <3>1. CASE i < s
      <4>1. i \in 1 .. s - 1 /\ i \in 1 .. n /\ i < j
        BY <1>1, <1>2, <1>7, <2>3, <3>1
      <4> QED
        BY <1>4, <1>6, <4>1
    <3>2. CASE ~ (i < s)
      <4>1. i - s + 1 \in 1 .. k - 1 /\ i - s + 1 \in 1 .. m /\ s - 1 + (i - s + 1) = i
        BY <1>1, <1>2, <2>1, <2>3, <3>2, SMTT(60)
      <4> QED
        BY <1>4, <2>1, <4>1
    <3> QED
      BY <3>1, <3>2
  <2> QED
    BY <1>4, <2>2, <2>3 DEF SeenIn
\* Below the gaps that the segment meets.
<1>8. CASE j < s
  <2>1. j \in 1 .. s - 1 /\ j \in 1 .. n - d + m
    BY <1>1, <1>2, <1>5, <1>8
  <2>2. ASSUME NEW i \in 1 .. n - d + m, i < j PROVE t[i].off <= o
    <3>1. i \in 1 .. s - 1 /\ i \in 1 .. n
      BY <1>1, <1>2, <2>1, <2>2
    <3> QED
      BY <1>4, <1>6, <2>2, <3>1
  <2>3. In(o, t[j])
    BY <1>4, <1>6, <2>1
  <2> QED
    BY <1>4, <2>1, <2>2, <2>3 DEF SeenIn
\* In one of them.
<1>9. CASE s <= j
  <2>1. gaps[s].off <= o
    <3>1. CASE s = j
      BY <1>6, <3>1 DEF In
    <3>2. CASE s # j
      BY <1>1, <1>6, <1>9, <3>2
    <3> QED
      BY <3>1, <3>2
  <2>2. /\ \A i \in s .. e : In(o, gaps[i]) => StaysInSight(r, o)
        /\ gaps[e].off <= o => NoneAbove(r, o) \/ StaysInSight(r, o)
    BY <2>1, RemainsInSight
  <2>3. CASE j <= e
    <3>1. j \in s .. e
      BY <1>1, <1>9, <2>3
    <3> QED
      BY <1>6, <1>7, <1>9, <2>2, <3>1
  <2>4. CASE ~ (j <= e) /\ ~ StaysInSight(r, o)
    <3>1. e \in 1 .. n /\ e < j
      BY <1>1, <1>2, <2>4
    <3>2. NoneAbove(r, o)
      BY <1>6, <2>2, <2>4, <3>1
    <3>3. \A i \in 1 .. m : r[i].off <= o
      BY <3>2 DEF NoneAbove, m
    <3>4. j \in e + 1 .. n /\ j - d + m \in 1 .. n - d + m
      BY <1>1, <1>2, <1>5, <3>1
    <3>5. In(o, t[j - d + m])
      BY <1>4, <1>6, <3>4
    <3>6. ASSUME NEW i \in 1 .. n - d + m, i < j - d + m PROVE t[i].off <= o
      <4>1. CASE i < s
        <5>1. i \in 1 .. s - 1 /\ i \in 1 .. n /\ i < j
          BY <1>1, <1>2, <1>9, <3>6, <4>1
        <5> QED
          BY <1>4, <1>6, <5>1
      <4>2. CASE ~ (i < s) /\ i < s + m
        <5>1. i - s + 1 \in 1 .. m /\ s - 1 + (i - s + 1) = i
          BY <1>1, <1>2, <3>6, <4>2
        <5> QED
          BY <1>4, <3>3, <5>1
      <4>3. CASE ~ (i < s + m)
        <5>1. /\ i + d - m \in e + 1 .. n /\ (i + d - m) - d + m = i
              /\ i + d - m \in 1 .. n /\ i + d - m < j
          BY <1>1, <1>2, <1>5, <3>6, <4>3, SMTT(60)
        <5>2. t[i] = gaps[i + d - m]
          BY <1>4, <5>1
        <5> QED
          BY <1>6, <5>1, <5>2
      <4> QED
        BY <1>1, <1>2, <3>6, <4>1, <4>2, <4>3
    <3> QED
      BY <1>4, <3>4, <3>5, <3>6 DEF SeenIn
  <2> QED
    BY <1>7, <1>9, <2>3, <2>4
<1> QED
  BY <1>1, <1>8, <1>9

\* Writing any segment keeps every missing byte in sight.
LEMMA RecutWrite ==
    ASSUME RecutInv, NEW seg \in segments, Write(seg.off, seg.len)
    PROVE  RecutInv'
<1> DEFINE a == seg.off
           z == seg.off + seg.len - 1
           s == StartGap(a, z)
           e == EndGap(s, z)
           r == Remains(s, e, ClippedStart(s, a), ClippedEnd(e, z))
<1>1. seg.len > 0 /\ written' = written \cup (a .. z) /\ segments' = segments
  BY DEF Write
<1>2. a \in Nat /\ z \in Nat /\ a <= z /\ z < MAX_SIZE - 1 /\ MAX_SIZE - 1 \in Nat
  BY <1>1, SegmentNumbers, SizesAssumption DEF RecutInv
<1>3. written' \subseteq 0 .. MAX_SIZE - 2
  <2> HIDE DEF a, z
  <2>1. written \subseteq 0 .. MAX_SIZE - 2
    BY DEF RecutInv
  <2>2. ASSUME NEW o \in a .. z PROVE o \in 0 .. MAX_SIZE - 2
    BY <1>2, <2>2, SizesAssumption
  <2> QED
    BY <1>1, <2>1, <2>2
<1>4. s \in DOMAIN gaps /\ (~ (z < gaps[s].off) => Meets(s, e, a, z))
  BY <1>2, WalksEnd
<1>5. IF z < gaps[s].off
      THEN UNCHANGED <<gaps, avail_size>>
      ELSE /\ gaps' = Splice(gaps, s, e, r)
           /\ avail_size' = gaps'[1].off
  BY DEF Write, Splice, ClippedStart, ClippedEnd
<1> HIDE DEF a, z, s, e
<1>6. CASE z < gaps[s].off
  <2>1. gaps' = gaps /\ avail_size' = avail_size
    BY <1>5, <1>6
  <2> QED
    BY <1>1, <1>3, <2>1 DEF RecutInv, Sighted, SeenIn, Bytes
<1>7. CASE ~ (z < gaps[s].off)
  <2>1. Meets(s, e, a, z) /\ gaps' = Splice(gaps, s, e, r) /\ avail_size' = gaps'[1].off
    BY <1>4, <1>5, <1>7
  <2>2. /\ gaps \in Seq(GapType) /\ s \in 1 .. Len(gaps) /\ e \in s .. Len(gaps)
        /\ r \in Seq(GapType)
    BY <2>1, RemainsAreGaps DEF Meets
  <2> HIDE DEF r
  <2>3. IsSplice(GapType, gaps', gaps, s, e, r)
    BY <2>1, <2>2, SpliceElements
  <2>4. gaps' \in Seq(GapType)
    BY <2>3 DEF IsSplice
  <2>5. ASSUME NEW o \in Bytes \ written' PROVE \E k \in DOMAIN gaps' : SeenIn(gaps', k, o)
    <3>1. o \in Nat /\ o \notin a .. z /\ o \in Bytes \ written
      BY <1>1, SizesAssumption DEF Bytes
    <3>2. PICK j \in DOMAIN gaps : SeenIn(gaps, j, o)
      BY <3>1 DEF RecutInv, Sighted
    <3> QED
      BY <2>1, <3>1, <3>2, SpliceInSight DEF r
  <2>6. Len(gaps') # 0
    <3>1. MAX_SIZE - 1 \in Bytes \ written'
      <4>1. /\ MAX_SIZE - 1 \in 0 .. MAX_SIZE - 1 /\ MAX_SIZE - 1 \notin 0 .. MAX_SIZE - 2
        BY <1>2, SizesAssumption
      <4> QED
        BY <1>3, <4>1 DEF Bytes
    <3>2. DOMAIN gaps' # {}
      BY <2>5, <3>1
    <3> QED
      BY <2>4, <3>2
  <2>7. Sighted(gaps', written')
    BY <2>5 DEF Sighted
  <2> QED
    BY <1>1, <1>3, <2>1, <2>4, <2>6, <2>7 DEF RecutInv, Sighted, SeenIn, In, GapEnd, Bytes, GapType
<1> QED
  BY <1>6, <1>7

\* Every step keeps every missing byte in sight.
LEMMA NextRecutInv == RecutInv /\ [Next]_vars => RecutInv'
<1> SUFFICES ASSUME RecutInv, [Next]_vars PROVE RecutInv'
  OBVIOUS
<1>1. CASE \E seg \in segments : Write(seg.off, seg.len)
  BY <1>1, RecutWrite
<1>2. CASE \E len \in ReadLens : Read(len)
  BY <1>2 DEF Read, RecutInv, Sighted
<1>3. CASE UNCHANGED vars
  BY <1>3 DEF vars, RecutInv, Sighted
<1> QED
  BY <1>1, <1>2, <1>3 DEF Next

\* However the peer cuts and recuts the stream, quic_sorter_write takes no byte
\* off the gaps that has not arrived, and avail_size passes none.
THEOREM NothingMissingIsDropped == Spec => []NothingIsTakenForArrived
<1>1. ASSUME RecutInv PROVE NothingIsTakenForArrived
  <2>1. ASSUME NEW o \in Bytes \ written
        PROVE  o \in Missing /\ avail_size <= o
    <3>1. PICK j \in DOMAIN gaps : SeenIn(gaps, j, o)
      BY <1>1, <2>1 DEF RecutInv, Sighted
    <3>2. /\ gaps[j].off \in Nat /\ GapEnd(gaps[j]) \in Nat /\ o \in Nat
          /\ gaps[j].off <= o /\ o <= GapEnd(gaps[j])
      BY <1>1, <2>1, <3>1, GapIs, SizesAssumption DEF RecutInv, SeenIn, In, Bytes
    <3>3. o \in gaps[j].off .. GapEnd(gaps[j])
      BY <3>2
    <3>4. avail_size <= o
      <4>1. 1 \in DOMAIN gaps /\ (1 = j \/ 1 < j) /\ avail_size = gaps[1].off
        BY <1>1 DEF RecutInv
      <4> QED
        BY <3>1, <3>2, <4>1 DEF SeenIn
    <3> QED
      BY <3>3, <3>4 DEF Missing
  <2>2. ASSUME NEW o \in 0 .. avail_size - 1 PROVE o \in written
    <3>1. 1 \in DOMAIN gaps /\ avail_size = gaps[1].off
      BY <1>1 DEF RecutInv
    <3>2. avail_size \in Nat
      BY <1>1, <3>1, GapIs DEF RecutInv
    <3>3. MAX_SIZE - 1 \in Bytes \ written
      BY <1>1, SizesAssumption DEF RecutInv, Bytes
    <3>4. avail_size <= MAX_SIZE - 1 /\ MAX_SIZE - 1 \in Nat
      BY <2>1, <3>3, SizesAssumption
    <3>5. o \in Bytes /\ ~ (avail_size <= o)
      BY <2>2, <3>2, <3>4 DEF Bytes
    <3> QED
      BY <2>1, <3>5
  <2> QED
    BY <2>1, <2>2 DEF NothingIsTakenForArrived
<1> QED
  BY <1>1, InitRecutInv, NextRecutInv, PTL DEF Spec

\* However the segments of one segmentation are ordered and repeated
\* (quic_sorter_write), the list of gaps is what has not arrived; and nothing is
\* missing from it when they are cut anew.
THEOREM GapsAreTheMissingBytes == Spec => []GapsAreWhatIsMissing
<1>1. ASSUME Sound PROVE /\ Missing = Bytes \ written
                         /\ \A i \in 1 .. Len(gaps) - 1 : GapEnd(gaps[i]) + 1 < gaps[i + 1].off
                         /\ avail_size \notin written
  <2>1. ASSUME NEW i \in 1 .. Len(gaps) - 1 PROVE GapEnd(gaps[i]) + 1 < gaps[i + 1].off
    <3>1. i \in DOMAIN gaps /\ i + 1 \in DOMAIN gaps /\ i < i + 1
      BY <1>1 DEF Sound, Apart
    <3> QED
      BY <1>1, <3>1 DEF Sound, Apart
  <2> QED
    BY <1>1, <2>1, MissingIsCovered, PrefixArrived
<1>2. IInv /\ NothingIsTakenForArrived => GapsAreWhatIsMissing
  BY <1>1 DEF IInv, GapsAreWhatIsMissing
<1> QED
  BY <1>2, Invariance, NothingMissingIsDropped, PTL
=============================================================================
