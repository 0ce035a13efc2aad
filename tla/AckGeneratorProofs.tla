------------------------- MODULE AckGeneratorProofs --------------------------
(***************************************************************************)
(* Proofs about AckGenerator, for every order of arrival and every MaxNum. *)
(* The first part shows what insert_ranges does to the list in each of the *)
(* ways its walk can end, the second what a frame made from the list       *)
(* denotes, the third the inductive invariant IInv and the theorems.       *)
(***************************************************************************)
EXTENDS AckGenerator, DataLemmas

\* An element of the list.
Entry == [start : PacketNumbers, end : PacketNumbers]

\* Ascending, and two ranges are separated by at least one missing number.
Disjoint(s) ==
    /\ s \in Seq(Entry)
    /\ \A i \in 1 .. Len(s) : s[i].start <= s[i].end
    /\ \A i, j \in 1 .. Len(s) : i < j => s[i].end + 1 < s[j].start

-----------------------------------------------------------------------------
(***************************************************************************)
(* The walk of insert_ranges and the list it leaves.                       *)
(***************************************************************************)

\* The bounds of a range are packet numbers.
LEMMA EntryType ==
    ASSUME NEW s \in Seq(Entry), NEW i \in 1 .. Len(s)
    PROVE  /\ s[i] \in Entry
           /\ s[i].start \in Nat /\ s[i].start <= MaxNum
           /\ s[i].end \in Nat /\ s[i].end <= MaxNum
<1>1. s[i] \in Entry
  OBVIOUS
<1> QED
  BY <1>1, MaxNumAssumption DEF Entry, PacketNumbers

\* The numbers of a list are those between the bounds of one of its ranges.
LEMMA InNumbers ==
    ASSUME NEW s \in Seq(Entry), NEW n
    PROVE  n \in Numbers(s) <=> \E i \in 1 .. Len(s) : n \in s[i].start .. s[i].end
<1>1. DOMAIN s = 1 .. Len(s)
  OBVIOUS
<1> QED
  BY <1>1 DEF Numbers

\* Where the walk of insert_ranges stops, the number is at most one above the
\* range, and it lies beyond every range the walk passed.
LEMMA StopIs ==
    ASSUME Disjoint(ranges), NEW num \in PacketNumbers
    PROVE  /\ StopsAt(num) = {} => \A j \in 1 .. Len(ranges) : ranges[j].end + 1 < num
           /\ StopsAt(num) # {} =>
                /\ Stop(num) \in 1 .. Len(ranges)
                /\ num <= ranges[Stop(num)].end + 1
                /\ \A j \in 1 .. Len(ranges) : j < Stop(num) => ranges[j].end + 1 < num
<1>1. DOMAIN ranges = 1 .. Len(ranges) /\ Len(ranges) \in Nat
  BY DEF Disjoint
<1>2. num \in Nat
  BY MaxNumAssumption DEF PacketNumbers
<1>3. \A j \in 1 .. Len(ranges) : ranges[j].end \in Nat
  BY EntryType DEF Disjoint
<1>4. CASE StopsAt(num) = {}
  BY <1>1, <1>2, <1>3, <1>4, SMTT(60) DEF StopsAt
<1>5. CASE StopsAt(num) # {}
  <2>1. StopsAt(num) \in SUBSET Nat
    BY <1>1 DEF StopsAt
  <2>2. Stop(num) \in StopsAt(num) /\ \A j \in StopsAt(num) : Stop(num) <= j
    BY <1>5, <2>1, MinOfNats DEF Stop
  <2>3. Stop(num) \in 1 .. Len(ranges) /\ num <= ranges[Stop(num)].end + 1
    BY <1>1, <2>2 DEF StopsAt
  <2>4. ASSUME NEW j \in 1 .. Len(ranges), j < Stop(num)
        PROVE  ranges[j].end + 1 < num
    <3>1. j \notin StopsAt(num)
      BY <1>1, <2>2, <2>3, <2>4
    <3> QED
      BY <1>1, <1>2, <1>3, <3>1 DEF StopsAt
  <2> QED
    BY <1>5, <2>3, <2>4
<1> QED
  BY <1>4, <1>5

\* Looking only at the range the walk stops at tells whether any range holds
\* the number.
LEMMA RecordedIsANumber ==
    ASSUME Disjoint(ranges), NEW num \in PacketNumbers
    PROVE  Recorded(num) <=> num \in Numbers(ranges)
<1>1. /\ ranges \in Seq(Entry) /\ Len(ranges) \in Nat
      /\ \A j \in 1 .. Len(ranges) : ranges[j].start \in Nat /\ ranges[j].end \in Nat
  BY EntryType DEF Disjoint
<1>2. num \in Nat
  BY MaxNumAssumption DEF PacketNumbers
<1>3. ASSUME Recorded(num) PROVE num \in Numbers(ranges)
  BY <1>1, <1>2, <1>3, StopIs, InNumbers DEF Recorded
<1>4. ASSUME num \in Numbers(ranges) PROVE Recorded(num)
  <2>1. PICK i \in 1 .. Len(ranges) : num \in ranges[i].start .. ranges[i].end
    BY <1>1, <1>4, InNumbers
  <2>2. StopsAt(num) # {}
    BY <1>1, <1>2, <2>1 DEF StopsAt
  <2> DEFINE s == Stop(num)
  <2>3. /\ s \in 1 .. Len(ranges)
        /\ num <= ranges[s].end + 1
        /\ \A j \in 1 .. Len(ranges) : j < s => ranges[j].end + 1 < num
    BY <2>2, StopIs
  <2> HIDE DEF s
  <2>4. ~(i < s)
    BY <1>1, <1>2, <2>1, <2>3
  <2>5. ~(s < i)
    BY <1>1, <1>2, <2>1, <2>3 DEF Disjoint
  <2>6. s = i
    BY <1>1, <2>3, <2>4, <2>5
  <2> QED
    BY <1>1, <1>2, <2>1, <2>2, <2>6 DEF Recorded, s
<1> QED
  BY <1>3, <1>4

\* A list whose ranges cover those of another and num, and nothing else, holds
\* the numbers of the other and num.
LEMMA NumbersGrow ==
    ASSUME NEW s \in Seq(Entry), NEW t \in Seq(Entry), NEW num,
           \A i \in 1 .. Len(s) : \E j \in 1 .. Len(t) :
                t[j].start <= s[i].start /\ s[i].end <= t[j].end,
           \E j \in 1 .. Len(t) : num \in t[j].start .. t[j].end,
           \A j \in 1 .. Len(t) : \A n \in t[j].start .. t[j].end :
                n = num \/ \E i \in 1 .. Len(s) : n \in s[i].start .. s[i].end
    PROVE  Numbers(t) = Numbers(s) \cup {num}
<1>1. \A n : n \in Numbers(t) => n \in Numbers(s) \cup {num}
  BY InNumbers
<1>2. ASSUME NEW n \in Numbers(s) PROVE n \in Numbers(t)
  <2>1. PICK i \in 1 .. Len(s) : n \in s[i].start .. s[i].end
    BY <1>2, InNumbers
  <2>2. PICK j \in 1 .. Len(t) : t[j].start <= s[i].start /\ s[i].end <= t[j].end
    BY <2>1
  <2>3. n \in t[j].start .. t[j].end
    BY <2>1, <2>2, EntryType, SMTT(60)
  <2> QED
    BY <2>3, InNumbers
<1>3. num \in Numbers(t)
  BY InNumbers
<1> QED
  BY <1>1, <1>2, <1>3

\* r is the list with num inserted: one more number, no other lost.
Inserted(r, num) ==
    /\ Disjoint(r.list)
    /\ r.list # <<>>
    /\ r.delta = Len(r.list) - Len(ranges)
    /\ Numbers(r.list) = Numbers(ranges) \cup {num}
    /\ Last(r.list).end = IF ranges = <<>> \/ Last(ranges).end < num
                          THEN num ELSE Last(ranges).end

\* The number lies above every range.
LEMMA InsertedAbove ==
    ASSUME Disjoint(ranges), NEW num \in PacketNumbers, StopsAt(num) = {}
    PROVE  Inserted(InsertRanges(num), num)
<1> DEFINE t == Append(ranges, Block(num, num))
           n == Len(ranges)
<1>1. InsertRanges(num) = [list |-> t, delta |-> 1]
  BY DEF InsertRanges
<1>2. ranges \in Seq(Entry) /\ n \in Nat /\ num \in Nat /\ Block(num, num) \in Entry
  BY MaxNumAssumption DEF Disjoint, Block, Entry, PacketNumbers
<1>3. /\ t \in Seq(Entry) /\ Len(t) = n + 1 /\ t # <<>>
      /\ \A j \in 1 .. n : t[j] = ranges[j]
      /\ t[n + 1] = Block(num, num)
  BY <1>2, AppendProperties
<1>4. t[n + 1].start = num /\ t[n + 1].end = num
  BY <1>3 DEF Block
<1> HIDE DEF t
<1>5. \A j \in 1 .. n : ranges[j].start \in Nat /\ ranges[j].end \in Nat
  BY <1>2, EntryType
<1>6. \A j \in 1 .. n : ranges[j].end + 1 < num
  BY StopIs
<1>7. Disjoint(t)
  <2>1. \A i \in 1 .. n + 1 : t[i].start <= t[i].end
    BY <1>2, <1>3, <1>4, <1>5 DEF Disjoint
  <2>2. ASSUME NEW i \in 1 .. n + 1, NEW j \in 1 .. n + 1, i < j
        PROVE  t[i].end + 1 < t[j].start
    <3>1. i \in 1 .. n /\ (j \in 1 .. n \/ j = n + 1)
      BY <1>2, <2>2
    <3> QED
      BY <1>3, <1>4, <1>6, <2>2, <3>1 DEF Disjoint
  <2> QED
    BY <1>3, <2>1, <2>2 DEF Disjoint
<1>8. Numbers(t) = Numbers(ranges) \cup {num}
  <2>1. \A i \in 1 .. n : \E j \in 1 .. Len(t) :
            t[j].start <= ranges[i].start /\ ranges[i].end <= t[j].end
    BY <1>2, <1>3, <1>5
  <2>2. \E j \in 1 .. Len(t) : num \in t[j].start .. t[j].end
    BY <1>2, <1>3, <1>4
  <2>3. \A j \in 1 .. Len(t) : \A m \in t[j].start .. t[j].end :
            m = num \/ \E i \in 1 .. n : m \in ranges[i].start .. ranges[i].end
    BY <1>2, <1>3, <1>4
  <2> QED
    BY <1>2, <1>3, <2>1, <2>2, <2>3, NumbersGrow
<1>9. Last(t).end = num
  BY <1>3, <1>4 DEF Last
<1>10. ranges = <<>> \/ Last(ranges).end < num
  <2>1. ASSUME ranges # <<>> PROVE n \in 1 .. n
    BY <1>2, <2>1
  <2> QED
    BY <1>2, <1>5, <1>6, <2>1 DEF Last
<1> QED
  BY <1>1, <1>2, <1>3, <1>7, <1>8, <1>9, <1>10 DEF Inserted

\* The number lies in a hole and touches neither neighbour.
LEMMA InsertedBetween ==
    ASSUME Disjoint(ranges), NEW num \in PacketNumbers, ~Recorded(num),
           StopsAt(num) # {}, ~Touches(ranges[Stop(num)], num)
    PROVE  Inserted(InsertRanges(num), num)
<1> DEFINE i == Stop(num)
           t == InsertAt(ranges, i, Block(num, num))
           n == Len(ranges)
<1>1. InsertRanges(num) = [list |-> t, delta |-> 1]
  BY DEF InsertRanges
<1>2. ranges \in Seq(Entry) /\ n \in Nat /\ num \in Nat /\ Block(num, num) \in Entry
  BY MaxNumAssumption DEF Disjoint, Block, Entry, PacketNumbers
<1>3. /\ i \in 1 .. n
      /\ num <= ranges[i].end + 1
      /\ \A j \in 1 .. n : j < i => ranges[j].end + 1 < num
  BY StopIs
<1>4. \A j \in 1 .. n : ranges[j].start \in Nat /\ ranges[j].end \in Nat
  BY <1>2, EntryType
<1>5. num + 1 < ranges[i].start
  BY <1>2, <1>3, <1>4 DEF Recorded, Touches
<1> HIDE DEF i
<1>6. /\ t \in Seq(Entry) /\ Len(t) = n + 1
      /\ \A j \in 1 .. n + 1 :
            t[j] = IF j < i THEN ranges[j] ELSE IF j = i THEN Block(num, num) ELSE ranges[j - 1]
  <2>1. i \in 1 .. Len(ranges) + 1
    BY <1>2, <1>3
  <2> HIDE DEF n
  <2>2. /\ t \in Seq(Entry) /\ Len(t) = Len(ranges) + 1
        /\ \A j \in 1 .. Len(ranges) + 1 :
            t[j] = IF j < i THEN ranges[j] ELSE IF j = i THEN Block(num, num) ELSE ranges[j - 1]
    BY <1>2, <2>1, InsertAtElements
  <2> QED
    BY <2>2 DEF n
<1> HIDE DEF t
<1>7. /\ \A j \in 1 .. n : j < i => t[j] = ranges[j]
      /\ \A j \in 1 .. n : j >= i => t[j + 1] = ranges[j]
      /\ t[i].start = num /\ t[i].end = num
  BY <1>2, <1>3, <1>6 DEF Block
<1>8. ASSUME NEW j \in 1 .. n + 1
      PROVE  \/ j < i /\ j \in 1 .. n /\ t[j] = ranges[j]
             \/ j = i
             \/ j > i /\ j - 1 \in 1 .. n /\ j - 1 >= i /\ t[j] = ranges[j - 1]
  BY <1>2, <1>3, <1>6
<1>9. \A j \in 1 .. n : j >= i => num + 1 < ranges[j].start
  BY <1>2, <1>3, <1>4, <1>5, SMTT(60) DEF Disjoint
<1>10. Disjoint(t)
  <2>0. \A j \in 1 .. n : ranges[j].start <= ranges[j].end
    BY DEF Disjoint
  <2>1. ASSUME NEW j \in 1 .. n + 1 PROVE t[j].start <= t[j].end
    BY <1>2, <1>7, <1>8, <2>0, SMTT(60)
  <2>2. ASSUME NEW j \in 1 .. n + 1, NEW k \in 1 .. n + 1, j < k
        PROVE  t[j].end + 1 < t[k].start
    <3>1. CASE k < i
      BY <1>3, <1>8, <2>2, <3>1 DEF Disjoint
    <3>2. CASE k = i
      BY <1>3, <1>7, <1>8, <2>2, <3>2
    <3>3. CASE k > i /\ j < i
      BY <1>3, <1>4, <1>8, <2>2, <3>3, SMTT(30) DEF Disjoint
    <3>4. CASE k > i /\ j = i
      <4>1. k - 1 \in 1 .. n /\ k - 1 >= i /\ t[k] = ranges[k - 1]
        BY <1>2, <1>3, <1>8, <3>4
      <4>2. num + 1 < ranges[k - 1].start
        BY <1>9, <4>1
      <4> QED
        BY <1>7, <3>4, <4>1, <4>2
    <3>5. CASE k > i /\ j > i
      BY <1>3, <1>8, <2>2, <3>5, SMTT(30) DEF Disjoint
    <3> QED
      BY <1>2, <1>3, <3>1, <3>2, <3>3, <3>4, <3>5
  <2> QED
    BY <1>6, <2>1, <2>2 DEF Disjoint
<1>11. Numbers(t) = Numbers(ranges) \cup {num}
  <2>1. ASSUME NEW j \in 1 .. n
        PROVE  \E k \in 1 .. Len(t) :
                    t[k].start <= ranges[j].start /\ ranges[j].end <= t[k].end
    <3>1. CASE j < i
      BY <1>2, <1>4, <1>6, <1>7, <3>1, SMTT(60)
    <3>2. CASE j >= i
      <4>1. j + 1 \in 1 .. Len(t) /\ t[j + 1] = ranges[j]
        BY <1>2, <1>6, <1>7, <3>2
      <4> QED
        BY <1>4, <4>1
    <3> QED
      BY <1>2, <1>3, <3>1, <3>2
  <2>2. \E k \in 1 .. Len(t) : num \in t[k].start .. t[k].end
    BY <1>2, <1>3, <1>6, <1>7, SMTT(60)
  <2>3. ASSUME NEW k \in 1 .. Len(t), NEW m \in t[k].start .. t[k].end
        PROVE  m = num \/ \E j \in 1 .. n : m \in ranges[j].start .. ranges[j].end
    <3>1. CASE k = i
      BY <1>2, <1>7, <3>1
    <3>2. CASE k # i
      BY <1>6, <1>8, <3>2
    <3> QED
      BY <3>1, <3>2
  <2> QED
    BY <1>2, <1>6, <2>1, <2>2, <2>3, NumbersGrow, ZenonT(60)
<1>12. Last(t).end = Last(ranges).end /\ num < Last(ranges).end /\ ranges # <<>> /\ t # <<>>
  <2>1. t[n + 1] = ranges[n] /\ n \in 1 .. n
    BY <1>2, <1>3, <1>7
  <2>2. num < ranges[n].end
    BY <1>2, <1>3, <1>4, <1>9, <2>1, SMTT(60) DEF Disjoint
  <2> QED
    BY <1>2, <1>6, <2>1, <2>2 DEF Last
<1> QED
  <2>1. Len(t) - Len(ranges) = 1
    BY <1>2, <1>6
  <2>2. ~(ranges = <<>> \/ Last(ranges).end < num)
    <3>1. Last(ranges).end \in Nat
      BY <1>2, <1>4, <1>12 DEF Last
    <3> QED
      BY <1>2, <1>12, <3>1
  <2> HIDE DEF n
  <2> QED
    BY <1>1, <1>10, <1>11, <1>12, <2>1, <2>2 DEF Inserted

\* The number touches the range the walk stops at, which grows by it; the range
\* below is never reached.
LEMMA GrownIs ==
    ASSUME Disjoint(ranges), NEW num \in PacketNumbers, ~Recorded(num),
           StopsAt(num) # {}, Touches(ranges[Stop(num)], num)
    PROVE  LET i == Stop(num)
               t == Grown(num)
           IN  /\ t \in Seq(Entry) /\ Len(t) = Len(ranges)
               /\ \A j \in 1 .. Len(ranges) : j # i => t[j] = ranges[j]
               /\ \/ num = ranges[i].end + 1 /\ t[i].start = ranges[i].start /\ t[i].end = num
                  \/ num + 1 = ranges[i].start /\ t[i].start = num /\ t[i].end = ranges[i].end
               /\ ~MeetsBelow(t, i)
<1> DEFINE i == Stop(num)
           t == Grown(num)
           n == Len(ranges)
           g == IF num = ranges[i].end + 1 THEN Block(ranges[i].start, num)
                                           ELSE Block(num, ranges[i].end)
<1>1. ranges \in Seq(Entry) /\ n \in Nat /\ num \in Nat
  BY MaxNumAssumption DEF Disjoint, PacketNumbers
<1>2. /\ i \in 1 .. n
      /\ num <= ranges[i].end + 1
      /\ \A j \in 1 .. n : j < i => ranges[j].end + 1 < num
  BY StopIs
<1>3. /\ ranges[i] \in Entry
      /\ \A j \in 1 .. n : ranges[j].start \in Nat /\ ranges[j].end \in Nat
  BY <1>1, <1>2, EntryType
<1>4. t = [ranges EXCEPT ![i] = g]
  BY DEF Grown
<1>5. g \in Entry
  BY <1>3 DEF Entry, Block
<1>6. \/ num = ranges[i].end + 1 /\ g = Block(ranges[i].start, num)
      \/ num + 1 = ranges[i].start /\ g = Block(num, ranges[i].end)
  BY <1>2, <1>3 DEF Touches
<1> HIDE DEF i, t, g
<1>7. /\ t \in Seq(Entry) /\ Len(t) = n
      /\ \A j \in 1 .. n : t[j] = IF j = i THEN g ELSE ranges[j]
  BY <1>1, <1>2, <1>4, <1>5, ExceptSeq
<1>8. ASSUME MeetsBelow(t, i) PROVE FALSE
  <2>1. i - 1 \in 1 .. n /\ i - 1 < i /\ t[i - 1] = ranges[i - 1] /\ t[i] = g
    BY <1>1, <1>2, <1>7, <1>8 DEF MeetsBelow
  <2>2. ranges[i - 1].end + 1 < num /\ ranges[i - 1].end + 1 < ranges[i].start
    BY <1>2, <2>1 DEF Disjoint
  <2>3. g.start = num \/ g.start = ranges[i].start
    BY <1>6 DEF Block
  <2> QED
    BY <1>1, <1>2, <1>3, <1>8, <2>1, <2>2, <2>3 DEF MeetsBelow
<1>9. \/ num = ranges[i].end + 1 /\ t[i].start = ranges[i].start /\ t[i].end = num
      \/ num + 1 = ranges[i].start /\ t[i].start = num /\ t[i].end = ranges[i].end
  BY <1>2, <1>6, <1>7 DEF Block
<1> QED
  BY <1>7, <1>8, <1>9 DEF i, t

\* It stays clear of the range above.
LEMMA InsertedGrown ==
    ASSUME Disjoint(ranges), NEW num \in PacketNumbers, ~Recorded(num),
           StopsAt(num) # {}, Touches(ranges[Stop(num)], num),
           ~MeetsAbove(Grown(num), Stop(num))
    PROVE  Inserted(InsertRanges(num), num)
<1> DEFINE i == Stop(num)
           t == Grown(num)
           n == Len(ranges)
<1>1. /\ t \in Seq(Entry) /\ Len(t) = n
      /\ \A j \in 1 .. n : j # i => t[j] = ranges[j]
      /\ \/ num = ranges[i].end + 1 /\ t[i].start = ranges[i].start /\ t[i].end = num
         \/ num + 1 = ranges[i].start /\ t[i].start = num /\ t[i].end = ranges[i].end
      /\ ~MeetsBelow(t, i)
  BY GrownIs
<1>2. InsertRanges(num) = [list |-> t, delta |-> 0]
  BY <1>1, Zenon DEF InsertRanges
<1>3. ranges \in Seq(Entry) /\ n \in Nat /\ num \in Nat
  BY MaxNumAssumption DEF Disjoint, PacketNumbers
<1>4. /\ i \in 1 .. n
      /\ num <= ranges[i].end + 1
      /\ \A j \in 1 .. n : j < i => ranges[j].end + 1 < num
  BY StopIs
<1>5. \A j \in 1 .. n : /\ ranges[j].start \in Nat /\ ranges[j].end \in Nat
                        /\ ranges[j].start <= ranges[j].end
  BY <1>3, EntryType DEF Disjoint
<1>6. i < n => t[i + 1].start - 1 # t[i].end
  BY <1>1 DEF MeetsAbove
<1> HIDE DEF i, t
<1>7. ASSUME NEW k \in 1 .. n, i < k PROVE t[i].end + 1 < ranges[k].start
  <2>1. i + 1 \in 1 .. n /\ t[i + 1] = ranges[i + 1]
    BY <1>1, <1>3, <1>4, <1>7
  <2>2. ranges[i].end + 1 < ranges[i + 1].start
    BY <1>4, <2>1 DEF Disjoint
  <2>3. t[i].end + 1 < ranges[i + 1].start
    <3>1. ranges[i].end \in Nat /\ ranges[i + 1].start \in Nat
      BY <1>4, <1>5, <2>1
    <3>2. t[i].end # ranges[i + 1].start - 1
      BY <1>3, <1>4, <1>6, <1>7, <2>1
    <3>3. (t[i].end = num /\ num = ranges[i].end + 1) \/ t[i].end = ranges[i].end
      BY <1>1
    <3> QED
      BY <1>3, <2>2, <3>1, <3>2, <3>3, SMTT(30)
  <2>4. k = i + 1 \/ ranges[i + 1].end + 1 < ranges[k].start
    BY <1>3, <1>4, <1>7, <2>1 DEF Disjoint
  <2>5. t[i].end \in Nat
    BY <1>1, <1>3, <1>4, <1>5
  <2> QED
    BY <1>5, <2>1, <2>3, <2>4, <2>5, SMTT(60)
<1>8. Disjoint(t)
  <2>1. ASSUME NEW j \in 1 .. n PROVE t[j].start <= t[j].end
    BY <1>1, <1>3, <1>4, <1>5, SMTT(60)
  <2>2. ASSUME NEW j \in 1 .. n, NEW k \in 1 .. n, j < k
        PROVE  t[j].end + 1 < t[k].start
    <3>1. CASE j = i
      BY <1>1, <1>4, <1>7, <2>2, <3>1
    <3>2. CASE k = i
      BY <1>1, <1>4, <2>2, <3>2 DEF Disjoint
    <3>3. CASE j # i /\ k # i
      BY <1>1, <2>2, <3>3 DEF Disjoint
    <3> QED
      BY <3>1, <3>2, <3>3
  <2> QED
    BY <1>1, <2>1, <2>2 DEF Disjoint
<1>9. Numbers(t) = Numbers(ranges) \cup {num}
  <2>1. ASSUME NEW j \in 1 .. n
        PROVE  t[j].start <= ranges[j].start /\ ranges[j].end <= t[j].end
    <3>1. CASE j = i
      BY <1>1, <1>3, <1>5, <3>1
    <3>2. CASE j # i
      BY <1>1, <1>5, <3>2
    <3> QED
      BY <3>1, <3>2
  <2>2. i \in 1 .. Len(t) /\ num \in t[i].start .. t[i].end
    BY <1>1, <1>3, <1>4, <1>5
  <2>3. ASSUME NEW j \in 1 .. Len(t), NEW m \in t[j].start .. t[j].end
        PROVE  m = num \/ \E k \in 1 .. n : m \in ranges[k].start .. ranges[k].end
    <3>1. CASE j # i
      BY <1>1, <3>1
    <3>2. CASE j = i
      <4>1. m = num \/ m \in ranges[i].start .. ranges[i].end
        BY <1>1, <1>3, <1>4, <1>5, <3>2
      <4> QED
        BY <1>4, <4>1
    <3> QED
      BY <3>1, <3>2
  <2>4. \A j \in 1 .. n : \E k \in 1 .. Len(t) :
            t[k].start <= ranges[j].start /\ ranges[j].end <= t[k].end
    <3>1. ASSUME NEW j \in 1 .. n
          PROVE  \E k \in 1 .. Len(t) :
                    t[k].start <= ranges[j].start /\ ranges[j].end <= t[k].end
      <4>1. j \in 1 .. Len(t)
        BY <1>1
      <4> QED
        BY <2>1, <4>1
    <3> QED
      BY <3>1
  <2> QED
    BY <1>1, <1>3, <2>2, <2>3, <2>4, NumbersGrow, ZenonT(60)
<1>10. /\ t # <<>> /\ ranges # <<>> /\ n \in 1 .. n
       /\ Last(t) = t[n] /\ Last(ranges) = ranges[n]
  BY <1>1, <1>3, <1>4 DEF Last
<1>11. t[n].end = IF ranges[n].end < num THEN num ELSE ranges[n].end
  <2>1. CASE i = n
    BY <1>1, <1>3, <1>4, <1>5, <2>1
  <2>2. CASE i # n
    <3>1. i < n /\ t[n] = ranges[n]
      BY <1>1, <1>3, <1>4, <2>2
    <3>2. ranges[i].end + 1 < ranges[n].start /\ num <= ranges[i].end + 1
      BY <1>4, <1>10, <3>1 DEF Disjoint
    <3> QED
      BY <1>3, <1>4, <1>5, <1>10, <3>1, <3>2
  <2> QED
    BY <2>1, <2>2
<1> HIDE DEF n
<1>12. Len(t) - Len(ranges) = 0
  BY <1>1, <1>3 DEF n
<1> QED
  BY <1>2, <1>8, <1>9, <1>10, <1>11, <1>12 DEF Inserted

\* It closes the hole below the range above: the two become one.
LEMMA MergeAboveIs ==
    ASSUME Disjoint(ranges), NEW num \in PacketNumbers, ~Recorded(num),
           StopsAt(num) # {}, Touches(ranges[Stop(num)], num),
           MeetsAbove(Grown(num), Stop(num))
    PROVE  LET i == Stop(num)
               t == MergeAbove(Grown(num), i)
               n == Len(ranges)
           IN  /\ t \in Seq(Entry) /\ Len(t) = n - 1
               /\ i \in 1 .. n - 1
               /\ num = ranges[i].end + 1 /\ num + 1 = ranges[i + 1].start
               /\ \A j \in 1 .. n : j < i => t[j] = ranges[j]
               /\ \A j \in 1 .. n - 1 : i < j => t[j] = ranges[j + 1]
               /\ t[i].start = ranges[i].start /\ t[i].end = ranges[i + 1].end
<1> DEFINE i == Stop(num)
           u == Grown(num)
           w == [u EXCEPT ![i + 1].start = u[i].start]
           t == MergeAbove(u, i)
           n == Len(ranges)
<1>1. /\ u \in Seq(Entry) /\ Len(u) = n
      /\ \A j \in 1 .. n : j # i => u[j] = ranges[j]
      /\ \/ num = ranges[i].end + 1 /\ u[i].start = ranges[i].start /\ u[i].end = num
         \/ num + 1 = ranges[i].start /\ u[i].start = num /\ u[i].end = ranges[i].end
  BY GrownIs
<1>2. ranges \in Seq(Entry) /\ n \in Nat /\ num \in Nat
  BY MaxNumAssumption DEF Disjoint, PacketNumbers
<1>3. i \in 1 .. n
  BY StopIs
<1>4. \A j \in 1 .. n : ranges[j].start \in Nat /\ ranges[j].end \in Nat
  BY <1>2, EntryType
<1>5. i < n /\ u[i + 1].start - 1 = u[i].end
  BY <1>1 DEF MeetsAbove
<1>6. t = RemoveAt(w, i)
  BY DEF MergeAbove
<1> HIDE DEF i, u, t
<1>7. i \in 1 .. n - 1 /\ i + 1 \in 1 .. n /\ u[i + 1] = ranges[i + 1]
  BY <1>1, <1>2, <1>3, <1>5
<1>8. /\ num = ranges[i].end + 1 /\ num + 1 = ranges[i + 1].start
      /\ u[i].start = ranges[i].start
  <2>1. ranges[i].end + 1 < ranges[i + 1].start
    BY <1>3, <1>7 DEF Disjoint
  <2>2. u[i].end # ranges[i].end
    BY <1>3, <1>4, <1>5, <1>7, <2>1
  <2> QED
    BY <1>1, <1>2, <1>3, <1>4, <1>5, <1>7, <2>2
<1> DEFINE g == [start |-> u[i].start, end |-> u[i + 1].end]
<1>9. w = [u EXCEPT ![i + 1] = g]
  <2>1. u[i + 1] \in Entry
    BY <1>1, <1>7
  <2>2. [u[i + 1] EXCEPT !.start = u[i].start] = g
    BY <2>1 DEF Entry
  <2> QED
    BY <2>2
<1>10. g \in Entry
  <2>1. u[i] \in Entry /\ u[i + 1] \in Entry
    BY <1>1, <1>3, <1>7
  <2> QED
    BY <2>1 DEF Entry
<1>11. g.start = ranges[i].start /\ g.end = ranges[i + 1].end
  BY <1>7, <1>8
<1> HIDE DEF w, g
<1>12. /\ w \in Seq(Entry) /\ Len(w) = n
       /\ \A j \in 1 .. n : w[j] = IF j = i + 1 THEN g ELSE u[j]
  BY <1>1, <1>7, <1>9, <1>10, ExceptSeq
<1>13. /\ t \in Seq(Entry) /\ Len(t) = n - 1
       /\ \A j \in 1 .. n - 1 : t[j] = IF j < i THEN w[j] ELSE w[j + 1]
  <2>1. i \in 1 .. Len(w)
    BY <1>3, <1>12
  <2>2. /\ t \in Seq(Entry) /\ Len(t) = Len(w) - 1
        /\ \A j \in 1 .. Len(w) - 1 : t[j] = IF j < i THEN w[j] ELSE w[j + 1]
    BY <1>6, <1>12, <2>1, RemoveAtElements
  <2> QED
    BY <1>12, <2>2
<1>14. ASSUME NEW j \in 1 .. n, j < i PROVE t[j] = ranges[j]
  <2>1. j \in 1 .. n - 1 /\ j # i + 1 /\ j # i
    BY <1>2, <1>3, <1>7, <1>14
  <2>2. u[j] = ranges[j]
    BY <1>1, <2>1
  <2>3. w[j] = u[j]
    BY <1>12, <2>1
  <2>4. t[j] = w[j]
    BY <1>13, <1>14, <2>1
  <2> QED
    BY <2>2, <2>3, <2>4
<1>15. ASSUME NEW j \in 1 .. n - 1, i < j PROVE t[j] = ranges[j + 1]
  <2>1. j + 1 \in 1 .. n /\ j + 1 # i + 1 /\ j + 1 # i
    BY <1>2, <1>3, <1>15
  <2> QED
    BY <1>1, <1>2, <1>3, <1>12, <1>13, <1>15, <2>1
<1>16. t[i] = g
  BY <1>2, <1>7, <1>12, <1>13
<1> QED
  BY <1>7, <1>8, <1>11, <1>13, <1>14, <1>15, <1>16 DEF i, t, u

\* A number that closes the space between two ranges merges them.
LEMMA InsertedMerged ==
    ASSUME Disjoint(ranges), NEW num \in PacketNumbers, ~Recorded(num),
           StopsAt(num) # {}, Touches(ranges[Stop(num)], num),
           MeetsAbove(Grown(num), Stop(num))
    PROVE  Inserted(InsertRanges(num), num)
<1> DEFINE i == Stop(num)
           t == MergeAbove(Grown(num), i)
           n == Len(ranges)
<1>1. /\ t \in Seq(Entry) /\ Len(t) = n - 1
      /\ i \in 1 .. n - 1
      /\ num = ranges[i].end + 1 /\ num + 1 = ranges[i + 1].start
      /\ \A j \in 1 .. n : j < i => t[j] = ranges[j]
      /\ \A j \in 1 .. n - 1 : i < j => t[j] = ranges[j + 1]
      /\ t[i].start = ranges[i].start /\ t[i].end = ranges[i + 1].end
  BY MergeAboveIs
<1>2. InsertRanges(num) = [list |-> t, delta |-> -1]
  BY GrownIs, Zenon DEF InsertRanges
<1>3. ranges \in Seq(Entry) /\ n \in Nat /\ num \in Nat
  BY MaxNumAssumption DEF Disjoint, PacketNumbers
<1>4. \A j \in 1 .. n : /\ ranges[j].start \in Nat /\ ranges[j].end \in Nat
                        /\ ranges[j].start <= ranges[j].end
  BY <1>3, EntryType DEF Disjoint
<1>5. \A j, k \in 1 .. n : j < k => ranges[j].end + 1 < ranges[k].start
  BY DEF Disjoint
<1> HIDE DEF i, t
<1>6. i \in 1 .. n /\ i + 1 \in 1 .. n
  BY <1>1, <1>3
<1>7. ASSUME NEW j \in 1 .. n - 1
      PROVE  \/ j < i /\ j \in 1 .. n /\ t[j] = ranges[j]
             \/ j = i
             \/ j > i /\ j + 1 \in 1 .. n /\ t[j] = ranges[j + 1]
  BY <1>1, <1>3, <1>6
<1>8. Disjoint(t)
  <2>1. ASSUME NEW j \in 1 .. n - 1 PROVE t[j].start <= t[j].end
    <3>1. CASE j = i
      <4>1. ranges[i].end + 1 < ranges[i + 1].start
        BY <1>1, <1>5, <1>6
      <4>2. t[j].start = ranges[i].start /\ t[j].end = ranges[i + 1].end
        BY <1>1, <3>1
      <4> QED
        BY <1>4, <1>6, <4>1, <4>2, SMTT(60)
    <3>2. CASE j # i
      BY <1>4, <1>7, <3>2
    <3> QED
      BY <3>1, <3>2
  <2>2. ASSUME NEW j \in 1 .. n - 1, NEW k \in 1 .. n - 1, j < k
        PROVE  t[j].end + 1 < t[k].start
    <3>1. CASE k < i
      BY <1>1, <1>3, <1>5, <1>7, <2>2, <3>1, SMTT(60)
    <3>2. CASE k = i
      BY <1>1, <1>5, <1>6, <1>7, <2>2, <3>2
    <3>3. CASE k > i /\ j < i
      <4>1. j \in 1 .. n /\ t[j] = ranges[j]
        BY <1>1, <1>3, <3>3
      <4>2. k + 1 \in 1 .. n /\ t[k] = ranges[k + 1] /\ j < k + 1
        BY <1>1, <1>3, <2>2, <3>3
      <4> QED
        BY <1>5, <4>1, <4>2
    <3>4. CASE k > i /\ j = i
      BY <1>1, <1>3, <1>5, <1>6, <1>7, <2>2, <3>4, SMTT(60)
    <3>5. CASE j > i
      <4>1. j + 1 \in 1 .. n /\ t[j] = ranges[j + 1]
        BY <1>1, <1>3, <3>5
      <4>2. k + 1 \in 1 .. n /\ t[k] = ranges[k + 1] /\ j + 1 < k + 1
        BY <1>1, <1>3, <1>6, <2>2, <3>5
      <4> QED
        BY <1>5, <4>1, <4>2
    <3> QED
      BY <1>6, <2>2, <3>1, <3>2, <3>3, <3>4, <3>5
  <2> QED
    BY <1>1, <2>1, <2>2 DEF Disjoint
<1>9. Numbers(t) = Numbers(ranges) \cup {num}
  <2>1. ASSUME NEW j \in 1 .. n
        PROVE  \E k \in 1 .. Len(t) :
                    t[k].start <= ranges[j].start /\ ranges[j].end <= t[k].end
    <3>1. CASE j < i
      <4>1. j \in 1 .. Len(t) /\ t[j] = ranges[j]
        BY <1>1, <1>3, <1>6, <3>1
      <4> QED
        BY <1>4, <4>1
    <3>0. /\ i \in 1 .. Len(t) /\ t[i].start = ranges[i].start /\ t[i].end = ranges[i + 1].end
          /\ ranges[i].end + 1 < ranges[i + 1].start
      BY <1>1, <1>5, <1>6
    <3>5. /\ ranges[i].start \in Nat /\ ranges[i].end \in Nat
          /\ ranges[i].start <= ranges[i].end
          /\ ranges[i + 1].start \in Nat /\ ranges[i + 1].end \in Nat
          /\ ranges[i + 1].start <= ranges[i + 1].end
      BY <1>4, <1>6
    <3>6. /\ t[i].start <= ranges[i].start /\ ranges[i].end <= t[i].end
          /\ t[i].start <= ranges[i + 1].start /\ ranges[i + 1].end <= t[i].end
      BY <3>0, <3>5, SMTT(60)
    <3>2. CASE j = i
      BY <3>0, <3>2, <3>6
    <3>3. CASE j = i + 1
      BY <3>0, <3>3, <3>6
    <3>4. CASE j > i + 1
      <4>1. j - 1 \in 1 .. Len(t) /\ t[j - 1] = ranges[j]
        BY <1>1, <1>3, <1>6, <3>4
      <4> QED
        BY <1>4, <4>1
    <3> QED
      BY <1>6, <3>1, <3>2, <3>3, <3>4
  <2>2. \E k \in 1 .. Len(t) : num \in t[k].start .. t[k].end
    <3>1. i \in 1 .. Len(t) /\ num \in t[i].start .. t[i].end
      BY <1>1, <1>3, <1>4, <1>6, SMTT(60)
    <3> QED
      BY <3>1
  <2>3. ASSUME NEW j \in 1 .. Len(t), NEW m \in t[j].start .. t[j].end
        PROVE  m = num \/ \E k \in 1 .. n : m \in ranges[k].start .. ranges[k].end
    <3>1. CASE j # i
      BY <1>1, <1>7, <3>1
    <3>2. CASE j = i
      <4>1. m \in ranges[i].start .. ranges[i + 1].end
        BY <1>1, <3>2
      <4>2. \/ m = num \/ m \in ranges[i].start .. ranges[i].end
            \/ m \in ranges[i + 1].start .. ranges[i + 1].end
        BY <1>1, <1>3, <1>4, <1>6, <4>1, SMTT(30)
      <4> QED
        BY <1>6, <4>2
    <3> QED
      BY <3>1, <3>2
  <2>4. /\ \A j \in 1 .. Len(ranges) : \E k \in 1 .. Len(t) :
                t[k].start <= ranges[j].start /\ ranges[j].end <= t[k].end
        /\ \A j \in 1 .. Len(t) : \A m \in t[j].start .. t[j].end :
                m = num \/ \E k \in 1 .. Len(ranges) : m \in ranges[k].start .. ranges[k].end
    BY <2>1, <2>3
  <2>5. t \in Seq(Entry) /\ ranges \in Seq(Entry)
    BY <1>1, <1>3
  <2> HIDE DEF n
  <2> QED
    BY <2>2, <2>4, <2>5, NumbersGrow, Zenon
<1>10. /\ t # <<>> /\ ranges # <<>> /\ n \in 1 .. n
       /\ Last(t) = t[n - 1] /\ Last(ranges) = ranges[n]
  BY <1>1, <1>3, <1>6 DEF Last
<1>11. t[n - 1].end = ranges[n].end /\ num < ranges[n].end
  <2>1. CASE i = n - 1
    BY <1>1, <1>3, <1>4, <1>6, <2>1
  <2>2. CASE i # n - 1
    <3>1. i + 1 < n /\ t[n - 1] = ranges[n]
      BY <1>1, <1>3, <1>6, <2>2, SMTT(60)
    <3>2. ranges[i + 1].end + 1 < ranges[n].start
      BY <1>5, <1>6, <1>10, <3>1
    <3>3. num + 1 <= ranges[i + 1].end
      BY <1>1, <1>4, <1>6
    <3>4. n \in 1 .. n /\ ranges[n].start <= ranges[n].end
      BY <1>4, <1>10
    <3> HIDE DEF n
    <3>5. num < ranges[n].end
      BY <1>3, <1>4, <1>6, <3>2, <3>3, <3>4, SMTT(60)
    <3> QED
      BY <3>1, <3>5
  <2> QED
    BY <2>1, <2>2
<1>12. Len(t) - Len(ranges) = -1 /\ ~(ranges[n].end < num)
  BY <1>1, <1>3, <1>4, <1>10, <1>11, SMTT(60)
<1> HIDE DEF n
<1>13. Len(t) - Len(ranges) = -1
  BY <1>12
<1> QED
  BY <1>2, <1>8, <1>9, <1>10, <1>11, <1>12, <1>13 DEF Inserted

\* Whatever the walk finds, the number is added and nothing else.
LEMMA InsertRangesInserts ==
    ASSUME Disjoint(ranges), NEW num \in PacketNumbers, ~Recorded(num)
    PROVE  Inserted(InsertRanges(num), num)
  BY InsertedAbove, InsertedBetween, InsertedGrown, InsertedMerged

-----------------------------------------------------------------------------
(***************************************************************************)
(* The list and the frame made from it.                                    *)
(***************************************************************************)

\* A list of ranges has at most one range per packet number, so ranges_count
\* cannot outgrow the numbers there are.
LEMMA DisjointLength ==
    ASSUME NEW s, Disjoint(s)
    PROVE  Len(s) \in 0 .. MaxNum + 1
<1> DEFINE n == Len(s)
           S == {i \in Nat : i + 1 \in 1 .. n => i <= s[i + 1].start}
<1>1. s \in Seq(Entry) /\ n \in Nat
  BY DEF Disjoint
<1>2. \A i \in 1 .. n : s[i].start \in Nat /\ s[i].end \in Nat /\ s[i].start <= MaxNum
  BY <1>1, EntryType
<1>3. 0 \in S
  BY <1>1, <1>2
<1>4. ASSUME NEW i \in Nat, i \in S PROVE i + 1 \in S
  <2>1. ASSUME (i + 1) + 1 \in 1 .. n PROVE i + 1 <= s[(i + 1) + 1].start
    <3>1. i + 1 \in 1 .. n /\ i + 1 < (i + 1) + 1
      BY <1>1, <2>1
    <3>2. i <= s[i + 1].start
      BY <1>4, <3>1
    <3>3. s[i + 1].start <= s[i + 1].end /\ s[i + 1].end + 1 < s[(i + 1) + 1].start
      BY <2>1, <3>1 DEF Disjoint
    <3> QED
      BY <1>2, <2>1, <3>1, <3>2, <3>3
  <2> QED
    BY <2>1
<1>5. Nat \subseteq S
  BY <1>3, <1>4, NatSetInduction
<1>6. CASE n = 0
  BY <1>6, MaxNumAssumption
<1>7. CASE n # 0
  <2>1. n - 1 \in Nat /\ (n - 1) + 1 \in 1 .. n /\ (n - 1) + 1 = n /\ n \in 1 .. n
    BY <1>1, <1>7
  <2>2. n - 1 <= s[n].start
    BY <1>5, <2>1
  <2>3. s[n].start <= MaxNum /\ s[n].start \in Nat
    BY <1>2, <2>1
  <2> HIDE DEF n
  <2>4. n \in 0 .. MaxNum + 1
    BY <1>1, <2>2, <2>3, MaxNumAssumption
  <2> QED
    BY <2>4 DEF n
<1> QED
  BY <1>6, <1>7

\* No number of the list lies above the end of its last range.
LEMMA LastIsLargest ==
    ASSUME NEW s, Disjoint(s), NEW num, num \in Numbers(s)
    PROVE  /\ s # <<>>
           /\ Last(s).end \in Nat
           /\ num \in Nat
           /\ num <= Last(s).end
<1> DEFINE n == Len(s)
<1>1. s \in Seq(Entry) /\ n \in Nat
  BY DEF Disjoint
<1>2. \A i \in 1 .. n : s[i].start \in Nat /\ s[i].end \in Nat /\ s[i].start <= s[i].end
  BY <1>1, EntryType DEF Disjoint
<1>3. PICK i \in 1 .. n : num \in s[i].start .. s[i].end
  BY <1>1, InNumbers
<1>4. n \in 1 .. n /\ s # <<>> /\ Last(s) = s[n]
  BY <1>1, <1>3 DEF Last
<1>5. s[i].end <= s[n].end
  <2>1. CASE i = n
    BY <1>2, <1>4, <2>1
  <2>2. CASE i < n
    <3>1. s[i].end + 1 < s[n].start
      BY <1>4, <2>2 DEF Disjoint
    <3> HIDE DEF n
    <3> QED
      BY <1>2, <1>3, <1>4, <3>1
  <2> QED
    BY <1>1, <1>3, <2>1, <2>2
<1> HIDE DEF n
<1> QED
  BY <1>2, <1>3, <1>4, <1>5

\* What reading back the frame of a list yields, block by block: the ranges of
\* the list from the last to the first, through the gaps and lengths
\* (ack_generator_generate, and the loop of find_newly_acked that undoes it).
LEMMA BlocksAreRanges ==
    ASSUME NEW s, Disjoint(s), s # <<>>
    PROVE  LET n == Len(s)
           IN  /\ Len(GenerateFrame(s, n).ranges) = n - 1
               /\ GenerateFrame(s, n).ranges = <<>> <=> n = 1
               /\ GenerateFrame(s, n).largest_ack = s[n].end
               /\ Blocks(GenerateFrame(s, n)) =
                    [i \in 0 .. n - 1 |-> Block(s[n - i].start, s[n - i].end)]
<1> DEFINE n  == Len(s)
           fr == GenerateFrame(s, n)
           w  == [i \in 0 .. n - 1 |-> Block(s[n - i].start, s[n - i].end)]
           E(g) == [i \in 0 .. Len(fr.ranges) |->
                      IF i = 0
                      THEN Block(fr.largest_ack - fr.first_range, fr.largest_ack)
                      ELSE LET e == g[i - 1].start - fr.ranges[i].gap - 2
                           IN  Block(e - fr.ranges[i].len, e)]
           b  == Blocks(fr)
<1>1. s \in Seq(Entry) /\ n \in Nat /\ n >= 1
  BY DEF Disjoint
<1>2. \A i \in 1 .. n : s[i].start \in Nat /\ s[i].end \in Nat
  BY <1>1, EntryType
<1>3. /\ fr.largest_ack = s[n].end
      /\ fr.first_range = s[n].end - s[n].start
      /\ fr.ranges = [i \in 1 .. n - 1 |->
                        [ gap |-> Gap(s[n - i + 1], s[n - i]),
                          len |-> s[n - i].end - s[n - i].start ]]
  BY DEF GenerateFrame
<1>4. /\ \A i \in 1 .. n - 1 : /\ fr.ranges[i].gap = s[n - i + 1].start - s[n - i].end - 2
                               /\ fr.ranges[i].len = s[n - i].end - s[n - i].start
      /\ Len(fr.ranges) = n - 1
  BY <1>1, <1>3 DEF Gap
<1>5. b = CHOOSE g : g = E(g)
  BY DEF Blocks
<1> HIDE DEF fr, b
<1>6. w = E(w)
  <2>1. ASSUME NEW i \in 0 .. n - 1 PROVE w[i] = E(w)[i]
    <3>1. CASE i = 0
      <4>1. n \in 1 .. n /\ n - 0 = n
        BY <1>1
      <4>2. s[n].end - (s[n].end - s[n].start) = s[n].start
        BY <1>2, <4>1
      <4> QED
        BY <1>3, <1>4, <3>1, <4>1, <4>2
    <3>2. CASE i # 0
      <4>1. i \in 1 .. n - 1 /\ i - 1 \in 0 .. n - 1 /\ n - (i - 1) = n - i + 1
        BY <1>1, <3>2
      <4>2. n - i \in 1 .. n /\ n - i + 1 \in 1 .. n
        BY <1>1, <4>1
      <4>3. w[i - 1].start = s[n - i + 1].start
        BY <4>1 DEF Block
      <4> DEFINE e == w[i - 1].start - fr.ranges[i].gap - 2
      <4> DEFINE x == s[n - i + 1].start
                 y == s[n - i].end
                 z == s[n - i].start
      <4>7. x \in Nat /\ y \in Nat /\ z \in Nat
        BY <1>2, <4>2
      <4>8. fr.ranges[i].gap = x - y - 2 /\ fr.ranges[i].len = y - z /\ w[i - 1].start = x
        BY <1>4, <4>1, <4>3
      <4> HIDE DEF x, y, z, w
      <4>9. e = y
        BY <4>7, <4>8
      <4>10. e - fr.ranges[i].len = z
        BY <4>7, <4>8, <4>9
      <4>4. e = s[n - i].end
        BY <4>9 DEF y
      <4>5. e - fr.ranges[i].len = s[n - i].start
        BY <4>10 DEF z
      <4> USE DEF w
      <4>6. E(w)[i] = Block(e - fr.ranges[i].len, e)
        BY <1>4, <3>2
      <4> HIDE DEF e, E
      <4> QED
        BY <4>4, <4>5, <4>6
    <3> QED
      BY <3>1, <3>2
  <2>2. E(w) = [i \in 0 .. n - 1 |-> E(w)[i]]
    <3> HIDE DEF w
    <3>1. E(w) = [i \in 0 .. Len(fr.ranges) |-> E(w)[i]]
      OBVIOUS
    <3>2. Len(fr.ranges) = n - 1
      BY <1>4
    <3> HIDE DEF E, n
    <3> QED
      BY <3>1, <3>2
  <2>3. w = [i \in 0 .. n - 1 |-> w[i]]
    OBVIOUS
  <2> HIDE DEF w, E
  <2> QED
    BY <2>1, <2>2, <2>3
<1> HIDE DEF w
<1>7. b = E(b)
  <2> HIDE DEF E
  <2> QED
    BY <1>5, <1>6
<1>8. \A i \in 0 .. n - 1 : b[i] = w[i]
  <2> DEFINE S == {i \in Nat : i \in 0 .. n - 1 => b[i] = w[i]}
  <2>1. \A g : E(g)[0] = Block(fr.largest_ack - fr.first_range, fr.largest_ack)
    BY <1>1, <1>4
  <2>2. \A g : \A i \in 1 .. n - 1 :
            E(g)[i] = LET e == g[i - 1].start - fr.ranges[i].gap - 2
                      IN  Block(e - fr.ranges[i].len, e)
    BY <1>1, <1>4
  <2> HIDE DEF E
  <2>3. 0 \in S
    BY <1>6, <1>7, <2>1
  <2>4. ASSUME NEW i \in Nat, i \in S PROVE i + 1 \in S
    <3>1. ASSUME i + 1 \in 0 .. n - 1 PROVE b[i + 1] = w[i + 1]
      <4>1. i + 1 \in 1 .. n - 1 /\ (i + 1) - 1 = i /\ b[i] = w[i]
        BY <1>1, <2>4, <3>1
      <4>2. E(b)[i + 1] = E(w)[i + 1]
        BY <2>2, <4>1
      <4> QED
        BY <1>6, <1>7, <4>2
    <3> QED
      BY <3>1
  <2>5. Nat \subseteq S
    BY <2>3, <2>4, NatSetInduction
  <2> QED
    BY <1>1, <2>5
<1>9. b = w
  <2>1. b = [i \in 0 .. n - 1 |-> b[i]]
    <3>1. E(b) = [i \in 0 .. Len(fr.ranges) |-> E(b)[i]]
      OBVIOUS
    <3>2. Len(fr.ranges) = n - 1
      BY <1>4
    <3> HIDE DEF E, n
    <3> QED
      BY <1>7, <3>1, <3>2
  <2>2. w = [i \in 0 .. n - 1 |-> w[i]]
    BY DEF w
  <2> QED
    BY <1>8, <2>1, <2>2
<1>10. fr.ranges = <<>> <=> n = 1
  <2>1. ASSUME fr.ranges = <<>> PROVE n = 1
    <3>1. Len(fr.ranges) = 0
      BY <2>1
    <3> HIDE DEF n
    <3> QED
      BY <1>1, <1>4, <3>1
  <2>2. ASSUME n = 1 PROVE fr.ranges = <<>>
    <3>1. 1 .. n - 1 = {}
      BY <2>2
    <3> HIDE DEF n
    <3> QED
      BY <1>3, <3>1
  <2> QED
    BY <2>1, <2>2
<1> QED
  BY <1>3, <1>4, <1>9, <1>10 DEF b, fr, w

\* A frame denotes the numbers of the list it was made from, and the sender's
\* walk takes no other for acknowledged.
LEMMA FrameDenotes ==
    ASSUME NEW s, Disjoint(s), s # <<>>
    PROVE  /\ Denotes(GenerateFrame(s, Len(s))) = Numbers(s)
           /\ AckedBy(GenerateFrame(s, Len(s))) \subseteq Numbers(s)
           /\ GenerateFrame(s, Len(s)).largest_ack = Last(s).end
<1> DEFINE n  == Len(s)
           fr == GenerateFrame(s, n)
           w  == [i \in 0 .. n - 1 |-> Block(s[n - i].start, s[n - i].end)]
<1>1. /\ Blocks(fr) = w /\ Len(fr.ranges) = n - 1 /\ fr.largest_ack = s[n].end
      /\ fr.ranges = <<>> <=> n = 1
  BY BlocksAreRanges
<1>2. s \in Seq(Entry) /\ n \in Nat /\ n >= 1
  BY DEF Disjoint
<1>3. \A i \in 0 .. n - 1 : w[i].start = s[n - i].start /\ w[i].end = s[n - i].end
  BY DEF Block
<1>4. DOMAIN w = 0 .. n - 1
  OBVIOUS
<1> HIDE DEF w, fr
<1>5. ASSUME NEW num, NEW i \in 0 .. n - 1, num \in w[i].start .. w[i].end
      PROVE  num \in Numbers(s)
  <2>1. n - i \in 1 .. n
    BY <1>2
  <2> QED
    BY <1>2, <1>3, <1>5, <2>1, InNumbers
<1>6. ASSUME NEW num, num \in Numbers(s)
      PROVE  \E i \in 0 .. n - 1 : num \in w[i].start .. w[i].end
  <2>1. PICK j \in 1 .. n : num \in s[j].start .. s[j].end
    BY <1>2, <1>6, InNumbers
  <2>2. n - j \in 0 .. n - 1 /\ n - (n - j) = j
    BY <1>2
  <2> QED
    BY <1>3, <2>1, <2>2
<1>7. Denotes(fr) = Numbers(s)
  <2>1. Denotes(fr) = UNION {w[i].start .. w[i].end : i \in 0 .. n - 1}
    BY <1>1, <1>4 DEF Denotes, Numbers
  <2> QED
    BY <1>5, <1>6, <2>1
<1>8. AckedBy(fr) \subseteq Numbers(s)
  <2>1. ExaminedBlocks(fr) \subseteq 0 .. n - 1
    BY <1>1, <1>2 DEF ExaminedBlocks
  <2>2. AckedBy(fr) = UNION {w[i].start .. w[i].end : i \in ExaminedBlocks(fr)}
    BY <1>1 DEF AckedBy
  <2> QED
    BY <1>5, <2>1, <2>2
<1> QED
  BY <1>1, <1>2, <1>7, <1>8 DEF fr, Last

-----------------------------------------------------------------------------
(***************************************************************************)
(* The inductive invariant.  Received needs the separation of the ranges   *)
(* to find the place of a number, the equality of the list with what was   *)
(* received to know that a number not recorded is a new one, and the       *)
(* position of lg_obnum to keep it there; a frame needs all three.         *)
(***************************************************************************)
\* The list holds what was received, until it is dropped.
ListIsExact ==
    /\ ranges_count = Len(ranges)
    /\ dropped => ranges = <<>>
    /\ ~dropped => Numbers(ranges) = received
    /\ ranges # <<>> => Last(ranges).end = lg_obnum
    /\ (~dropped /\ ranges = <<>>) => lg_obnum = 0

\* The other variables: types, and what should_send stands for.
Flags ==
    /\ lg_obnum \in PacketNumbers
    /\ should_send \in BOOLEAN
    /\ dropped \in BOOLEAN
    /\ received \subseteq PacketNumbers
    /\ unreported \subseteq received
    /\ (~dropped /\ should_send) => received # {}

\* The inductive invariant.
IInv ==
    /\ Disjoint(ranges)
    /\ ListIsExact
    /\ Flags
    /\ NothingUnreportedIsForgotten

\* The initial state has it.
LEMMA InitIInv == Init => IInv
<1> SUFFICES ASSUME Init PROVE IInv
  OBVIOUS
<1>1. ranges = <<>> /\ ranges_count = 0 /\ lg_obnum = 0 /\ should_send = FALSE
      /\ dropped = FALSE /\ received = {} /\ unreported = {}
  BY DEF Init
<1>2. Disjoint(ranges)
  BY <1>1 DEF Disjoint
<1>3. Numbers(ranges) = {}
  BY <1>1 DEF Numbers
<1>4. ListIsExact
  BY <1>1, <1>3 DEF ListIsExact
<1>5. Flags
  <2>1. 0 \in PacketNumbers
    BY MaxNumAssumption DEF PacketNumbers
  <2> QED
    BY <1>1, <2>1, Zenon DEF Flags
<1> QED
  BY <1>1, <1>2, <1>4, <1>5 DEF IInv, NothingUnreportedIsForgotten

\* received() keeps the list exact, new number or old.
LEMMA ReceivedList ==
    ASSUME IInv, NEW num \in PacketNumbers, NEW should_ack \in BOOLEAN,
           Received(num, should_ack)
    PROVE  /\ Disjoint(ranges)'
           /\ ListIsExact'
           /\ Numbers(ranges)' = Numbers(ranges) \cup {num}
           /\ Recorded(num) <=> num \in received
<1>1. /\ Disjoint(ranges) /\ ~dropped /\ ~dropped' /\ ranges_count = Len(ranges)
      /\ Numbers(ranges) = received /\ received' = received \cup {num}
      /\ ranges # <<>> => Last(ranges).end = lg_obnum
      /\ ranges = <<>> => lg_obnum = 0
  BY DEF IInv, ListIsExact, Received
<1>2. Recorded(num) <=> num \in Numbers(ranges)
  BY <1>1, RecordedIsANumber
<1>3. lg_obnum \in Nat /\ num \in Nat
      /\ lg_obnum' = IF num >= lg_obnum THEN num ELSE lg_obnum
  BY MaxNumAssumption DEF IInv, Flags, PacketNumbers, Received, Largest
<1>4. CASE Recorded(num)
  <2>1. UNCHANGED <<ranges, ranges_count>> /\ Numbers(ranges)' = Numbers(ranges)
    <3>1. Len(ranges) \in Nat
      BY <1>1 DEF Disjoint
    <3> QED
      BY <1>1, <1>4, <3>1 DEF Received, Numbers
  <2>2. ranges # <<>> /\ num <= Last(ranges).end
    BY <1>1, <1>2, <1>4, LastIsLargest
  <2>3. lg_obnum' = lg_obnum
    BY <1>1, <1>3, <2>2
  <2>4. Disjoint(ranges)'
    BY <1>1, <2>1 DEF Disjoint
  <2> QED
    BY <1>1, <1>2, <1>4, <2>1, <2>2, <2>3, <2>4 DEF ListIsExact
<1>5. CASE ~Recorded(num)
  <2> DEFINE r == InsertRanges(num)
  <2>1. ranges' = r.list /\ ranges_count' = ranges_count + r.delta
    BY <1>5 DEF Received
  <2>2. Inserted(r, num)
    BY <1>1, <1>5, InsertRangesInserts
  <2> HIDE DEF r
  <2>3. /\ Disjoint(ranges') /\ ranges' # <<>>
        /\ r.delta = Len(ranges') - Len(ranges)
        /\ Numbers(ranges') = Numbers(ranges) \cup {num}
        /\ Last(ranges').end = IF ranges = <<>> \/ Last(ranges).end < num
                               THEN num ELSE Last(ranges).end
    BY <2>1, <2>2 DEF Inserted
  <2>4. ranges_count' = Len(ranges')
    <3>1. Len(ranges') \in Nat /\ Len(ranges) \in Nat
      BY <1>1, <2>3 DEF Disjoint
    <3> QED
      BY <1>1, <2>1, <2>3, <3>1
  <2>5. Last(ranges').end = lg_obnum'
    BY <1>1, <1>3, <2>3
  <2> QED
    BY <1>1, <1>2, <1>5, <2>3, <2>4, <2>5 DEF ListIsExact, Disjoint, Numbers
<1> QED
  BY <1>4, <1>5

\* received() raises should_send for a new number that asks for an answer.
LEMMA ReceivedFlags ==
    ASSUME IInv, NEW num \in PacketNumbers, NEW should_ack \in BOOLEAN,
           Received(num, should_ack)
    PROVE  Flags' /\ NothingUnreportedIsForgotten'
<1>1. /\ ~dropped /\ dropped' = dropped
      /\ should_send' = (should_send \/ (should_ack /\ (~Recorded(num) \/ CheckIsLost(num))))
      /\ received' = received \cup {num}
      /\ unreported' = IF should_ack /\ num \notin received
                       THEN unreported \cup {num} ELSE unreported
      /\ lg_obnum' = Largest(num)
  BY DEF Received
<1>2. Recorded(num) <=> num \in received
  BY ReceivedList
<1>3. /\ lg_obnum \in PacketNumbers /\ should_send \in BOOLEAN /\ dropped \in BOOLEAN
      /\ received \subseteq PacketNumbers /\ unreported \subseteq received
      /\ unreported # {} => should_send
  BY <1>1 DEF IInv, Flags, NothingUnreportedIsForgotten
<1>4. lg_obnum' \in PacketNumbers
  BY <1>1, <1>3 DEF Largest
<1>5. should_send' \in BOOLEAN
  BY <1>1, <1>3, Zenon
<1>6. received' \subseteq PacketNumbers /\ unreported' \subseteq received' /\ received' # {}
  BY <1>1, <1>3
<1>7. unreported' # {} => should_send'
  BY <1>1, <1>2, <1>3
<1> QED
  BY <1>1, <1>3, <1>4, <1>5, <1>6, <1>7 DEF Flags, NothingUnreportedIsForgotten

\* An open generator that asks for a frame has something to report.
LEMMA OpenListIsNotEmpty == (IInv /\ ~dropped /\ should_send) => ranges # <<>>
<1> SUFFICES ASSUME IInv, ~dropped, should_send PROVE ranges # <<>>
  OBVIOUS
<1>1. received # {} /\ Numbers(ranges) = received
  BY DEF IInv, Flags, ListIsExact
<1>2. ranges = <<>> => Numbers(ranges) = {}
  BY DEF Numbers
<1> QED
  BY <1>1, <1>2

\* The frame of an open generator that asks for one.
LEMMA FrameIs ==
    (IInv /\ ranges # <<>>) =>
        /\ Denotes(AckFrame) = received
        /\ AckedBy(AckFrame) \subseteq received
        /\ AckFrame.largest_ack = lg_obnum
<1> SUFFICES ASSUME IInv, ranges # <<>>
             PROVE  /\ Denotes(AckFrame) = received
                    /\ AckedBy(AckFrame) \subseteq received
                    /\ AckFrame.largest_ack = lg_obnum
  OBVIOUS
<1>1. /\ Disjoint(ranges) /\ ranges_count = Len(ranges) /\ ~dropped
      /\ Numbers(ranges) = received /\ Last(ranges).end = lg_obnum
  BY DEF IInv, ListIsExact, Flags
<1>2. AckFrame = GenerateFrame(ranges, Len(ranges))
  BY <1>1 DEF AckFrame
<1> QED
  BY <1>1, <1>2, FrameDenotes

\* generate() reports everything received.
LEMMA GenerateKeepsIInv ==
    ASSUME IInv, Generate
    PROVE  IInv'
<1>1. /\ ~dropped /\ should_send /\ should_send' = FALSE
      /\ unreported' = unreported \ Denotes(AckFrame)
      /\ UNCHANGED <<ranges, ranges_count, lg_obnum, dropped, received>>
  BY DEF Generate
<1>2. ranges # <<>>
  BY <1>1, OpenListIsNotEmpty
<1>3. unreported' = {}
  BY <1>1, <1>2, FrameIs DEF IInv, Flags
<1>4. Disjoint(ranges)' /\ ListIsExact'
  BY <1>1 DEF IInv, Disjoint, ListIsExact, Numbers
<1> QED
  BY <1>1, <1>3, <1>4 DEF IInv, Flags, NothingUnreportedIsForgotten

\* drop() empties the list for good.
LEMMA DropKeepsIInv ==
    ASSUME IInv, Drop
    PROVE  IInv'
<1>1. /\ ranges' = <<>> /\ ranges_count' = 0 /\ dropped' = TRUE
      /\ UNCHANGED <<lg_obnum, should_send, received, unreported>>
  BY DEF Drop
<1>2. Disjoint(ranges')
  BY <1>1 DEF Disjoint
<1>3. ListIsExact'
  BY <1>1 DEF ListIsExact
<1> QED
  BY <1>1, <1>2, <1>3 DEF IInv, Disjoint, Flags, NothingUnreportedIsForgotten

\* Every step keeps the invariant.
LEMMA NextIInv == IInv /\ [Next]_vars => IInv'
<1> SUFFICES ASSUME IInv, [Next]_vars PROVE IInv'
  OBVIOUS
<1>1. CASE \E num \in PacketNumbers, should_ack \in BOOLEAN : Received(num, should_ack)
  BY <1>1, ReceivedList, ReceivedFlags DEF IInv
<1>2. CASE Generate
  BY <1>2, GenerateKeepsIInv
<1>3. CASE Drop
  BY <1>3, DropKeepsIInv
<1>4. CASE UNCHANGED vars
  BY <1>4 DEF vars, IInv, Disjoint, ListIsExact, Flags, NothingUnreportedIsForgotten, Numbers
<1> QED
  BY <1>1, <1>2, <1>3, <1>4 DEF Next

\* The invariant holds in every reachable state.
LEMMA AlwaysIInv == Spec => []IInv
<1>1. Init => IInv
  BY InitIInv
<1>2. IInv /\ [Next]_vars => IInv'
  BY NextIInv
<1> QED
  BY <1>1, <1>2, PTL DEF Spec

\* The list stays ascending with a missing number between two neighbours,
\* whatever the order of arrival (insert_ranges, adjust_ranges): no gap of an
\* ACK frame underflows.
THEOREM RangesStaySeparated == Spec => []RangesSeparated
<1>1. IInv => RangesSeparated
  <2> SUFFICES ASSUME IInv PROVE RangesSeparated
    OBVIOUS
  <2>1. ranges \in Seq(Entry) /\ Len(ranges) \in Nat /\ DOMAIN ranges = 1 .. Len(ranges)
    BY DEF IInv, Disjoint
  <2>2. ranges_count \in 0 .. MaxNum + 1
    BY DisjointLength DEF IInv, ListIsExact
  <2>3. TypeOK
    BY <2>1, <2>2 DEF IInv, Flags, TypeOK, Entry
  <2>4. ASSUME NEW i \in 1 .. Len(ranges) - 1
        PROVE  ranges[i].end + 1 < ranges[i + 1].start
    <3>1. i \in 1 .. Len(ranges) /\ i + 1 \in 1 .. Len(ranges) /\ i < i + 1
      BY <2>1
    <3> QED
      BY <3>1 DEF IInv, Disjoint
  <2> QED
    BY <2>1, <2>3, <2>4 DEF IInv, Disjoint, RangesSeparated
<1> QED
  BY <1>1, AlwaysIInv, PTL

\* A generated frame, read back through its gaps and lengths, denotes exactly
\* the packets received so far, and its array has the size of the list.
THEOREM FramesAreExact == Spec => []FrameIsExact
<1>1. IInv => FrameIsExact
  BY FrameIs DEF FrameIsExact, CountMatches, IInv, ListIsExact
<1> QED
  BY <1>1, AlwaysIInv, PTL

\* An ack-eliciting packet no frame has reported keeps should_send raised.
THEOREM UnreportedIsRemembered == Spec => []NothingUnreportedIsForgotten
<1>1. IInv => NothingUnreportedIsForgotten
  BY DEF IInv
<1> QED
  BY <1>1, AlwaysIInv, PTL

\* No step of an open generator takes a recorded number out of the list, the
\* merging of two ranges included.
THEOREM NumbersAreNeverForgotten == Spec => NeverForgets
<1>1. IInv /\ [Next]_vars => [~dropped' => Numbers(ranges) \subseteq Numbers(ranges')]_vars
  <2> SUFFICES ASSUME IInv, Next, ~dropped'
               PROVE  Numbers(ranges) \subseteq Numbers(ranges')
    OBVIOUS
  <2>1. CASE \E num \in PacketNumbers, should_ack \in BOOLEAN : Received(num, should_ack)
    <3>1. PICK num \in PacketNumbers, should_ack \in BOOLEAN : Received(num, should_ack)
      BY <2>1
    <3>2. Numbers(ranges)' = Numbers(ranges) \cup {num}
      BY <3>1, ReceivedList
    <3> QED
      BY <3>2 DEF Numbers
  <2>2. CASE Generate
    BY <2>2 DEF Generate
  <2>3. CASE Drop
    BY <2>3 DEF Drop
  <2> QED
    BY <2>1, <2>2, <2>3 DEF Next
<1> QED
  BY <1>1, AlwaysIInv, PTL DEF Spec, NeverForgets
=============================================================================
