---------------------------- MODULE ConnIdsProofs ----------------------------
(***************************************************************************)
(* Proofs about ConnIds, for any sessions, any supply of ids, any limit on *)
(* the ids and any number of ids that the peers issue and retire.          *)
(***************************************************************************)
EXTENDS ConnIds, DataLemmas

Frame ==
    [type : {"NEW_CONNECTION_ID"}, seq : Nat, retire : Nat, id : Ids \cup {"peer's"}]
        \cup [type : {"RETIRE_CONNECTION_ID"}, seq : Nat]

\* The states of the module.
Gens ==
    [ src_hseq : Nat,
      srcs : UNION {[ks -> Ids \cup {ClientChosen}] : ks \in SUBSET Nat},
      dst_hretire : Nat, dsts : SUBSET Nat, dst_active : Nat,
      dst : Int,
      ctrl : Seq(Frame) ]

\* g and h differ in the ids given to the peer only, but for the list of frames.
SameDsts(g, h) ==
    /\ h.dsts = g.dsts /\ h.dst_active = g.dst_active
    /\ h.dst = g.dst /\ h.dst_hretire = g.dst_hretire

SameSrcs(g, h) == h.srcs = g.srcs /\ h.src_hseq = g.src_hseq

-----------------------------------------------------------------------------
(***************************************************************************)
(* The operators of ConnIdGen.                                             *)
(***************************************************************************)
\* An id that was not there yet is added.
LEMMA SrcsAdded ==
    ASSUME NEW g \in Gens, NEW seq \in Nat, NEW id \in Ids
    PROVE  /\ WithSrc(g.srcs, seq, id) \in UNION {[ks -> Ids \cup {ClientChosen}] : ks \in SUBSET Nat}
           /\ DOMAIN WithSrc(g.srcs, seq, id) = DOMAIN g.srcs \cup {seq}
           /\ WithSrc(g.srcs, seq, id)[seq] = id
           /\ \A k \in DOMAIN g.srcs : k # seq => WithSrc(g.srcs, seq, id)[k] = g.srcs[k]
<1>1. PICK ks \in SUBSET Nat : g.srcs \in [ks -> Ids \cup {ClientChosen}]
  BY DEF Gens
<1>2. WithSrc(g.srcs, seq, id) \in [ks \cup {seq} -> Ids \cup {ClientChosen}]
  BY <1>1 DEF WithSrc
<1>3. ks \cup {seq} \in SUBSET Nat
  OBVIOUS
<1> QED
  BY <1>1, <1>2, <1>3 DEF WithSrc

\* What is appended to the list of control frames.
LEMMA Appended ==
    ASSUME NEW s \in Seq(Frame), NEW t \in Seq(Frame)
    PROVE  s \o t \in Seq(Frame) /\ ToSet(s \o t) = ToSet(s) \cup ToSet(t)
<1>1. /\ s \o t \in Seq(Frame) /\ Len(s \o t) = Len(s) + Len(t)
      /\ \A i \in 1 .. Len(s) + Len(t) :
            (s \o t)[i] = IF i <= Len(s) THEN s[i] ELSE t[i - Len(s)]
  BY ConcatProperties
<1> DEFINE c == s \o t
<1>2. /\ Len(c) = Len(s) + Len(t) /\ c \in Seq(Frame)
      /\ \A i \in 1 .. Len(s) + Len(t) : c[i] = IF i <= Len(s) THEN s[i] ELSE t[i - Len(s)]
  BY <1>1
<1> HIDE DEF c
<1>3. Len(s) \in Nat /\ Len(t) \in Nat
  OBVIOUS
<1>4. \A i \in 1 .. Len(s) : i \in 1 .. Len(c) /\ c[i] = s[i]
  BY <1>2, <1>3
<1>5. ASSUME NEW i \in 1 .. Len(t)
      PROVE  i + Len(s) \in 1 .. Len(c) /\ c[i + Len(s)] = t[i]
  <2>1. /\ i + Len(s) \in 1 .. Len(s) + Len(t) /\ ~ (i + Len(s) <= Len(s))
        /\ i + Len(s) - Len(s) = i
    BY <1>3
  <2> QED
    BY <1>2, <2>1
<1>6. \A i \in 1 .. Len(c) :
        \/ i \in 1 .. Len(s) /\ c[i] = s[i]
        \/ i - Len(s) \in 1 .. Len(t) /\ c[i] = t[i - Len(s)]
  BY <1>2, <1>3
<1>7. DOMAIN c = 1 .. Len(c) /\ DOMAIN s = 1 .. Len(s) /\ DOMAIN t = 1 .. Len(t)
  BY <1>2
<1>8. ToSet(c) \subseteq ToSet(s) \cup ToSet(t)
  <2>1. ASSUME NEW x \in ToSet(c) PROVE x \in ToSet(s) \cup ToSet(t)
    <3>1. PICK i \in 1 .. Len(c) : x = c[i]
      BY <1>7 DEF ToSet
    <3> QED
      BY <1>6, <1>7, <3>1 DEF ToSet
  <2> QED
    BY <2>1
<1>9. ToSet(s) \subseteq ToSet(c) /\ ToSet(t) \subseteq ToSet(c)
  BY <1>4, <1>5, <1>7 DEF ToSet
<1> QED
  BY <1>1, <1>8, <1>9 DEF c

\* The list with one frame more.
LEMMA AppendedOne ==
    ASSUME NEW s \in Seq(Frame), NEW f \in Frame
    PROVE  s \o <<f>> \in Seq(Frame) /\ ToSet(s \o <<f>>) = ToSet(s) \cup {f}
<1>1. <<f>> \in Seq(Frame) /\ ToSet(<<f>>) = {f}
  BY DEF ToSet
<1> QED
  BY <1>1, Appended

\* An id is issued.
LEMMA IssueSrcIs ==
    ASSUME NEW g \in Gens, NEW id \in Ids
    PROVE  LET h == IssueSrc(g, id)
           IN  /\ h \in Gens /\ SameDsts(g, h)
               /\ h.src_hseq = g.src_hseq + 1
               /\ h.srcs = WithSrc(g.srcs, g.src_hseq + 1, id)
               /\ ToSet(h.ctrl) = ToSet(g.ctrl) \cup {NewConnectionId(g.src_hseq + 1, 0, id)}
<1> DEFINE n == g.src_hseq + 1
           f == NewConnectionId(n, 0, id)
<1>1. n \in Nat /\ f \in Frame /\ g.ctrl \in Seq(Frame)
  BY DEF Gens, Frame, NewConnectionId
<1>2. g.ctrl \o <<f>> \in Seq(Frame) /\ ToSet(g.ctrl \o <<f>>) = ToSet(g.ctrl) \cup {f}
  BY <1>1, AppendedOne
<1>3. WithSrc(g.srcs, n, id) \in UNION {[ks -> Ids \cup {ClientChosen}] : ks \in SUBSET Nat}
  BY <1>1, SrcsAdded
<1>4. IssueSrc(g, id) =
        [g EXCEPT !.src_hseq = n, !.srcs = WithSrc(g.srcs, n, id), !.ctrl = g.ctrl \o <<f>>]
  BY DEF IssueSrc, FramerCtrl, Gens
<1> HIDE DEF n, f
<1> DEFINE c == g.ctrl \o <<f>>
           w == WithSrc(g.srcs, n, id)
<1>5. /\ c \in Seq(Frame) /\ w \in UNION {[ks -> Ids \cup {ClientChosen}] : ks \in SUBSET Nat}
      /\ IssueSrc(g, id) = [g EXCEPT !.src_hseq = n, !.srcs = w, !.ctrl = c]
  BY <1>2, <1>3, <1>4
<1> HIDE DEF c, w
<1>6. LET h == IssueSrc(g, id)
      IN  h \in Gens /\ SameDsts(g, h) /\ h.src_hseq = n /\ h.srcs = w /\ h.ctrl = c
  BY <1>1, <1>5 DEF Gens, SameDsts
<1> QED
  BY <1>2, <1>6 DEF n, f, c, w

-----------------------------------------------------------------------------
(***************************************************************************)
(* The loop of quic_session_set_transport_parameter.                       *)
(***************************************************************************)
IssueAll(g, drawn) == FoldLeft(IssueSrc, g, drawn)

\* What the fold must be at a set s of indices, given the smaller ones.
LoopAt(f, g, drawn, s) ==
    f[s] = IF s = {} THEN g ELSE IssueSrc(f[s \ {Max(s)}], drawn[Max(s)])

\* The largest element of a set of numbers up to n, if n is in it.
LEMMA MaxIs ==
    ASSUME NEW n \in Nat, NEW s \in SUBSET (1 .. n), n \in s
    PROVE  Max(s) = n
<1>1. \A y \in s : n >= y
  OBVIOUS
<1>2. Max(s) \in s /\ \A y \in s : Max(s) >= y
  BY <1>1 DEF Max
<1> HIDE DEF Max
<1>3. Max(s) \in 1 .. n
  BY <1>2
<1>4. Max(s) >= n
  BY <1>2
<1> QED
  BY <1>3, <1>4

IsLoop(f, g, drawn, n) ==
    f = [s \in SUBSET (1 .. n) |->
            IF s = {} THEN g ELSE IssueSrc(f[s \ {Max(s)}], drawn[Max(s)])]

\* The function that the fold is the last value of.
LEMMA LoopExists ==
    ASSUME NEW g, NEW drawn, NEW n \in Nat
    PROVE  \E f : IsLoop(f, g, drawn, n)
<1> DEFINE G == {m \in Nat : \E f : \A s \in SUBSET (1 .. m) : LoopAt(f, g, drawn, s)}
<1>1. 0 \in G
  <2> DEFINE f == [s \in {{}} |-> g]
  <2>1. \A s \in SUBSET (1 .. 0) : s = {} /\ f[s] = g
    OBVIOUS
  <2>2. \A s \in SUBSET (1 .. 0) : LoopAt(f, g, drawn, s)
    BY <2>1 DEF LoopAt
  <2> QED
    BY <2>2
<1>2. ASSUME NEW m \in Nat, m \in G PROVE m + 1 \in G
  <2>1. PICK f : \A s \in SUBSET (1 .. m) : LoopAt(f, g, drawn, s)
    BY <1>2
  <2> DEFINE h == [s \in SUBSET (1 .. m + 1) |->
                    IF m + 1 \in s THEN IssueSrc(f[s \ {m + 1}], drawn[m + 1]) ELSE f[s]]
  <2>2. ASSUME NEW s \in SUBSET (1 .. m) PROVE h[s] = f[s]
    <3>1. s \in SUBSET (1 .. m + 1) /\ m + 1 \notin s
      OBVIOUS
    <3> QED
      BY <3>1
  <2>3. ASSUME NEW s \in SUBSET (1 .. m + 1) PROVE LoopAt(h, g, drawn, s)
    <3>1. CASE m + 1 \in s
      <4>1. Max(s) = m + 1 /\ s # {}
        BY <3>1, MaxIs
      <4>2. s \ {m + 1} \in SUBSET (1 .. m)
        OBVIOUS
      <4>3. h[s \ {m + 1}] = f[s \ {m + 1}]
        BY <2>2, <4>2
      <4>4. h[s] = IssueSrc(f[s \ {m + 1}], drawn[m + 1])
        BY <3>1
      <4> HIDE DEF h
      <4> QED
        BY <4>1, <4>3, <4>4 DEF LoopAt
    <3>2. CASE m + 1 \notin s
      <4>1. s \in SUBSET (1 .. m)
        BY <3>2
      <4>2. h[s] = f[s] /\ LoopAt(f, g, drawn, s)
        BY <2>1, <2>2, <4>1
      <4>3. h[s \ {Max(s)}] = f[s \ {Max(s)}]
        BY <2>2, <4>1
      <4> HIDE DEF h
      <4> QED
        BY <4>2, <4>3 DEF LoopAt
    <3> QED
      BY <3>1, <3>2
  <2> HIDE DEF h
  <2> QED
    BY <2>3
<1>3. n \in G
  <2> HIDE DEF G
  <2> QED
    BY <1>1, <1>2, NatSetInduction
<1>4. PICK f : \A s \in SUBSET (1 .. n) : LoopAt(f, g, drawn, s)
  BY <1>3
<1> DEFINE h == [s \in SUBSET (1 .. n) |-> f[s]]
<1>5. h = [s \in SUBSET (1 .. n) |->
             IF s = {} THEN g ELSE IssueSrc(h[s \ {Max(s)}], drawn[Max(s)])]
  <2>1. ASSUME NEW s \in SUBSET (1 .. n)
        PROVE  f[s] = IF s = {} THEN g ELSE IssueSrc(h[s \ {Max(s)}], drawn[Max(s)])
    <3>1. s \ {Max(s)} \in SUBSET (1 .. n)
      OBVIOUS
    <3>2. h[s \ {Max(s)}] = f[s \ {Max(s)}]
      BY <3>1
    <3> HIDE DEF h
    <3> QED
      BY <1>4, <3>2 DEF LoopAt
  <2> QED
    BY <2>1
<1> QED
  BY <1>5 DEF IsLoop

\* The fold, by its function.
LEMMA LoopIs ==
    ASSUME NEW g, NEW n \in Nat, NEW drawn, DOMAIN drawn = 1 .. n
    PROVE  \E f : /\ IssueAll(g, drawn) = f[1 .. n]
                  /\ \A s \in SUBSET (1 .. n) : LoopAt(f, g, drawn, s)
<1> DEFINE F(f) == [s \in SUBSET (1 .. n) |->
                        IF s = {} THEN g ELSE IssueSrc(f[s \ {Max(s)}], drawn[Max(s)])]
           c == CHOOSE f : f = F(f)
<1>1. PICK e : IsLoop(e, g, drawn, n)
  BY LoopExists
<1>5. e = F(e)
  BY <1>1 DEF IsLoop
<1>2. c = F(c)
  BY <1>5, Zenon
<1>3. IssueAll(g, drawn) = c[1 .. n]
  BY DEF IssueAll, FoldLeft, MapThenFoldSet
<1> HIDE DEF c
<1>4. \A s \in SUBSET (1 .. n) : LoopAt(c, g, drawn, s)
  BY <1>2 DEF LoopAt
<1> QED
  BY <1>3, <1>4

\* What issuing an id for each of the drawn ones leaves.
LEMMA IssuedAll ==
    ASSUME NEW g \in Gens, NEW n \in Nat, NEW drawn \in [1 .. n -> Ids]
    PROVE  LET h == IssueAll(g, drawn)
           IN  /\ h \in Gens /\ SameDsts(g, h)
               /\ h.src_hseq = g.src_hseq + n
               /\ DOMAIN h.srcs = DOMAIN g.srcs \cup (g.src_hseq + 1 .. g.src_hseq + n)
               /\ \A k \in 1 .. n : h.srcs[g.src_hseq + k] = drawn[k]
               /\ \A k \in DOMAIN g.srcs : k <= g.src_hseq => h.srcs[k] = g.srcs[k]
               /\ \A f \in ToSet(h.ctrl) \ ToSet(g.ctrl) : f.type = "NEW_CONNECTION_ID"
<1>1. PICK f : /\ IssueAll(g, drawn) = f[1 .. n]
               /\ \A s \in SUBSET (1 .. n) : LoopAt(f, g, drawn, s)
  BY LoopIs
<1> DEFINE a == g.src_hseq
           Good(m) ==
               LET h == f[1 .. m]
               IN  /\ h \in Gens /\ SameDsts(g, h)
                   /\ h.src_hseq = a + m
                   /\ DOMAIN h.srcs = DOMAIN g.srcs \cup (a + 1 .. a + m)
                   /\ \A k \in 1 .. m : h.srcs[a + k] = drawn[k]
                   /\ \A k \in DOMAIN g.srcs : k <= a => h.srcs[k] = g.srcs[k]
                   /\ \A x \in ToSet(h.ctrl) \ ToSet(g.ctrl) : x.type = "NEW_CONNECTION_ID"
           G == {m \in Nat : m <= n => Good(m)}
<1>2. a \in Nat
  BY DEF Gens
<1>3. 0 \in G
  <2>1. 1 .. 0 = {} /\ {} \in SUBSET (1 .. n)
    OBVIOUS
  <2>2. f[1 .. 0] = g
    BY <1>1, <2>1 DEF LoopAt
  <2>3. a + 1 .. a + 0 = {}
    BY <1>2
  <2>4. Good(0)
    BY <1>2, <2>1, <2>2, <2>3 DEF SameDsts
  <2> QED
    BY <2>4
<1>4. ASSUME NEW m \in Nat, m \in G PROVE m + 1 \in G
  <2> SUFFICES ASSUME m + 1 <= n PROVE Good(m + 1)
    BY DEF G
  <2> DEFINE o == f[1 .. m]
             h == f[1 .. m + 1]
             id == drawn[m + 1]
             q == a + m + 1
  <2>1. Good(m)
    BY <1>4
  <2>2. h = IssueSrc(o, id)
    <3>1. 1 .. m + 1 \in SUBSET (1 .. n) /\ m + 1 \in 1 .. m + 1 /\ m + 1 \in Nat
      OBVIOUS
    <3>2. Max(1 .. m + 1) = m + 1
      BY <3>1, MaxIs
    <3>3. (1 .. m + 1) \ {m + 1} = 1 .. m
      OBVIOUS
    <3> QED
      BY <1>1, <3>1, <3>2, <3>3 DEF LoopAt
  <2>3. id \in Ids /\ o \in Gens /\ o.src_hseq + 1 = q /\ q \in Nat
    BY <1>2, <2>1
  <2> HIDE DEF h, o, id, q
  <2>4. /\ h \in Gens /\ SameDsts(o, h) /\ h.src_hseq = q
        /\ h.srcs = WithSrc(o.srcs, q, id)
        /\ ToSet(h.ctrl) = ToSet(o.ctrl) \cup {NewConnectionId(q, 0, id)}
    BY <2>2, <2>3, IssueSrcIs
  <2>5. /\ DOMAIN h.srcs = DOMAIN o.srcs \cup {q} /\ h.srcs[q] = id
        /\ \A k \in DOMAIN o.srcs : k # q => h.srcs[k] = o.srcs[k]
    <3> DEFINE w == WithSrc(o.srcs, q, id)
    <3>1. /\ DOMAIN w = DOMAIN o.srcs \cup {q} /\ w[q] = id
          /\ \A k \in DOMAIN o.srcs : k # q => w[k] = o.srcs[k]
      BY DEF WithSrc
    <3>2. h.srcs = w
      BY <2>4
    <3> HIDE DEF w
    <3> QED
      BY <3>1, <3>2
  <2>6. h.src_hseq = a + (m + 1) /\ SameDsts(g, h)
    <3>1. SameDsts(g, o)
      BY <2>1 DEF o
    <3>2. SameDsts(g, h)
      BY <2>4, <3>1 DEF SameDsts
    <3>3. a + m + 1 = a + (m + 1)
      BY <1>2
    <3> QED
      BY <2>4, <3>2, <3>3 DEF q
  <2>7. DOMAIN h.srcs = DOMAIN g.srcs \cup (a + 1 .. a + (m + 1))
    <3>1. a + 1 .. a + (m + 1) = (a + 1 .. a + m) \cup {q}
      BY <1>2 DEF q
    <3> QED
      BY <2>1, <2>5, <3>1 DEF o
  <2>8. ASSUME NEW k \in 1 .. m + 1 PROVE h.srcs[a + k] = drawn[k]
    <3>1. CASE k = m + 1
      <4>1. a + k = q
        BY <1>2, <3>1 DEF q
      <4> QED
        BY <2>5, <3>1, <4>1 DEF id
    <3>2. CASE k # m + 1
      <4>1. k \in 1 .. m /\ a + k # q /\ a + k \in a + 1 .. a + m
        BY <1>2, <3>2 DEF q
      <4> QED
        BY <2>1, <2>5, <4>1 DEF o
    <3> QED
      BY <3>1, <3>2
  <2>9. ASSUME NEW x \in ToSet(h.ctrl) \ ToSet(g.ctrl) PROVE x.type = "NEW_CONNECTION_ID"
    BY <2>1, <2>4 DEF o, NewConnectionId
  <2>10. ASSUME NEW k \in DOMAIN g.srcs, k <= a PROVE h.srcs[k] = g.srcs[k]
    <3>1. k \in Nat /\ k # q
      BY <1>2, <2>10, SMTT(60) DEF q, Gens
    <3>2. k \in DOMAIN o.srcs /\ o.srcs[k] = g.srcs[k]
      BY <2>1, <2>10 DEF o
    <3> QED
      BY <2>5, <3>1, <3>2
  <2> QED
    BY <2>4, <2>6, <2>7, <2>8, <2>9, <2>10 DEF h
<1>5. n \in G
  <2> HIDE DEF G
  <2> QED
    BY <1>3, <1>4, NatSetInduction
<1> QED
  BY <1>1, <1>5

-----------------------------------------------------------------------------
(***************************************************************************)
(* The ids of the peer.                                                    *)
(***************************************************************************)
\* How many numbers of S are smaller than k.
Rank(S, k) == Cardinality({j \in S : j < k})

IsAscending(o, S) ==
    /\ o \in [1 .. Cardinality(S) -> S]
    /\ \A i, j \in DOMAIN o : i < j => o[i] < o[j]

\* A finite set of numbers can be put in order.
LEMMA AscendingExists ==
    ASSUME NEW S \in SUBSET Nat, IsFiniteSet(S)
    PROVE  \E o : IsAscending(o, S)
<1> DEFINE n == Cardinality(S)
           r == [k \in S |-> Rank(S, k) + 1]
<1>1. n \in Nat
  BY FS_CardinalityType
<1>2. ASSUME NEW k \in S
      PROVE  Rank(S, k) \in Nat /\ Rank(S, k) < n
  <2>1. {j \in S : j < k} \in SUBSET (S \ {k})
    OBVIOUS
  <2>2. IsFiniteSet(S \ {k}) /\ Cardinality(S \ {k}) = n - 1
    BY FS_RemoveElement
  <2>3. Cardinality({j \in S : j < k}) <= n - 1 /\ IsFiniteSet({j \in S : j < k})
    BY <2>1, <2>2, FS_Subset
  <2>4. Cardinality({j \in S : j < k}) \in Nat
    BY <2>3, FS_CardinalityType
  <2> QED
    BY <1>1, <2>3, <2>4 DEF Rank
<1>3. ASSUME NEW j \in S, NEW k \in S, j < k
      PROVE  Rank(S, j) < Rank(S, k)
  <2> DEFINE J == {i \in S : i < j}
             K == {i \in S : i < k}
  <2>0. j \in Nat /\ k \in Nat
    OBVIOUS
  <2>6. \A i \in S : i < j => i < k /\ i # j
    BY <1>3, <2>0
  <2>1. J \in SUBSET (K \ {j}) /\ j \in K /\ K \in SUBSET S
    BY <1>3, <2>6
  <2>2. IsFiniteSet(K)
    BY <2>1, FS_Subset
  <2> HIDE DEF J, K
  <2>3. IsFiniteSet(K \ {j}) /\ Cardinality(K \ {j}) = Cardinality(K) - 1
    BY <2>1, <2>2, FS_RemoveElement
  <2>4. Cardinality(J) <= Cardinality(K) - 1 /\ IsFiniteSet(J)
    BY <2>1, <2>3, FS_Subset
  <2>5. Cardinality(J) \in Nat /\ Cardinality(K) \in Nat
    BY <2>2, <2>4, FS_CardinalityType
  <2> QED
    BY <2>4, <2>5 DEF Rank, J, K
<1>4. r \in [S -> 1 .. n]
  BY <1>1, <1>2
<1>5. ASSUME NEW j \in S, NEW k \in S, r[j] = r[k] PROVE j = k
  <2>1. j \in Nat /\ k \in Nat /\ Rank(S, j) = Rank(S, k)
    BY <1>2, <1>5
  <2> QED
    BY <1>2, <1>3, <2>1
<1> HIDE DEF r
<1>6. r \in Injection(S, 1 .. n)
  BY <1>4, <1>5 DEF Injection, IsInjective
<1>7. IsFiniteSet(1 .. n) /\ Cardinality(1 .. n) = n
  BY <1>1, FS_Interval
<1>8. r \in Surjection(S, 1 .. n)
  BY <1>6, <1>7, FS_Injection
<1>9. \A i \in 1 .. n : \E k \in S : r[k] = i
  BY <1>8 DEF Surjection
<1> DEFINE o == [i \in 1 .. n |-> CHOOSE k \in S : r[k] = i]
<1>10. \A i \in 1 .. n : o[i] \in S /\ r[o[i]] = i
  BY <1>9
<1>11. o \in [1 .. n -> S]
  BY <1>10
<1> HIDE DEF o, n
<1>12. ASSUME NEW i \in 1 .. n, NEW j \in 1 .. n, i < j PROVE o[i] < o[j]
  <2>1. /\ o[i] \in S /\ o[j] \in S /\ o[i] \in Nat /\ o[j] \in Nat
        /\ r[o[i]] = i /\ r[o[j]] = j
    BY <1>10
  <2>2. Rank(S, o[i]) + 1 = i /\ Rank(S, o[j]) + 1 = j
    BY <2>1 DEF r
  <2>3. Rank(S, o[i]) \in Nat /\ Rank(S, o[j]) \in Nat
    BY <1>2, <2>1
  <2>4. CASE o[j] < o[i]
    BY <1>3, <1>12, <2>1, <2>2, <2>3, <2>4
  <2>5. CASE o[j] = o[i]
    BY <1>1, <1>12, <2>1, <2>5
  <2> QED
    BY <2>1, <2>4, <2>5
<1> QED
  BY <1>11, <1>12 DEF IsAscending, n

\* The list of the numbers in order holds them all.
LEMMA AscendingIs ==
    ASSUME NEW S \in SUBSET Nat, IsFiniteSet(S)
    PROVE  /\ Ascending(S) \in Seq(Nat)
           /\ ToSet(Ascending(S)) = S
<1>1. PICK e : IsAscending(e, S)
  BY AscendingExists
<1> DEFINE o == Ascending(S)
           n == Cardinality(S)
<1>2. IsAscending(o, S)
  BY <1>1 DEF Ascending, IsAscending
<1> HIDE DEF o
<1>3. n \in Nat /\ IsFiniteSet(1 .. n) /\ Cardinality(1 .. n) = n
  BY FS_CardinalityType, FS_Interval
<1>4. o \in [1 .. n -> S] /\ DOMAIN o = 1 .. n
  BY <1>2 DEF IsAscending
<1>5. ASSUME NEW i \in 1 .. n, NEW j \in 1 .. n, o[i] = o[j] PROVE i = j
  <2>1. i < j => o[i] < o[j]
    BY <1>2, <1>4 DEF IsAscending
  <2>2. j < i => o[j] < o[i]
    BY <1>2, <1>4 DEF IsAscending
  <2>4. o[i] \in S /\ o[j] \in S
    BY <1>4
  <2>7. i \in Nat /\ j \in Nat
    BY <1>3
  <2>3. o[i] \in Nat /\ o[j] \in Nat
    BY <2>4
  <2>5. ~ (o[i] < o[j]) /\ ~ (o[j] < o[i])
    BY <1>5, <2>3
  <2>6. ~ (i < j) /\ ~ (j < i)
    BY <2>1, <2>2, <2>5
  <2> QED
    BY <2>6, <2>7
<1> HIDE DEF n
<1>6. o \in Injection(1 .. n, S)
  BY <1>4, <1>5 DEF Injection, IsInjective
<1>7. o \in Surjection(1 .. n, S)
  BY <1>3, <1>6, FS_Injection DEF n
<1>8. \A k \in S : \E i \in 1 .. n : o[i] = k
  BY <1>7 DEF Surjection
<1>9. ToSet(o) = S
  BY <1>4, <1>8 DEF ToSet
<1>10. o \in [1 .. n -> Nat]
  BY <1>4
<1>11. o \in Seq(Nat)
  BY <1>3, <1>10, SeqDef
<1> QED
  BY <1>9, <1>11 DEF o

\* Each number that is retired gets a frame, and nothing else does.
LEMMA RetirementsAre ==
    ASSUME NEW S \in SUBSET Nat, IsFiniteSet(S)
    PROVE  /\ Retirements(S) \in Seq(Frame)
           /\ ToSet(Retirements(S)) = {RetireConnectionId(k) : k \in S}
<1> DEFINE o == Ascending(S)
           n == Len(o)
           r == Retirements(S)
<1>1. o \in Seq(Nat) /\ ToSet(o) = S
  BY AscendingIs
<1>2. r = [i \in DOMAIN o |-> RetireConnectionId(o[i])]
  BY DEF Retirements
<1> HIDE DEF o, r
<1>3. n \in Nat /\ DOMAIN o = 1 .. n
  BY <1>1
<1>4. \A k \in Nat : RetireConnectionId(k) \in Frame
  BY DEF RetireConnectionId, Frame
<1>5. \A i \in 1 .. n : o[i] \in Nat
  BY <1>1
<1> HIDE DEF n
<1>6. r \in [1 .. n -> Frame]
  BY <1>2, <1>3, <1>4, <1>5
<1>7. r \in Seq(Frame)
  BY <1>3, <1>6, SeqDef
<1>8. ToSet(r) = {RetireConnectionId(o[i]) : i \in 1 .. n}
  BY <1>2, <1>3 DEF ToSet
<1>9. S = {o[i] : i \in 1 .. n}
  BY <1>1, <1>3 DEF ToSet
<1> QED
  BY <1>7, <1>8, <1>9 DEF r

\* The larger of two numbers.
LEMMA MaxOfTwo ==
    ASSUME NEW x \in Nat, NEW y \in Nat
    PROVE  Max({x, y}) = IF x >= y THEN x ELSE y
<1> DEFINE z == Max({x, y})
<1>1. \E w \in {x, y} : \A v \in {x, y} : w >= v
  OBVIOUS
<1>2. z \in {x, y} /\ \A v \in {x, y} : z >= v
  BY <1>1 DEF Max
<1> HIDE DEF z
<1>3. z \in {x, y} /\ z >= x /\ z >= y
  BY <1>2
<1>4. z = IF x >= y THEN x ELSE y
  BY <1>3
<1> QED
  BY <1>4 DEF z

\* The active id is given back, and the least of the others takes its place.
LEMMA UpdateDstIs ==
    ASSUME NEW g \in Gens, g.dsts \ {g.dst_active} # {}
    PROVE  LET h == UpdateDst(g)
           IN  /\ h \in Gens /\ SameSrcs(g, h)
               /\ h.dsts = g.dsts \ {g.dst_active}
               /\ h.dst = h.dst_active /\ h.dst_active \in h.dsts
               /\ h.dst_hretire = IF g.dst_hretire >= g.dst_active THEN g.dst_hretire ELSE g.dst_active
               /\ ToSet(h.ctrl) = ToSet(g.ctrl) \cup {RetireConnectionId(g.dst_active)}
<1> DEFINE rest == g.dsts \ {g.dst_active}
           m == Min(rest)
           t == Max({g.dst_hretire, g.dst_active})
           c == g.ctrl \o <<RetireConnectionId(g.dst_active)>>
<1>1. /\ g.dst_active \in Nat /\ g.dst_hretire \in Nat /\ g.ctrl \in Seq(Frame)
      /\ rest \in SUBSET Nat
  BY DEF Gens
<1>2. m \in rest
  BY <1>1, MinOfNats
<1>3. t = IF g.dst_hretire >= g.dst_active THEN g.dst_hretire ELSE g.dst_active
  BY <1>1, MaxOfTwo
<1>4. RetireConnectionId(g.dst_active) \in Frame
  BY <1>1 DEF RetireConnectionId, Frame
<1>5. c \in Seq(Frame) /\ ToSet(c) = ToSet(g.ctrl) \cup {RetireConnectionId(g.dst_active)}
  BY <1>1, <1>4, AppendedOne
<1>6. UpdateDst(g) =
        [g EXCEPT !.ctrl = c, !.dst_hretire = t, !.dsts = rest, !.dst = m, !.dst_active = m]
  BY DEF UpdateDst, FramerCtrl, Gens
<1>7. t \in Nat /\ m \in Nat /\ m \in Int
  BY <1>1, <1>2, <1>3
<1> HIDE DEF rest, m, t, c
<1>8. LET h == UpdateDst(g)
      IN  /\ h \in Gens /\ SameSrcs(g, h) /\ h.dsts = rest /\ h.dst = m /\ h.dst_active = m
          /\ h.dst_hretire = t /\ h.ctrl = c
  BY <1>1, <1>5, <1>6, <1>7 DEF Gens, SameSrcs
<1> QED
  BY <1>2, <1>3, <1>5, <1>8 DEF rest

\* What the peer keeps to, in the frames it issued.
KeepsToRfc(issued) ==
    /\ \A f \in issued : f.seq \in Nat \ {0} /\ f.retire \in Nat /\ f.retire <= f.seq
    /\ \A f, e \in issued : f.seq = e.seq => f = e

\* The ids of the peer that the module holds: none below the highest that was
\* given back, the active one among them, and none that a frame already handled
\* asked to have back.  No id was given back that is above the highest one, nor
\* the active one.
DstsOK(g, issued, sent) ==
    /\ g.dst_active \in g.dsts /\ g.dst = g.dst_active
    /\ \A k \in g.dsts : k >= g.dst_hretire
    /\ \A k \in g.dsts : k = 0 \/ \E f \in issued : f.seq = k
    /\ \A f \in issued : f.seq \in g.dsts => f.retire <= g.dst_hretire
    /\ \A k \in Nat : RetireConnectionId(k) \in sent => k <= g.dst_hretire /\ k # g.dst_active

\* A frame that comes late is answered, and changes nothing else.
LEMMA HandleLate ==
    ASSUME NEW g \in Gens, NEW issued, NEW sent, NEW f \in Frame, f.seq \in Nat,
           g.ctrl = <<>>, DstsOK(g, issued, sent), IsLate(g, f)
    PROVE  LET h == HandleNewConnectionId(g, f)
           IN  /\ h \in Gens /\ SameSrcs(g, h)
               /\ DstsOK(h, issued, sent \cup ToSet(h.ctrl))
               /\ h.dsts = g.dsts
               /\ RetireConnectionId(f.seq) \in ToSet(h.ctrl)
<1> DEFINE c == g.ctrl \o <<RetireConnectionId(f.seq)>>
           h == HandleNewConnectionId(g, f)
<1>1. h = [g EXCEPT !.ctrl = c]
  BY DEF HandleNewConnectionId, FramerCtrl
<1>2. g.ctrl \in Seq(Frame) /\ RetireConnectionId(f.seq) \in Frame /\ ToSet(g.ctrl) = {}
  BY DEF Gens, RetireConnectionId, Frame, ToSet
<1>3. c \in Seq(Frame) /\ ToSet(c) = {RetireConnectionId(f.seq)}
  BY <1>2, AppendedOne
<1> HIDE DEF c, h
<1>4. h \in Gens /\ SameSrcs(g, h) /\ SameDsts(g, h) /\ h.ctrl = c
  BY <1>1, <1>3 DEF Gens, SameSrcs, SameDsts
<1>5. f.seq < g.dst_hretire /\ g.dst_hretire \in Nat /\ g.dst_active \in Nat
      /\ g.dst_active >= g.dst_hretire
  BY DEF IsLate, DstsOK, Gens
<1>6. ASSUME NEW k \in Nat, RetireConnectionId(k) \in sent \cup ToSet(c)
      PROVE  k <= g.dst_hretire /\ k # g.dst_active
  <2>1. RetireConnectionId(k) \in sent \/ k = f.seq
    BY <1>3, <1>6 DEF RetireConnectionId
  <2> QED
    BY <1>5, <2>1 DEF DstsOK
<1>7. DstsOK(h, issued, sent \cup ToSet(h.ctrl))
  BY <1>4, <1>6 DEF DstsOK, SameDsts
<1> QED
  BY <1>3, <1>4, <1>7 DEF h, SameDsts

\* The ids that a frame asks to have back are given back.
KeptAfter(g, f) ==
    [FramerCtrl(g, Retirements(RetiredBy(g, f))) EXCEPT
        !.dsts = @ \ RetiredBy(g, f),
        !.dst_hretire = Max({@, f.retire})]

LEMMA KeptAfterIs ==
    ASSUME NEW g \in Gens, NEW f \in Frame, f.retire \in Nat, g.ctrl = <<>>
    PROVE  LET h == KeptAfter(g, f)
               gone == RetiredBy(g, f)
           IN  /\ h \in Gens /\ SameSrcs(g, h)
               /\ h.dsts = g.dsts \ gone
               /\ h.dst = g.dst /\ h.dst_active = g.dst_active
               /\ h.dst_hretire = IF g.dst_hretire >= f.retire THEN g.dst_hretire ELSE f.retire
               /\ ToSet(h.ctrl) = {RetireConnectionId(k) : k \in gone}
<1> DEFINE h == KeptAfter(g, f)
           gone == RetiredBy(g, f)
           t == Max({g.dst_hretire, f.retire})
           c == Retirements(gone)
<1>1. g.dst_hretire \in Nat /\ g.dsts \in SUBSET Nat
  BY DEF Gens
<1>2. gone \in SUBSET Nat /\ \A k \in gone : k <= f.retire
  BY <1>1 DEF RetiredBy
<1>3. IsFiniteSet(gone)
  BY <1>2, FS_BoundedSetOfNaturals
<1> HIDE DEF gone
<1>4. c \in Seq(Frame) /\ ToSet(c) = {RetireConnectionId(k) : k \in gone}
  BY <1>2, <1>3, RetirementsAre
<1>5. t = IF g.dst_hretire >= f.retire THEN g.dst_hretire ELSE f.retire
  BY <1>1, MaxOfTwo
<1>6. g.ctrl \o c = c
  BY <1>4, ConcatEmptySeq
<1>7. h = [g EXCEPT !.ctrl = c, !.dsts = g.dsts \ gone, !.dst_hretire = t]
  BY <1>6 DEF KeptAfter, FramerCtrl, Gens, gone
<1>8. t \in Nat
  BY <1>1, <1>5
<1> HIDE DEF h, t, c
<1>9. /\ h \in Gens /\ SameSrcs(g, h) /\ h.dsts = g.dsts \ gone
      /\ h.dst = g.dst /\ h.dst_active = g.dst_active /\ h.dst_hretire = t /\ h.ctrl = c
  BY <1>1, <1>4, <1>7, <1>8 DEF Gens, SameSrcs
<1> QED
  BY <1>4, <1>5, <1>9 DEF h, gone

\* The number of the frame is added to the ids.
LEMMA AddedIs ==
    ASSUME NEW g \in Gens, NEW q \in Nat
    PROVE  LET h == [g EXCEPT !.dsts = @ \cup {q}]
           IN  /\ h \in Gens /\ SameSrcs(g, h) /\ h.dsts = g.dsts \cup {q}
               /\ h.dst = g.dst /\ h.dst_active = g.dst_active
               /\ h.dst_hretire = g.dst_hretire /\ h.ctrl = g.ctrl
  BY DEF Gens, SameSrcs

\* A frame that is not late.
LEMMA HandleInTime ==
    ASSUME NEW g \in Gens, NEW issued, NEW sent, NEW f \in Frame, f \in issued,
           KeepsToRfc(issued), g.ctrl = <<>>, DstsOK(g, issued, sent), ~ IsLate(g, f)
    PROVE  LET h == HandleNewConnectionId(g, f)
           IN  /\ h \in Gens /\ SameSrcs(g, h)
               /\ DstsOK(h, issued, sent \cup ToSet(h.ctrl))
               /\ \A k \in g.dsts \cup {f.seq} :
                        k \in h.dsts \/ RetireConnectionId(k) \in ToSet(h.ctrl)
<1> DEFINE h == HandleNewConnectionId(g, f)
           gone == RetiredBy(g, f)
           kept == KeptAfter(g, f)
           added == [kept EXCEPT !.dsts = @ \cup {f.seq}]
           q == f.seq
           r == f.retire
           a == g.dst_active
           t == g.dst_hretire
           u == IF t >= r THEN t ELSE r
<1>1. /\ q \in Nat /\ q # 0 /\ r \in Nat /\ r <= q
      /\ a \in Nat /\ t \in Nat /\ a >= t /\ q >= t /\ a \in g.dsts /\ g.dst = a
      /\ g.dsts \in SUBSET Nat
  BY DEF KeepsToRfc, DstsOK, Gens, IsLate
<1>2. q \in g.dsts => r <= t
  BY DEF DstsOK
<1>3. gone = IF r > t THEN {k \in g.dsts : k <= r} ELSE {}
  BY DEF RetiredBy
<1>4. h = IF q = a THEN kept ELSE IF a <= r THEN UpdateDst(added) ELSE added
  <2>1. h = CASE q = a -> kept
              [] q # a /\ a <= r -> UpdateDst(added)
              [] q # a /\ a > r -> added
    BY DEF HandleNewConnectionId, KeptAfter
  <2>2. a <= r \/ a > r
    BY <1>1
  <2> HIDE DEF h, kept, added
  <2> QED
    BY <1>1, <2>1, <2>2
<1>5. /\ kept \in Gens /\ SameSrcs(g, kept) /\ kept.dsts = g.dsts \ gone
      /\ kept.dst = a /\ kept.dst_active = a /\ kept.dst_hretire = u
      /\ ToSet(kept.ctrl) = {RetireConnectionId(k) : k \in gone}
  BY <1>1, KeptAfterIs
<1> HIDE DEF kept
<1>6. /\ added \in Gens /\ SameSrcs(g, added) /\ added.dsts = (g.dsts \ gone) \cup {q}
      /\ added.dst = a /\ added.dst_active = a /\ added.dst_hretire = u
      /\ ToSet(added.ctrl) = {RetireConnectionId(k) : k \in gone}
  BY <1>1, <1>5, AddedIs DEF SameSrcs
<1> HIDE DEF added, h
<1>7. /\ u \in Nat /\ t <= u /\ q >= u /\ r <= u
      /\ \A k \in g.dsts \ gone : k >= u
      /\ \A k \in gone : k <= u
  BY <1>1, <1>3 DEF DstsOK
<1>8. q \notin gone
  BY <1>1, <1>2, <1>3
<1>9. \A e \in issued : e.seq \in (g.dsts \ gone) \cup {q} => e.retire <= u
  <2>1. ASSUME NEW e \in issued, e.seq \in g.dsts PROVE e.retire <= u
    <3>1. e.retire <= t /\ e.retire \in Nat
      BY <2>1 DEF DstsOK, KeepsToRfc
    <3> QED
      BY <1>1, <1>7, <3>1
  <2>2. ASSUME NEW e \in issued, e.seq = q PROVE e.retire <= u
    <3>1. e = f
      BY <2>2 DEF KeepsToRfc
    <3> QED
      BY <1>7, <3>1
  <2> QED
    BY <2>1, <2>2
<1>10. \A k \in (g.dsts \ gone) \cup {q} : k = 0 \/ \E e \in issued : e.seq = k
  BY DEF DstsOK
<1>11. ASSUME NEW k \in Nat, RetireConnectionId(k) \in sent
       PROVE  k <= t /\ k # a
  BY <1>11 DEF DstsOK
<1>12. \A k, j : RetireConnectionId(k) = RetireConnectionId(j) => k = j
  BY DEF RetireConnectionId
<1>13. CASE q = a
  <2>1. h = kept
    BY <1>4, <1>13
  <2>2. a \in h.dsts
    BY <1>1, <1>5, <1>8, <1>13, <2>1
  <2>3. ASSUME NEW k \in Nat, RetireConnectionId(k) \in sent \cup ToSet(h.ctrl)
        PROVE  k <= u /\ k # a
    <3>1. RetireConnectionId(k) \in sent \/ k \in gone
      BY <1>5, <1>12, <2>1, <2>3
    <3> QED
      BY <1>1, <1>7, <1>8, <1>11, <1>13, <3>1
  <2>4. DstsOK(h, issued, sent \cup ToSet(h.ctrl))
    BY <1>5, <1>7, <1>9, <1>10, <2>1, <2>2, <2>3 DEF DstsOK
  <2> QED
    BY <1>5, <1>13, <2>1, <2>2, <2>4 DEF h
<1>14. CASE q # a /\ a > r
  <2>1. h = added
    BY <1>1, <1>4, <1>14
  <2>2. a \in h.dsts /\ a \notin gone
    BY <1>1, <1>3, <1>6, <1>14, <2>1
  <2>3. ASSUME NEW k \in Nat, RetireConnectionId(k) \in sent \cup ToSet(h.ctrl)
        PROVE  k <= u /\ k # a
    <3>1. RetireConnectionId(k) \in sent \/ k \in gone
      BY <1>6, <1>12, <2>1, <2>3
    <3> QED
      BY <1>1, <1>7, <1>11, <2>2, <3>1
  <2>4. DstsOK(h, issued, sent \cup ToSet(h.ctrl))
    <3>1. \A k \in h.dsts : k >= u
      BY <1>6, <1>7, <2>1
    <3> QED
      BY <1>6, <1>9, <1>10, <2>1, <2>2, <2>3, <3>1 DEF DstsOK
  <2> QED
    BY <1>6, <2>1, <2>4 DEF h
<1>15. CASE q # a /\ a <= r
  <2>1. h = UpdateDst(added)
    BY <1>4, <1>15
  <2>2. q \in added.dsts \ {added.dst_active}
    BY <1>6, <1>15
  <2>3. /\ h \in Gens /\ SameSrcs(added, h)
        /\ h.dsts = added.dsts \ {a}
        /\ h.dst = h.dst_active /\ h.dst_active \in h.dsts
        /\ h.dst_hretire = IF u >= a THEN u ELSE a
        /\ ToSet(h.ctrl) = ToSet(added.ctrl) \cup {RetireConnectionId(a)}
    BY <1>6, <2>1, <2>2, UpdateDstIs
  <2>4. u >= a /\ h.dst_hretire = u
    BY <1>1, <1>7, <1>15, <2>3
  <2>5. \A k \in h.dsts : k \in Nat /\ k >= u /\ k \in (g.dsts \ gone) \cup {q} /\ k # a
    BY <1>1, <1>6, <1>7, <2>3
  <2>6. ASSUME NEW k \in Nat, RetireConnectionId(k) \in sent \cup ToSet(h.ctrl)
        PROVE  k <= u /\ k \notin h.dsts
    <3>1. RetireConnectionId(k) \in sent \/ k \in gone \/ k = a
      BY <1>6, <1>12, <2>3, <2>6
    <3>2. CASE RetireConnectionId(k) \in sent
      <4>1. k <= t /\ k <= u /\ k # a
        BY <1>1, <1>7, <1>11, <3>2
      <4>2. CASE r > t
        \* Then everything that is held is above r, or is q.
        <5>1. u = r /\ k < r /\ k < u
          BY <1>1, <4>1, <4>2
        <5> QED
          BY <1>7, <2>5, <4>1, <5>1
      <4>3. CASE ~ (r > t)
        \* Then the active id is the highest that was given back.
        <5>1. u = t /\ a = t /\ k < u
          BY <1>1, <1>15, <4>1, <4>3
        <5> QED
          BY <1>7, <2>5, <4>1, <5>1
      <4> QED
        BY <4>2, <4>3
    <3>3. CASE k \in gone
      BY <1>6, <1>7, <1>8, <2>3, <3>3
    <3>4. CASE k = a
      BY <2>3, <2>4, <3>4
    <3> QED
      BY <3>1, <3>2, <3>3, <3>4
  <2>7. DstsOK(h, issued, sent \cup ToSet(h.ctrl))
    <3>1. \A e \in issued : e.seq \in h.dsts => e.retire <= u
      BY <1>9, <2>5
    <3>2. \A k \in h.dsts : k = 0 \/ \E e \in issued : e.seq = k
      BY <1>10, <2>5
    <3> QED
      BY <2>3, <2>4, <2>5, <2>6, <3>1, <3>2 DEF DstsOK
  <2>8. ASSUME NEW k \in g.dsts \cup {q}
        PROVE  k \in h.dsts \/ RetireConnectionId(k) \in ToSet(h.ctrl)
    BY <1>6, <2>3, <2>8
  <2>9. SameSrcs(g, h)
    BY <1>6, <2>3 DEF SameSrcs
  <2> QED
    BY <2>3, <2>7, <2>8, <2>9 DEF h
<1>16. a > r \/ a <= r
  BY <1>1
<1> QED
  BY <1>13, <1>14, <1>15, <1>16

-----------------------------------------------------------------------------
(***************************************************************************)
(* The inductive invariant: what holds of each session, and of the map.    *)
(***************************************************************************)
Statuses == {"none", "initial", "open", "closing", "closed"}

TypesOK ==
    /\ status \in [Sessions -> Statuses]
    /\ gen \in [Sessions -> Gens]
    /\ DOMAIN sessions \in SUBSET Ids
    /\ sessions \in [DOMAIN sessions -> Sessions]
    /\ from_peer \in [Sessions -> SUBSET Frame]
    /\ to_peer \in [Sessions -> SUBSET Frame]
    /\ heard \in [Sessions -> SUBSET Nat]

\* The ids given out: numbered up to the highest, all different, and always as
\* many as the peer asked for.
Held(g) == {k \in DOMAIN g.srcs : k # 0}

SrcsOK(g) ==
    /\ DOMAIN g.srcs \subseteq 0 .. g.src_hseq
    /\ \A k \in Held(g) : g.srcs[k] \in Ids
    /\ 0 \in DOMAIN g.srcs => g.srcs[0] = ClientChosen
    /\ \A j, k \in Held(g) : g.srcs[j] = g.srcs[k] => j = k
    /\ IsFiniteSet(Held(g))
    /\ Held(g) # {} => Cardinality(Held(g)) = ActiveConnId

NewFrames(from) == {f \in from : f.type = "NEW_CONNECTION_ID"}

PeerOK(from) ==
    /\ IsFiniteSet(from)
    /\ KeepsToRfc(NewFrames(from))
    /\ \A f \in NewFrames(from) : f.seq <= Cardinality(NewFrames(from))

Fits(st, g, from, sent, hd) ==
    /\ g.ctrl = <<>>
    /\ SrcsOK(g)
    /\ st \in {"none", "initial"} => g = Started(ClientChosen)
    /\ PeerOK(from)
    /\ DstsOK(g, NewFrames(from), sent)
    /\ \A seq \in hd : seq \in g.dsts \/ RetireConnectionId(seq) \in sent

SessionOK(s) == Fits(status[s], gen[s], from_peer[s], to_peer[s], heard[s])

RoutesTo(map, s, g) == {id \in DOMAIN map : map[id] = s} = {g.srcs[k] : k \in Held(g)}

IInv ==
    /\ TypesOK
    /\ \A s \in Sessions : SessionOK(s) /\ RoutesTo(sessions, s, gen[s])

\* A module that was just started, whatever its peer has sent.
LEMMA StartedFits ==
    LET g == Started(ClientChosen)
    IN  /\ g \in Gens /\ SrcsOK(g) /\ g.ctrl = <<>> /\ Held(g) = {}
        /\ g.src_hseq = 0 /\ DOMAIN g.srcs = {0}
        /\ DstsOK(g, {}, {}) /\ g.dsts = {0}
<1> DEFINE g == Started(ClientChosen)
           e == [k \in {0} |-> ClientChosen]
<1>1. g = [ src_hseq |-> 0, srcs |-> e, dst_hretire |-> 0, dsts |-> {0},
            dst_active |-> 0, dst |-> 0, ctrl |-> <<>> ]
  BY DEF Started
<1>2. e \in [{0} -> Ids \cup {ClientChosen}] /\ {0} \in SUBSET Nat /\ DOMAIN e = {0}
      /\ e[0] = ClientChosen
  OBVIOUS
<1>3. <<>> \in Seq(Frame)
  OBVIOUS
<1> HIDE DEF g, e
<1>4. g \in Gens
  BY <1>1, <1>2, <1>3 DEF Gens
<1>5. Held(g) = {}
  BY <1>1, <1>2 DEF Held
<1>6. /\ g.src_hseq = 0 /\ DOMAIN g.srcs = {0} /\ g.srcs[0] = ClientChosen
      /\ g.ctrl = <<>> /\ g.dsts = {0}
  BY <1>1, <1>2
<1>7. SrcsOK(g)
  <2>1. IsFiniteSet(Held(g))
    BY <1>5, FS_EmptySet
  <2>2. DOMAIN g.srcs \subseteq 0 .. g.src_hseq
    BY <1>6
  <2> QED
    BY <1>5, <1>6, <2>1, <2>2 DEF SrcsOK
<1>8. DstsOK(g, {}, {})
  BY <1>1 DEF DstsOK
<1> QED
  BY <1>4, <1>5, <1>6, <1>7, <1>8 DEF g

\* What the module queued is taken from it.
LEMMA Emptied ==
    ASSUME NEW g \in Gens
    PROVE  LET h == [g EXCEPT !.ctrl = <<>>]
           IN  h \in Gens /\ SameSrcs(g, h) /\ SameDsts(g, h) /\ h.ctrl = <<>>
<1>1. <<>> \in Seq(Frame)
  OBVIOUS
<1> QED
  BY <1>1 DEF Gens, SameSrcs, SameDsts

\* The invariants look at their half of the module only.
LEMMA DstsSame ==
    ASSUME NEW g, NEW h, NEW issued, NEW sent, SameDsts(g, h), DstsOK(g, issued, sent)
    PROVE  DstsOK(h, issued, sent)
  BY DEF SameDsts, DstsOK

LEMMA SrcsSame ==
    ASSUME NEW g, NEW h, SameSrcs(g, h), SrcsOK(g)
    PROVE  SrcsOK(h) /\ Held(h) = Held(g)
           /\ \A map, s : RoutesTo(map, s, g) => RoutesTo(map, s, h)
  BY DEF SameSrcs, SrcsOK, Held, RoutesTo

\* Frames that give the peer ids say nothing of the peer's.
LEMMA DstsMore ==
    ASSUME NEW g, NEW issued, NEW sent, NEW more, DstsOK(g, issued, sent),
           \A f \in more : f.type = "NEW_CONNECTION_ID"
    PROVE  DstsOK(g, issued, sent \cup more)
<1>1. \A k : RetireConnectionId(k) \notin more
  BY DEF RetireConnectionId
<1> QED
  BY <1>1 DEF DstsOK

LEMMA InitIInv == Init => IInv
<1> SUFFICES ASSUME Init PROVE IInv
  OBVIOUS
<1> DEFINE g == Started(ClientChosen)
<1>1. /\ g \in Gens /\ SrcsOK(g) /\ g.ctrl = <<>> /\ Held(g) = {}
      /\ DstsOK(g, {}, {}) /\ g.dsts = {0}
  BY StartedFits
<1> HIDE DEF g
<1>2. /\ status = [s \in Sessions |-> "none"] /\ gen = [s \in Sessions |-> g]
      /\ sessions = [id \in {} |-> "none"]
      /\ from_peer = [s \in Sessions |-> {}] /\ to_peer = [s \in Sessions |-> {}]
      /\ heard = [s \in Sessions |-> {0}]
  BY DEF Init, g
<1>3. TypesOK
  BY <1>1, <1>2 DEF TypesOK, Statuses
<1>4. NewFrames({}) = {} /\ PeerOK({})
  BY FS_EmptySet DEF NewFrames, PeerOK, KeepsToRfc
<1>5. ASSUME NEW s \in Sessions PROVE SessionOK(s)
  BY <1>1, <1>2, <1>4 DEF SessionOK, Fits, g
<1>6. ASSUME NEW s \in Sessions PROVE RoutesTo(sessions, s, gen[s])
  BY <1>1, <1>2 DEF RoutesTo
<1> QED
  BY <1>3, <1>5, <1>6 DEF IInv

-----------------------------------------------------------------------------
(***************************************************************************)
(* The actions.  Each changes one session, and at most its routes.         *)
(***************************************************************************)
\* It is enough to look at the session that takes the step.
LEMMA OneSession ==
    ASSUME IInv, TypesOK', NEW s \in Sessions, SessionOK(s)',
           \A t \in Sessions \ {s} :
                /\ status'[t] = status[t] /\ gen'[t] = gen[t] /\ from_peer'[t] = from_peer[t]
                /\ to_peer'[t] = to_peer[t] /\ heard'[t] = heard[t],
           \A t \in Sessions : RoutesTo(sessions', t, gen'[t])
    PROVE  IInv'
<1>1. ASSUME NEW t \in Sessions \ {s} PROVE SessionOK(t)'
  BY DEF IInv, SessionOK
<1> QED
  BY <1>1 DEF IInv

\* A session that is accepted, and one that is closed.
LEMMA IInvStatus ==
    ASSUME IInv, NEW s \in Sessions, Accept(s) \/ Close(s)
    PROVE  IInv'
<1>1. \E st \in Statuses :
        /\ status' = [status EXCEPT ![s] = st]
        /\ st \in {"none", "initial"} => status[s] \in {"none", "initial"}
  BY DEF Accept, Close, Statuses
<1>2. UNCHANGED <<gen, sessions, from_peer, to_peer, heard>>
  BY DEF Accept, Close
<1>3. TypesOK'
  BY <1>1, <1>2 DEF IInv, TypesOK
<1>4. /\ status'[s] \in {"none", "initial"} => status[s] \in {"none", "initial"}
      /\ \A t \in Sessions \ {s} : status'[t] = status[t]
  BY <1>1 DEF IInv, TypesOK
<1>5. SessionOK(s)'
  BY <1>2, <1>4 DEF IInv, SessionOK, Fits
<1>6. \A t \in Sessions : RoutesTo(sessions', t, gen'[t])
  BY <1>2 DEF IInv
<1> QED
  BY <1>2, <1>3, <1>4, <1>5, <1>6, OneSession

\* The module is left with what it queued handed over.
LEMMA LeaveIs ==
    ASSUME IInv, NEW s \in Sessions, NEW h \in Gens, Leave(s, h)
    PROVE  /\ gen' \in [Sessions -> Gens]
           /\ to_peer' \in [Sessions -> SUBSET Frame]
           /\ to_peer'[s] = to_peer[s] \cup ToSet(h.ctrl)
           /\ gen'[s] \in Gens /\ SameSrcs(h, gen'[s]) /\ SameDsts(h, gen'[s]) /\ gen'[s].ctrl = <<>>
           /\ \A t \in Sessions \ {s} : gen'[t] = gen[t] /\ to_peer'[t] = to_peer[t]
<1> DEFINE e == [h EXCEPT !.ctrl = <<>>]
<1>1. e \in Gens /\ SameSrcs(h, e) /\ SameDsts(h, e) /\ e.ctrl = <<>>
  BY Emptied
<1>2. gen' = [gen EXCEPT ![s] = e]
  BY DEF Leave
<1> HIDE DEF e
<1>3. ToSet(h.ctrl) \subseteq Frame
  BY DEF Gens, ToSet
<1>4. to_peer' = [to_peer EXCEPT ![s] = @ \cup ToSet(h.ctrl)]
  BY DEF Leave
<1> QED
  BY <1>1, <1>2, <1>3, <1>4 DEF IInv, TypesOK

\* The ids asked for are drawn, routed and given to the peer.
LEMMA IInvSetTransportParameter ==
    ASSUME IInv, NEW s \in Sessions, SetTransportParameter(s)
    PROVE  IInv'
<1> DEFINE g == gen[s]
           n == ActiveConnId
<1>0. n \in Nat
  BY BoundsAssumption
<1>1. PICK drawn \in [1 .. n -> FreeIds] :
        /\ IsInjective(drawn)
        /\ Leave(s, IssueAll(g, drawn))
        /\ sessions' = Routing(sessions, Range(drawn), s)
  BY DEF SetTransportParameter, IssueAll
<1> DEFINE h == IssueAll(g, drawn)
           new == gen'[s]
           ids == Range(drawn)
<1>2. /\ status' = [status EXCEPT ![s] = "open"] /\ status[s] = "initial"
      /\ UNCHANGED <<from_peer, heard>>
  BY DEF SetTransportParameter
<1>3. /\ g = Started(ClientChosen) /\ g \in Gens /\ SessionOK(s)
      /\ Held(g) = {} /\ g.src_hseq = 0 /\ DOMAIN g.srcs = {0}
      /\ SrcsOK(g) /\ g.ctrl = <<>>
  BY <1>2, StartedFits DEF IInv, SessionOK, Fits, TypesOK
<1>4. /\ drawn \in [1 .. n -> Ids] /\ ids \subseteq Ids /\ ids \cap DOMAIN sessions = {}
      /\ ids = {drawn[k] : k \in 1 .. n}
  BY DEF FreeIds, Range
<1>5. /\ h \in Gens /\ SameDsts(g, h) /\ h.src_hseq = g.src_hseq + n
      /\ DOMAIN h.srcs = DOMAIN g.srcs \cup (g.src_hseq + 1 .. g.src_hseq + n)
      /\ \A k \in 1 .. n : h.srcs[g.src_hseq + k] = drawn[k]
      /\ \A f \in ToSet(h.ctrl) \ ToSet(g.ctrl) : f.type = "NEW_CONNECTION_ID"
      /\ \A k \in DOMAIN g.srcs : k <= g.src_hseq => h.srcs[k] = g.srcs[k]
  <2> HIDE DEF g, n, h
  <2>1. g \in Gens /\ n \in Nat /\ drawn \in [1 .. n -> Ids]
    BY <1>0, <1>3, <1>4
  <2> QED
    BY <2>1, IssuedAll, Zenon DEF h
<1> HIDE DEF h, g
<1>6. /\ gen' \in [Sessions -> Gens] /\ to_peer' \in [Sessions -> SUBSET Frame]
      /\ to_peer'[s] = to_peer[s] \cup ToSet(h.ctrl)
      /\ new \in Gens /\ SameSrcs(h, new) /\ SameDsts(h, new) /\ new.ctrl = <<>>
      /\ \A t \in Sessions \ {s} : gen'[t] = gen[t] /\ to_peer'[t] = to_peer[t]
  BY <1>1, <1>5, LeaveIs DEF h
<1>7. /\ new.src_hseq = n /\ DOMAIN new.srcs = {0} \cup 1 .. n
      /\ \A k \in 1 .. n : new.srcs[k] = drawn[k]
  <2>1. g.src_hseq + 1 = 1 /\ g.src_hseq + n = n /\ \A k \in 1 .. n : g.src_hseq + k = k
    BY <1>0, <1>3
  <2> QED
    BY <1>3, <1>5, <1>6, <2>1 DEF SameSrcs
<1> HIDE DEF new
<1>8. Held(new) = 1 .. n
  BY <1>0, <1>7 DEF Held
<1>9. SrcsOK(new)
  <2>1. IsFiniteSet(1 .. n) /\ Cardinality(1 .. n) = n
    BY <1>0, FS_Interval
  <2>2. DOMAIN new.srcs \subseteq 0 .. new.src_hseq
    BY <1>0, <1>7
  <2>3. \A k \in Held(new) : new.srcs[k] \in Ids
    BY <1>4, <1>7, <1>8
  <2>4. \A j, k \in Held(new) : new.srcs[j] = new.srcs[k] => j = k
    BY <1>1, <1>4, <1>7, <1>8 DEF IsInjective
  <2>5. new.srcs[0] = ClientChosen
    <3>1. h.srcs[0] = g.srcs[0] /\ g.srcs[0] = ClientChosen
      BY <1>3, <1>5 DEF SrcsOK
    <3> QED
      BY <1>6, <3>1 DEF SameSrcs
  <2> QED
    BY <1>8, <2>1, <2>2, <2>3, <2>4, <2>5 DEF SrcsOK
<1>10. DstsOK(new, NewFrames(from_peer[s]), to_peer'[s])
  <2>1. DstsOK(g, NewFrames(from_peer[s]), to_peer[s]) /\ ToSet(g.ctrl) = {}
    BY <1>3 DEF SessionOK, Fits, ToSet, g
  <2>3. \A f \in ToSet(h.ctrl) : f.type = "NEW_CONNECTION_ID"
    BY <1>5, <2>1
  <2>4. DstsOK(g, NewFrames(from_peer[s]), to_peer[s] \cup ToSet(h.ctrl))
    BY <2>1, <2>3, DstsMore, Zenon
  <2>2. DstsOK(g, NewFrames(from_peer[s]), to_peer'[s])
    BY <1>6, <2>4
  <2> QED
    BY <1>5, <1>6, <2>2, DstsSame
<1>11. SessionOK(s)'
  <2>1. \A seq \in heard[s] : seq \in new.dsts \/ RetireConnectionId(seq) \in to_peer'[s]
    BY <1>3, <1>5, <1>6 DEF SessionOK, Fits, SameDsts, g
  <2>2. status'[s] = "open" /\ from_peer'[s] = from_peer[s] /\ heard'[s] = heard[s]
        /\ PeerOK(from_peer[s])
    BY <1>2, <1>3 DEF IInv, TypesOK, SessionOK, Fits
  <2> QED
    BY <1>6, <1>9, <1>10, <2>1, <2>2 DEF SessionOK, Fits, new
<1>12. /\ DOMAIN sessions' = DOMAIN sessions \cup ids
       /\ \A id \in DOMAIN sessions' : sessions'[id] = IF id \in ids THEN s ELSE sessions[id]
       /\ sessions' = [id \in DOMAIN sessions' |-> sessions'[id]]
  BY <1>1 DEF Routing
<1>13. TypesOK'
  <2>1. DOMAIN sessions' \in SUBSET Ids
    BY <1>4, <1>12 DEF IInv, TypesOK
  <2>2. \A id \in DOMAIN sessions' : sessions'[id] \in Sessions
    BY <1>12 DEF IInv, TypesOK
  <2>3. sessions' \in [DOMAIN sessions' -> Sessions]
    BY <1>12, <2>2
  <2>4. status' \in [Sessions -> Statuses]
    BY <1>2 DEF IInv, TypesOK, Statuses
  <2> QED
    BY <1>2, <1>6, <2>1, <2>3, <2>4 DEF IInv, TypesOK
<1>14. ASSUME NEW t \in Sessions PROVE RoutesTo(sessions', t, gen'[t])
  <2>1. {id \in DOMAIN sessions : sessions[id] = s} = {}
    BY <1>3 DEF IInv, RoutesTo, g
  <2>2. CASE t = s
    <3>1. {id \in DOMAIN sessions' : sessions'[id] = s} = ids
      BY <1>4, <1>12, <2>1
    <3>2. {new.srcs[k] : k \in Held(new)} = ids
      BY <1>4, <1>7, <1>8
    <3> QED
      BY <2>2, <3>1, <3>2 DEF RoutesTo, new
  <2>3. CASE t # s
    <3>1. {id \in DOMAIN sessions' : sessions'[id] = t} = {id \in DOMAIN sessions : sessions[id] = t}
      BY <1>4, <1>12, <2>3
    <3> QED
      BY <1>6, <2>3, <3>1 DEF IInv, RoutesTo
  <2> QED
    BY <2>2, <2>3
<1>15. \A t \in Sessions \ {s} :
        /\ status'[t] = status[t] /\ gen'[t] = gen[t] /\ from_peer'[t] = from_peer[t]
        /\ to_peer'[t] = to_peer[t] /\ heard'[t] = heard[t]
  BY <1>2, <1>6 DEF IInv, TypesOK
<1> QED
  BY <1>11, <1>13, <1>14, <1>15, OneSession

\* NEW_CONNECTION_ID, late or in time.
LEMMA IInvHandleNewConnId ==
    ASSUME IInv, NEW s \in Sessions, NEW f \in from_peer[s], HandleNewConnId(s, f)
    PROVE  IInv'
<1> DEFINE g == gen[s]
           h == HandleNewConnectionId(g, f)
           new == gen'[s]
           issued == NewFrames(from_peer[s])
           sent == to_peer[s]
<1>1. /\ g \in Gens /\ g.ctrl = <<>> /\ SrcsOK(g) /\ DstsOK(g, issued, sent)
      /\ PeerOK(from_peer[s]) /\ KeepsToRfc(issued)
      /\ \A seq \in heard[s] : seq \in g.dsts \/ RetireConnectionId(seq) \in sent
  BY DEF IInv, TypesOK, SessionOK, Fits, PeerOK
<1>2. f \in issued /\ f \in Frame /\ f.seq \in Nat
  BY <1>1 DEF HandleNewConnId, NewFrames, IInv, TypesOK, KeepsToRfc
<1>3. /\ status[s] \in {"open", "closing"} /\ Leave(s, h)
      /\ heard' = [heard EXCEPT ![s] = @ \cup {f.seq}]
      /\ UNCHANGED <<status, sessions, from_peer>>
  BY DEF HandleNewConnId, Handles
<1> HIDE DEF g, issued, sent
<1>4. /\ h \in Gens /\ SameSrcs(g, h) /\ DstsOK(h, issued, sent \cup ToSet(h.ctrl))
      /\ \A k \in g.dsts \cup {f.seq} : k \in h.dsts \/ RetireConnectionId(k) \in ToSet(h.ctrl)
  <2>1. CASE IsLate(g, f)
    BY <1>1, <1>2, <2>1, HandleLate
  <2>2. CASE ~ IsLate(g, f)
    BY <1>1, <1>2, <2>2, HandleInTime
  <2> QED
    BY <2>1, <2>2
<1> HIDE DEF h
<1>5. /\ gen' \in [Sessions -> Gens] /\ to_peer' \in [Sessions -> SUBSET Frame]
      /\ to_peer'[s] = sent \cup ToSet(h.ctrl)
      /\ new \in Gens /\ SameSrcs(h, new) /\ SameDsts(h, new) /\ new.ctrl = <<>>
      /\ \A t \in Sessions \ {s} : gen'[t] = gen[t] /\ to_peer'[t] = to_peer[t]
  BY <1>3, <1>4, LeaveIs DEF sent
<1> HIDE DEF new
<1>6. SameSrcs(g, new) /\ new.dsts = h.dsts
  BY <1>4, <1>5 DEF SameSrcs, SameDsts
<1>7. SrcsOK(new) /\ \A map, t : RoutesTo(map, t, g) => RoutesTo(map, t, new)
  BY <1>1, <1>6, SrcsSame
<1>8. DstsOK(new, issued, to_peer'[s])
  BY <1>4, <1>5, DstsSame
<1>9. \A seq \in heard[s] \cup {f.seq} :
        seq \in new.dsts \/ RetireConnectionId(seq) \in to_peer'[s]
  BY <1>1, <1>4, <1>5, <1>6
<1>10. heard'[s] = heard[s] \cup {f.seq} /\ \A t \in Sessions \ {s} : heard'[t] = heard[t]
  BY <1>3 DEF IInv, TypesOK
<1>11. TypesOK'
  BY <1>2, <1>3, <1>5 DEF IInv, TypesOK
<1>12. SessionOK(s)'
  BY <1>1, <1>3, <1>5, <1>7, <1>8, <1>9, <1>10 DEF SessionOK, Fits, new, issued
<1>13. ASSUME NEW t \in Sessions PROVE RoutesTo(sessions', t, gen'[t])
  BY <1>3, <1>5, <1>7 DEF IInv, g, new
<1> QED
  BY <1>3, <1>5, <1>10, <1>11, <1>12, <1>13, OneSession

\* The module without the id seq.
LEMMA WithoutSrcIs ==
    ASSUME NEW g \in Gens, NEW seq \in Nat
    PROVE  LET h == WithoutSrc(g, seq)
           IN  /\ h \in Gens /\ SameDsts(g, h) /\ h.ctrl = g.ctrl /\ h.src_hseq = g.src_hseq
               /\ DOMAIN h.srcs = DOMAIN g.srcs \ {seq}
               /\ \A k \in DOMAIN h.srcs : h.srcs[k] = g.srcs[k]
<1> DEFINE e == [k \in DOMAIN g.srcs \ {seq} |-> g.srcs[k]]
<1>1. PICK ks \in SUBSET Nat : g.srcs \in [ks -> Ids \cup {ClientChosen}]
  BY DEF Gens
<1>2. e \in [ks \ {seq} -> Ids \cup {ClientChosen}] /\ ks \ {seq} \in SUBSET Nat
  BY <1>1
<1>3. e \in UNION {[l -> Ids \cup {ClientChosen}] : l \in SUBSET Nat}
  BY <1>2
<1>4. DOMAIN e = DOMAIN g.srcs \ {seq} /\ \A k \in DOMAIN e : e[k] = g.srcs[k]
  OBVIOUS
<1>5. WithoutSrc(g, seq) = [g EXCEPT !.srcs = e]
  BY DEF WithoutSrc, Gens
<1> HIDE DEF e
<1>6. LET h == WithoutSrc(g, seq)
      IN  /\ h \in Gens /\ SameDsts(g, h) /\ h.ctrl = g.ctrl /\ h.src_hseq = g.src_hseq
          /\ h.srcs = e
  BY <1>3, <1>5 DEF Gens, SameDsts
<1> QED
  BY <1>4, <1>6

\* An id is taken back and another one given out in its place.
LEMMA Replaced ==
    ASSUME NEW g \in Gens, SrcsOK(g), NEW q \in Held(g), NEW id \in Ids,
           \A k \in Held(g) \ {q} : g.srcs[k] # id
    PROVE  LET h == RetireSrc(g, q, id)
           IN  /\ h \in Gens /\ SameDsts(g, h) /\ SrcsOK(h)
               /\ {h.srcs[k] : k \in Held(h)} = {g.srcs[k] : k \in Held(g) \ {q}} \cup {id}
               /\ \A x \in ToSet(h.ctrl) \ ToSet(g.ctrl) : x.type = "NEW_CONNECTION_ID"
<1> DEFINE w == WithoutSrc(g, q)
           h == RetireSrc(g, q, id)
           n == g.src_hseq + 1
<1>1. q \in Nat /\ q # 0 /\ q \in DOMAIN g.srcs /\ g.src_hseq \in Nat /\ n \in Nat /\ n # 0
      /\ DOMAIN g.srcs \subseteq Nat /\ n \notin DOMAIN g.srcs
  BY DEF Held, Gens, SrcsOK
<1>2. h = IssueSrc(w, id)
  BY <1>1 DEF RetireSrc, Replaces, Retires
<1>3. /\ w \in Gens /\ SameDsts(g, w) /\ w.ctrl = g.ctrl /\ w.src_hseq = g.src_hseq
      /\ DOMAIN w.srcs = DOMAIN g.srcs \ {q}
      /\ \A k \in DOMAIN w.srcs : w.srcs[k] = g.srcs[k]
  BY <1>1, WithoutSrcIs
<1> HIDE DEF w, h
<1>4. /\ h \in Gens /\ SameDsts(w, h) /\ h.src_hseq = w.src_hseq + 1
      /\ h.srcs = WithSrc(w.srcs, w.src_hseq + 1, id)
      /\ ToSet(h.ctrl) = ToSet(w.ctrl) \cup {NewConnectionId(w.src_hseq + 1, 0, id)}
  BY <1>2, <1>3, IssueSrcIs
<1>5. /\ DOMAIN h.srcs = DOMAIN w.srcs \cup {n} /\ h.srcs[n] = id
      /\ \A k \in DOMAIN w.srcs : k # n => h.srcs[k] = w.srcs[k]
  <2> DEFINE e == WithSrc(w.srcs, n, id)
  <2>2. h.srcs = e
    BY <1>3, <1>4
  <2>3. n \in Nat /\ w \in Gens
    BY <1>1, <1>3
  <2> HIDE DEF n
  <2>1. /\ DOMAIN e = DOMAIN w.srcs \cup {n} /\ e[n] = id
        /\ \A k \in DOMAIN w.srcs : k # n => e[k] = w.srcs[k]
    BY DEF WithSrc
  <2> HIDE DEF e
  <2> QED
    BY <2>1, <2>2
<1> HIDE DEF n
<1>6. Held(h) = (Held(g) \ {q}) \cup {n} /\ n \notin Held(g)
  BY <1>1, <1>3, <1>5 DEF Held
<1>7. h.srcs[n] = id /\ \A k \in Held(g) \ {q} : h.srcs[k] = g.srcs[k]
  BY <1>1, <1>3, <1>5 DEF Held
<1>8. SrcsOK(h)
  <2>1. DOMAIN h.srcs \subseteq 0 .. h.src_hseq
    <3>1. h.src_hseq = n /\ n = g.src_hseq + 1
      BY <1>3, <1>4 DEF n
    <3>2. ASSUME NEW k \in DOMAIN g.srcs PROVE k \in 0 .. n
      <4>1. k \in 0 .. g.src_hseq
        BY DEF SrcsOK
      <4> QED
        BY <1>1, <3>1, <4>1
    <3>3. n \in 0 .. n
      BY <1>1
    <3> QED
      BY <1>3, <1>5, <3>1, <3>2, <3>3
  <2>2. \A k \in Held(h) : h.srcs[k] \in Ids
    BY <1>6, <1>7 DEF SrcsOK
  <2>3. 0 \in DOMAIN h.srcs => h.srcs[0] = ClientChosen
    BY <1>1, <1>3, <1>5 DEF SrcsOK
  <2>4. \A j, k \in Held(h) : h.srcs[j] = h.srcs[k] => j = k
    BY <1>6, <1>7 DEF SrcsOK
  <2>5. IsFiniteSet(Held(h)) /\ Cardinality(Held(h)) = ActiveConnId
    <3> DEFINE rest == Held(g) \ {q}
    <3>1. IsFiniteSet(Held(g)) /\ Cardinality(Held(g)) = ActiveConnId
      BY DEF SrcsOK
    <3>2. IsFiniteSet(rest) /\ Cardinality(rest) = ActiveConnId - 1
      BY <3>1, FS_RemoveElement
    <3>3. n \notin rest /\ Held(h) = rest \cup {n}
      BY <1>6
    <3> HIDE DEF rest
    <3>4. IsFiniteSet(rest \cup {n}) /\ Cardinality(rest \cup {n}) = Cardinality(rest) + 1
      BY <3>2, <3>3, FS_AddElement
    <3> QED
      BY <3>2, <3>3, <3>4, BoundsAssumption
  <2> QED
    BY <2>1, <2>2, <2>3, <2>4, <2>5 DEF SrcsOK
<1>9. {h.srcs[k] : k \in Held(h)} = {g.srcs[k] : k \in Held(g) \ {q}} \cup {id}
  BY <1>6, <1>7
<1>10. SameDsts(g, h) /\ \A x \in ToSet(h.ctrl) \ ToSet(g.ctrl) : x.type = "NEW_CONNECTION_ID"
  BY <1>3, <1>4 DEF SameDsts, NewConnectionId
<1> QED
  BY <1>4, <1>8, <1>9, <1>10 DEF h

\* RETIRE_CONNECTION_ID of an id that was issued.
LEMMA IInvReplaces ==
    ASSUME IInv, NEW s \in Sessions, NEW f \in from_peer[s], HandleRetire(s, f),
           Replaces(gen[s], f.seq)
    PROVE  IInv'
<1> DEFINE g == gen[s]
           q == f.seq
           old == g.srcs[q]
           left == Restrict(sessions, DOMAIN sessions \ Unrouted(g, q))
           new == gen'[s]
           issued == NewFrames(from_peer[s])
<1>1. /\ g \in Gens /\ g.ctrl = <<>> /\ SrcsOK(g) /\ DstsOK(g, issued, to_peer[s])
      /\ PeerOK(from_peer[s]) /\ RoutesTo(sessions, s, g)
      /\ \A seq \in heard[s] : seq \in g.dsts \/ RetireConnectionId(seq) \in to_peer[s]
  BY DEF IInv, TypesOK, SessionOK, Fits, PeerOK
<1>2. PICK id \in FreeIds \cup Unrouted(g, q) :
        Leave(s, RetireSrc(g, q, id)) /\ sessions' = Routing(left, {id}, s)
  BY DEF HandleRetire
<1> DEFINE h == RetireSrc(g, q, id)
<1>3. status[s] \in {"open", "closing"} /\ UNCHANGED <<status, from_peer, heard>>
  BY DEF HandleRetire, Handles
<1>4. q \in Held(g) /\ Unrouted(g, q) = {old}
  BY DEF Replaces, Retires, Held, Unrouted
<1> HIDE DEF g, q
<1>5. /\ \A k \in Held(g) : g.srcs[k] \in DOMAIN sessions /\ sessions[g.srcs[k]] = s
      /\ \A x \in DOMAIN sessions : sessions[x] = s => \E k \in Held(g) : x = g.srcs[k]
  BY <1>1 DEF RoutesTo
<1>6. old \in DOMAIN sessions /\ sessions[old] = s /\ old \in Ids
      /\ \A k \in Held(g) \ {q} : g.srcs[k] # old
  BY <1>1, <1>4, <1>5 DEF SrcsOK
<1> HIDE DEF old
<1>7. id \in Ids /\ (id \notin DOMAIN sessions \/ id = old)
  BY <1>4, <1>6 DEF FreeIds
<1>8. \A k \in Held(g) \ {q} : g.srcs[k] # id
  BY <1>5, <1>6, <1>7
<1>9. /\ h \in Gens /\ SameDsts(g, h) /\ SrcsOK(h)
      /\ {h.srcs[k] : k \in Held(h)} = {g.srcs[k] : k \in Held(g) \ {q}} \cup {id}
      /\ \A x \in ToSet(h.ctrl) \ ToSet(g.ctrl) : x.type = "NEW_CONNECTION_ID"
  BY <1>1, <1>4, <1>7, <1>8, Replaced
<1> HIDE DEF h
<1>10. /\ gen' \in [Sessions -> Gens] /\ to_peer' \in [Sessions -> SUBSET Frame]
       /\ to_peer'[s] = to_peer[s] \cup ToSet(h.ctrl)
       /\ new \in Gens /\ SameSrcs(h, new) /\ SameDsts(h, new) /\ new.ctrl = <<>>
       /\ \A t \in Sessions \ {s} : gen'[t] = gen[t] /\ to_peer'[t] = to_peer[t]
  BY <1>2, <1>9, LeaveIs DEF h
<1> HIDE DEF new
<1>11. SrcsOK(new) /\ new.srcs = h.srcs /\ Held(new) = Held(h)
  BY <1>9, <1>10, SrcsSame DEF SameSrcs
<1>12. DstsOK(new, issued, to_peer'[s]) /\ new.dsts = g.dsts
  <2>1. ToSet(g.ctrl) = {}
    BY <1>1 DEF ToSet
  <2>2. \A x \in ToSet(h.ctrl) : x.type = "NEW_CONNECTION_ID"
    BY <1>9, <2>1
  <2>3. DstsOK(g, issued, to_peer[s] \cup ToSet(h.ctrl))
    BY <1>1, <2>2, DstsMore, Zenon
  <2>4. DstsOK(h, issued, to_peer'[s])
    BY <1>9, <1>10, <2>3, DstsSame
  <2>5. DstsOK(new, issued, to_peer'[s])
    BY <1>10, <2>4, DstsSame
  <2> QED
    BY <1>9, <1>10, <2>5 DEF SameDsts
<1>13. SessionOK(s)'
  BY <1>1, <1>3, <1>10, <1>11, <1>12 DEF SessionOK, Fits, new, issued
<1>14. /\ DOMAIN sessions' = (DOMAIN sessions \ {old}) \cup {id}
       /\ \A x \in DOMAIN sessions' : sessions'[x] = IF x = id THEN s ELSE sessions[x]
       /\ sessions' = [x \in DOMAIN sessions' |-> sessions'[x]]
  <2>1. /\ DOMAIN left = DOMAIN sessions \ {old}
        /\ \A x \in DOMAIN left : left[x] = sessions[x]
    BY <1>4 DEF Restrict
  <2> HIDE DEF left
  <2> QED
    BY <1>2, <2>1 DEF Routing
<1>15. TypesOK'
  <2>1. DOMAIN sessions' \in SUBSET Ids
    BY <1>7, <1>14 DEF IInv, TypesOK
  <2>2. \A x \in DOMAIN sessions' : sessions'[x] \in Sessions
    BY <1>14 DEF IInv, TypesOK
  <2>3. sessions' \in [DOMAIN sessions' -> Sessions]
    BY <1>14, <2>2
  <2> QED
    BY <1>3, <1>10, <2>1, <2>3 DEF IInv, TypesOK
<1>16. ASSUME NEW t \in Sessions PROVE RoutesTo(sessions', t, gen'[t])
  <2>1. CASE t = s
    <3>1. {x \in DOMAIN sessions' : sessions'[x] = s}
            = {g.srcs[k] : k \in Held(g) \ {q}} \cup {id}
      <4>1. ASSUME NEW x \in DOMAIN sessions', sessions'[x] = s, x # id
            PROVE  x \in {g.srcs[k] : k \in Held(g) \ {q}}
        <5>1. x \in DOMAIN sessions /\ sessions[x] = s /\ x # old
          BY <1>14, <4>1
        <5>2. PICK k \in Held(g) : x = g.srcs[k]
          BY <1>5, <5>1
        <5>3. k # q
          BY <5>1, <5>2 DEF old
        <5> QED
          BY <5>2, <5>3
      <4>2. ASSUME NEW k \in Held(g) \ {q}
            PROVE  g.srcs[k] \in DOMAIN sessions' /\ sessions'[g.srcs[k]] = s
        BY <1>5, <1>6, <1>14
      <4>3. id \in DOMAIN sessions' /\ sessions'[id] = s
        BY <1>14
      <4> QED
        BY <4>1, <4>2, <4>3
    <3> QED
      BY <1>9, <1>11, <2>1, <3>1, SMTT(60) DEF RoutesTo, new
  <2>2. CASE t # s
    <3>1. \A x : x \in DOMAIN sessions' /\ sessions'[x] = t
                    <=> x \in DOMAIN sessions /\ sessions[x] = t
      BY <1>6, <1>7, <1>14, <2>2
    <3>2. {x \in DOMAIN sessions' : sessions'[x] = t} = {x \in DOMAIN sessions : sessions[x] = t}
      BY <3>1
    <3> QED
      BY <1>10, <2>2, <3>2 DEF IInv, RoutesTo
  <2> QED
    BY <2>1, <2>2
<1> QED
  BY <1>3, <1>10, <1>13, <1>15, <1>16, OneSession

\* RETIRE_CONNECTION_ID of an id that is not there, or of the first, which the
\* server does not route by.
LEMMA IInvNotReplaced ==
    ASSUME IInv, NEW s \in Sessions, NEW f \in from_peer[s], HandleRetire(s, f),
           ~ Replaces(gen[s], f.seq)
    PROVE  IInv'
<1> DEFINE g == gen[s]
           q == f.seq
           h == WithoutSrc(g, q)
           new == gen'[s]
           issued == NewFrames(from_peer[s])
<1>1. /\ g \in Gens /\ g.ctrl = <<>> /\ SrcsOK(g) /\ DstsOK(g, issued, to_peer[s])
      /\ PeerOK(from_peer[s]) /\ RoutesTo(sessions, s, g)
      /\ \A seq \in heard[s] : seq \in g.dsts \/ RetireConnectionId(seq) \in to_peer[s]
  BY DEF IInv, TypesOK, SessionOK, Fits, PeerOK
<1>2. /\ Leave(s, h)
      /\ sessions' = Restrict(sessions, DOMAIN sessions \ Unrouted(g, q))
      /\ status[s] \in {"open", "closing"} /\ UNCHANGED <<status, from_peer, heard>>
      /\ f.type = "RETIRE_CONNECTION_ID"
  BY DEF HandleRetire, Handles, RetireSrc
<1>3. q \in Nat
  BY <1>2 DEF Frame, IInv, TypesOK
<1>4. q \notin DOMAIN g.srcs \/ q = 0
  BY DEF Replaces, Retires
<1> HIDE DEF g, q
<1>5. /\ h \in Gens /\ SameDsts(g, h) /\ h.ctrl = g.ctrl /\ h.src_hseq = g.src_hseq
      /\ DOMAIN h.srcs = DOMAIN g.srcs \ {q}
      /\ \A k \in DOMAIN h.srcs : h.srcs[k] = g.srcs[k]
  BY <1>1, <1>3, WithoutSrcIs
<1>6. Unrouted(g, q) \subseteq {ClientChosen}
  BY <1>1, <1>4 DEF Unrouted, SrcsOK
<1>7. sessions' = sessions
  <2>1. DOMAIN sessions \ Unrouted(g, q) = DOMAIN sessions
    BY <1>6, IdsAssumption DEF IInv, TypesOK
  <2>2. sessions = [x \in DOMAIN sessions |-> sessions[x]]
    BY DEF IInv, TypesOK
  <2> QED
    BY <1>2, <2>1, <2>2 DEF Restrict
<1>8. Held(h) = Held(g) /\ \A k \in Held(g) : h.srcs[k] = g.srcs[k]
  BY <1>4, <1>5 DEF Held
<1> HIDE DEF h
<1>9. SrcsOK(h)
  BY <1>1, <1>5, <1>8 DEF SrcsOK
<1>10. /\ gen' \in [Sessions -> Gens] /\ to_peer' \in [Sessions -> SUBSET Frame]
       /\ to_peer'[s] = to_peer[s] \cup ToSet(h.ctrl)
       /\ new \in Gens /\ SameSrcs(h, new) /\ SameDsts(h, new) /\ new.ctrl = <<>>
       /\ \A t \in Sessions \ {s} : gen'[t] = gen[t] /\ to_peer'[t] = to_peer[t]
  BY <1>2, <1>5, LeaveIs
<1> HIDE DEF new
<1>11. SrcsOK(new) /\ new.srcs = h.srcs /\ Held(new) = Held(h)
  BY <1>9, <1>10, SrcsSame DEF SameSrcs
<1>12. to_peer'[s] = to_peer[s]
  BY <1>1, <1>5, <1>10 DEF ToSet
<1>13. DstsOK(new, issued, to_peer'[s]) /\ new.dsts = g.dsts
  <2>1. SameDsts(g, new)
    BY <1>5, <1>10 DEF SameDsts
  <2>2. DstsOK(new, issued, to_peer[s])
    BY <1>1, <2>1, DstsSame
  <2> QED
    BY <1>12, <2>1, <2>2 DEF SameDsts
<1>14. SessionOK(s)'
  BY <1>1, <1>2, <1>10, <1>11, <1>12, <1>13 DEF SessionOK, Fits, new, issued
<1>15. TypesOK'
  BY <1>2, <1>7, <1>10 DEF IInv, TypesOK
<1>16. ASSUME NEW t \in Sessions PROVE RoutesTo(sessions', t, gen'[t])
  <2>1. {new.srcs[k] : k \in Held(new)} = {g.srcs[k] : k \in Held(g)}
    BY <1>8, <1>11
  <2>2. CASE t = s
    BY <1>1, <1>7, <2>1, <2>2 DEF RoutesTo, new
  <2>3. CASE t # s
    BY <1>7, <1>10, <2>3 DEF IInv
  <2> QED
    BY <2>2, <2>3
<1> QED
  BY <1>2, <1>10, <1>14, <1>15, <1>16, OneSession

\* The ids of a session that is over lead nowhere, and those of the others stay.
LEMMA IInvCloseProcedure ==
    ASSUME IInv, NEW s \in Sessions, CloseProcedure(s)
    PROVE  IInv'
<1> DEFINE g == Started(ClientChosen)
<1>1. /\ status' = [status EXCEPT ![s] = "closed"]
      /\ sessions' = Restrict(sessions, DOMAIN sessions \ IdsOf(s))
      /\ gen' = [gen EXCEPT ![s] = g]
      /\ from_peer' = [from_peer EXCEPT ![s] = {}]
      /\ to_peer' = [to_peer EXCEPT ![s] = {}]
      /\ heard' = [heard EXCEPT ![s] = {0}]
  BY DEF CloseProcedure
<1>2. /\ g \in Gens /\ SrcsOK(g) /\ g.ctrl = <<>> /\ Held(g) = {}
      /\ DstsOK(g, {}, {}) /\ g.dsts = {0}
  BY StartedFits
<1> HIDE DEF g
<1>3. NewFrames({}) = {} /\ PeerOK({})
  BY FS_EmptySet DEF NewFrames, PeerOK, KeepsToRfc
<1>4. /\ status'[s] = "closed" /\ gen'[s] = g /\ from_peer'[s] = {} /\ to_peer'[s] = {}
      /\ heard'[s] = {0}
  BY <1>1 DEF IInv, TypesOK
<1>5. SessionOK(s)'
  BY <1>2, <1>3, <1>4 DEF SessionOK, Fits
<1>6. \A t \in Sessions \ {s} :
        /\ status'[t] = status[t] /\ gen'[t] = gen[t] /\ from_peer'[t] = from_peer[t]
        /\ to_peer'[t] = to_peer[t] /\ heard'[t] = heard[t]
  BY <1>1 DEF IInv, TypesOK
<1>7. /\ DOMAIN sessions' = DOMAIN sessions \ IdsOf(s)
      /\ \A id \in DOMAIN sessions' : sessions'[id] = sessions[id]
      /\ sessions' = [id \in DOMAIN sessions' |-> sessions'[id]]
  BY <1>1 DEF Restrict
<1>8. TypesOK'
  <2>1. DOMAIN sessions' \in SUBSET Ids /\ sessions' \in [DOMAIN sessions' -> Sessions]
    BY <1>7 DEF IInv, TypesOK
  <2>2. status' \in [Sessions -> Statuses] /\ gen' \in [Sessions -> Gens]
    BY <1>1, <1>2 DEF IInv, TypesOK, Statuses
  <2>3. /\ from_peer' \in [Sessions -> SUBSET Frame] /\ to_peer' \in [Sessions -> SUBSET Frame]
        /\ heard' \in [Sessions -> SUBSET Nat]
    BY <1>1 DEF IInv, TypesOK
  <2> QED
    BY <2>1, <2>2, <2>3 DEF TypesOK
<1>9. \A id \in DOMAIN sessions : sessions[id] = s => id \in IdsOf(s)
  BY DEF IInv, RoutesTo, IdsOf, Range, Held
<1>10. \A id \in DOMAIN sessions : id \in IdsOf(s) => sessions[id] = s
  <2>1. ASSUME NEW id \in DOMAIN sessions, id \in IdsOf(s) PROVE sessions[id] = s
    <3>1. PICK k \in DOMAIN gen[s].srcs : id = gen[s].srcs[k]
      BY <2>1 DEF IdsOf, Range
    <3>2. SrcsOK(gen[s]) /\ RoutesTo(sessions, s, gen[s]) /\ id \in Ids
      BY DEF IInv, SessionOK, Fits, TypesOK
    <3>3. k # 0
      BY <3>1, <3>2, IdsAssumption DEF SrcsOK
    <3> QED
      BY <3>1, <3>2, <3>3 DEF RoutesTo, Held
  <2> QED
    BY <2>1
<1>11. ASSUME NEW t \in Sessions PROVE RoutesTo(sessions', t, gen'[t])
  <2>1. CASE t = s
    <3>1. {id \in DOMAIN sessions' : sessions'[id] = s} = {}
      BY <1>7, <1>9
    <3> QED
      BY <1>2, <1>4, <2>1, <3>1 DEF RoutesTo
  <2>2. CASE t # s
    <3>1. {id \in DOMAIN sessions' : sessions'[id] = t} = {id \in DOMAIN sessions : sessions[id] = t}
      BY <1>7, <1>10, <2>2
    <3> QED
      BY <1>6, <2>2, <3>1 DEF IInv, RoutesTo
  <2> QED
    BY <2>1, <2>2
<1> QED
  BY <1>5, <1>6, <1>8, <1>11, OneSession

\* The peer sends a frame that its own side of the invariant allows.
LEMMA PeerSends ==
    ASSUME IInv, NEW s \in Sessions, NEW f \in Frame,
           from_peer' = [from_peer EXCEPT ![s] = @ \cup {f}],
           UNCHANGED <<status, gen, sessions, to_peer, heard>>,
           PeerOK(from_peer[s] \cup {f}),
           DstsOK(gen[s], NewFrames(from_peer[s] \cup {f}), to_peer[s])
    PROVE  IInv'
<1>1. /\ from_peer'[s] = from_peer[s] \cup {f}
      /\ \A t \in Sessions \ {s} : from_peer'[t] = from_peer[t]
  BY DEF IInv, TypesOK
<1>2. TypesOK'
  BY DEF IInv, TypesOK
<1>3. SessionOK(s)'
  BY <1>1 DEF IInv, SessionOK, Fits
<1>4. \A t \in Sessions : RoutesTo(sessions', t, gen'[t])
  BY DEF IInv
<1> QED
  BY <1>1, <1>2, <1>3, <1>4, OneSession

LEMMA IInvPeerIssues ==
    ASSUME IInv, NEW s \in Sessions, NEW seq \in Nat, NEW retire \in Nat,
           PeerIssues(s, seq, retire)
    PROVE  IInv'
<1> DEFINE from == from_peer[s]
           n == Cardinality(NewFrames(from))
           f == NewConnectionId(seq, retire, "peer's")
<1>1. /\ seq = n + 1 /\ retire <= seq
      /\ from_peer' = [from_peer EXCEPT ![s] = @ \cup {f}]
      /\ UNCHANGED <<status, gen, sessions, to_peer, heard>>
  BY DEF PeerIssues, Issued, NewFrames
<1>2. f \in Frame /\ f.type = "NEW_CONNECTION_ID" /\ f.seq = seq /\ f.retire = retire
  BY DEF NewConnectionId, Frame
<1>3. PeerOK(from) /\ DstsOK(gen[s], NewFrames(from), to_peer[s])
  BY DEF IInv, SessionOK, Fits
<1> HIDE DEF f, from
<1>4. NewFrames(from \cup {f}) = NewFrames(from) \cup {f}
  BY <1>2 DEF NewFrames
<1>5. IsFiniteSet(from \cup {f}) /\ IsFiniteSet(NewFrames(from)) /\ n \in Nat
  BY <1>3, FS_AddElement, FS_Subset, FS_CardinalityType DEF PeerOK, NewFrames
<1>6. \A e \in NewFrames(from) : e.seq \in Nat \ {0} /\ e.seq <= n
  BY <1>3 DEF PeerOK, KeepsToRfc
<1>7. f \notin NewFrames(from)
  BY <1>1, <1>2, <1>5, <1>6
<1>8. Cardinality(NewFrames(from) \cup {f}) = n + 1
  BY <1>5, <1>7, FS_AddElement
<1> HIDE DEF n
<1>9. KeepsToRfc(NewFrames(from) \cup {f})
  <2>1. \A e \in NewFrames(from) : e.seq # f.seq
    BY <1>1, <1>2, <1>5, <1>6
  <2>2. f.seq \in Nat \ {0} /\ f.retire \in Nat /\ f.retire <= f.seq
    BY <1>1, <1>2, <1>5
  <2> QED
    BY <1>3, <2>1, <2>2 DEF PeerOK, KeepsToRfc
<1>10. PeerOK(from \cup {f})
  <2>1. \A e \in NewFrames(from) \cup {f} : e.seq <= n + 1
    BY <1>1, <1>2, <1>5, <1>6
  <2> QED
    BY <1>4, <1>5, <1>8, <1>9, <2>1 DEF PeerOK
<1>11. f.seq \notin gen[s].dsts
  BY <1>1, <1>2, <1>3, <1>5, <1>6 DEF DstsOK
<1>12. DstsOK(gen[s], NewFrames(from \cup {f}), to_peer[s])
  BY <1>3, <1>4, <1>11 DEF DstsOK
<1> QED
  BY <1>1, <1>2, <1>10, <1>12, PeerSends DEF from

LEMMA IInvPeerRetires ==
    ASSUME IInv, NEW s \in Sessions, NEW seq \in Nat, PeerRetires(s, seq)
    PROVE  IInv'
<1> DEFINE from == from_peer[s]
           f == RetireConnectionId(seq)
<1>1. /\ from_peer' = [from_peer EXCEPT ![s] = @ \cup {f}]
      /\ UNCHANGED <<status, gen, sessions, to_peer, heard>>
  BY DEF PeerRetires
<1>2. f \in Frame /\ f.type # "NEW_CONNECTION_ID"
  BY DEF RetireConnectionId, Frame
<1>3. PeerOK(from) /\ DstsOK(gen[s], NewFrames(from), to_peer[s])
  BY DEF IInv, SessionOK, Fits
<1> HIDE DEF f, from
<1>4. NewFrames(from \cup {f}) = NewFrames(from)
  BY <1>2 DEF NewFrames
<1>5. IsFiniteSet(from \cup {f})
  BY <1>3, FS_AddElement DEF PeerOK
<1>6. PeerOK(from \cup {f})
  BY <1>3, <1>4, <1>5 DEF PeerOK
<1> QED
  BY <1>1, <1>2, <1>3, <1>4, <1>6, PeerSends DEF from

LEMMA NextIInv == IInv /\ [Next]_vars => IInv'
<1> SUFFICES ASSUME IInv, [Next]_vars PROVE IInv'
  OBVIOUS
<1>1. CASE UNCHANGED vars
  BY <1>1 DEF vars, IInv, TypesOK, SessionOK, RoutesTo
<1>2. ASSUME Next PROVE IInv'
  <2>1. PICK s \in Sessions :
            \/ Accept(s) \/ SetTransportParameter(s)
            \/ \E frame \in from_peer[s] : HandleNewConnId(s, frame) \/ HandleRetire(s, frame)
            \/ Close(s) \/ CloseProcedure(s)
            \/ \E seq \in 1 .. PeerMaxSeq[s], retire \in 0 .. PeerMaxSeq[s] :
                    PeerIssues(s, seq, retire)
            \/ \E seq \in 0 .. ActiveConnId + MaxRetires[s] : PeerRetires(s, seq)
    BY <1>2 DEF Next
  <2>2. CASE Accept(s) \/ Close(s)
    BY <2>2, IInvStatus
  <2>3. CASE SetTransportParameter(s)
    BY <2>3, IInvSetTransportParameter
  <2>4. ASSUME NEW frame \in from_peer[s], HandleNewConnId(s, frame) PROVE IInv'
    BY <2>4, IInvHandleNewConnId
  <2>5. ASSUME NEW frame \in from_peer[s], HandleRetire(s, frame) PROVE IInv'
    BY <2>5, IInvReplaces, IInvNotReplaced
  <2>6. CASE CloseProcedure(s)
    BY <2>6, IInvCloseProcedure
  <2>7. ASSUME NEW seq \in 1 .. PeerMaxSeq[s], NEW retire \in 0 .. PeerMaxSeq[s],
               PeerIssues(s, seq, retire)
        PROVE  IInv'
    <3>1. seq \in Nat /\ retire \in Nat
      BY BoundsAssumption
    <3> QED
      BY <2>7, <3>1, IInvPeerIssues
  <2>8. ASSUME NEW seq \in 0 .. ActiveConnId + MaxRetires[s], PeerRetires(s, seq) PROVE IInv'
    <3>1. seq \in Nat
      BY BoundsAssumption
    <3> QED
      BY <2>8, <3>1, IInvPeerRetires
  <2> QED
    BY <2>1, <2>2, <2>3, <2>4, <2>5, <2>6, <2>7, <2>8
<1> QED
  BY <1>1, <1>2

-----------------------------------------------------------------------------
\* The inductive invariant holds in every state.
THEOREM Inductive == Spec => []IInv
<1> QED
  BY InitIInv, NextIInv, PTL DEF Spec

\* Whatever order frames, repetitions and closes come in, the server routes by
\* exactly the ids that were given out and not taken back, each to its session
\* (quic_server_new_connid_cb, quic_server_retire_connid_cb), and a session that
\* has ids always has as many as its peer asked for.
THEOREM RoutesAreTheIdsHeld == Spec => []RoutesAreExact
<1>1. IInv => RoutesAreExact
  <2> SUFFICES ASSUME IInv, NEW s \in Sessions
               PROVE  LET held == {k \in DOMAIN gen[s].srcs : k # 0}
                      IN  /\ {id \in DOMAIN sessions : sessions[id] = s} = {gen[s].srcs[k] : k \in held}
                          /\ \A j, k \in held : gen[s].srcs[j] = gen[s].srcs[k] => j = k
                          /\ held # {} => Cardinality(held) = ActiveConnId
    BY DEF RoutesAreExact
  <2>1. RoutesTo(sessions, s, gen[s]) /\ SrcsOK(gen[s])
    BY DEF IInv, SessionOK, Fits
  <2> QED
    BY <2>1 DEF RoutesTo, SrcsOK, Held
<1> QED
  BY Inductive, <1>1, PTL

\* The id that packets are sent to is one the peer gave and was not told to
\* forget, whatever frames of the peer are lost, repeated or late
\* (quic_connid_gen_update_dst).
THEOREM DestinationStaysValid == Spec => []DestinationIsValid
<1>1. IInv => DestinationIsValid
  <2> SUFFICES ASSUME IInv, NEW s \in Live
               PROVE  /\ gen[s].dst = gen[s].dst_active
                      /\ gen[s].dst \in gen[s].dsts
                      /\ RetireConnectionId(gen[s].dst) \notin to_peer[s]
    BY DEF DestinationIsValid
  <2>1. DstsOK(gen[s], NewFrames(from_peer[s]), to_peer[s]) /\ gen[s].dst_active \in Nat
    BY DEF Live, IInv, SessionOK, Fits, TypesOK, Gens
  <2> QED
    BY <2>1 DEF DstsOK
<1> QED
  BY Inductive, <1>1, PTL

\* Each id of the peer that was handled is held, or the peer was told to take it
\* back (quic_session_handle_new_connection_id_frame).
THEOREM EveryIdOfThePeerIsAnswered == Spec => []EveryIdIsAnswered
<1>1. IInv => EveryIdIsAnswered
  BY DEF IInv, SessionOK, Fits, EveryIdIsAnswered, Live
<1> QED
  BY Inductive, <1>1, PTL
=============================================================================
