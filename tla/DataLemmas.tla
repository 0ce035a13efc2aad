----------------------------- MODULE DataLemmas -----------------------------
(***************************************************************************)
(* Facts about minima, induction over a set of numbers, and the lists of   *)
(* the C code, that the proofs about the modules share.                    *)
(***************************************************************************)
EXTENDS Integers, SequencesExt, SequenceTheorems, FiniteSetTheorems,
        WellFoundedInduction, TLAPS

\* A non-empty set of natural numbers contains its minimum, a lower bound.
LEMMA MinOfNats ==
    ASSUME NEW S \in SUBSET Nat, S # {}
    PROVE  Min(S) \in S /\ \A y \in S : Min(S) <= y
<1>1. \E x \in S : \A y \in S : ~ (<<y, x>> \in OpToRel(<, Nat))
  BY NatLessThanWellFounded, WFMin, Zenon
<1>2. PICK x \in S : \A y \in S : ~ (<<y, x>> \in OpToRel(<, Nat))
  BY <1>1
<1>3. \A y \in S : ~ (y < x)
  BY <1>2 DEF OpToRel
<1>4. \A y \in S : x <= y
  BY <1>3
<1> QED
  BY <1>4 DEF Min

\* A set with 0 that is closed under successor holds every natural number.
LEMMA NatSetInduction ==
    ASSUME NEW S, 0 \in S, \A n \in Nat : n \in S => n + 1 \in S
    PROVE  Nat \subseteq S
<1> SUFFICES ASSUME Nat \ S # {} PROVE FALSE
  OBVIOUS
<1>1. Min(Nat \ S) \in Nat \ S /\ \A y \in Nat \ S : Min(Nat \ S) <= y
  BY MinOfNats
<1> DEFINE m == Min(Nat \ S)
<1> HIDE DEF m
<1>3. m \in Nat /\ m # 0 /\ m \notin S
  BY <1>1 DEF m
<1>2. m - 1 \in Nat /\ m - 1 \in S
  BY <1>1, <1>3 DEF m
<1> QED BY <1>2, <1>3

\* The elements of a list an element was inserted into.
LEMMA InsertAtElements ==
    ASSUME NEW T, NEW s \in Seq(T), NEW i \in 1 .. Len(s) + 1, NEW e \in T
    PROVE  /\ InsertAt(s, i, e) \in Seq(T)
           /\ Len(InsertAt(s, i, e)) = Len(s) + 1
           /\ \A j \in 1 .. Len(s) + 1 :
                InsertAt(s, i, e)[j] = IF j < i THEN s[j] ELSE IF j = i THEN e ELSE s[j - 1]
<1> DEFINE a == SubSeq(s, 1, i - 1)
           b == SubSeq(s, i, Len(s))
<1>1. /\ a \in Seq(T) /\ Len(a) = i - 1
      /\ \A j \in 1 .. i - 1 : a[j] = s[j]
  <2>1. \A j \in 1 .. i - 1 : s[j] \in T
    OBVIOUS
  <2> QED
    BY <2>1, SubSeqProperties
<1>2. /\ b \in Seq(T) /\ Len(b) = Len(s) - i + 1
      /\ \A j \in 1 .. Len(s) - i + 1 : b[j] = s[i + j - 1]
  <2>1. \A j \in i .. Len(s) : s[j] \in T
    OBVIOUS
  <2> QED
    BY <2>1, SubSeqProperties
<1> HIDE DEF a, b
<1>3. /\ a \o <<e>> \in Seq(T) /\ Len(a \o <<e>>) = i
      /\ \A j \in 1 .. i : (a \o <<e>>)[j] = IF j < i THEN s[j] ELSE e
  BY <1>1, ConcatProperties
<1>4. InsertAt(s, i, e) = a \o <<e>> \o b
  BY DEF InsertAt, a, b
<1> DEFINE c == a \o <<e>>
<1>5. c \in Seq(T) /\ Len(c) = i /\ \A j \in 1 .. i : c[j] = IF j < i THEN s[j] ELSE e
  BY <1>3
<1> HIDE DEF c
<1>6. InsertAt(s, i, e) = c \o b
  BY <1>4 DEF c
<1>7. /\ c \o b \in Seq(T) /\ Len(c \o b) = Len(c) + Len(b)
      /\ \A j \in 1 .. Len(c) + Len(b) :
            (c \o b)[j] = IF j <= Len(c) THEN c[j] ELSE b[j - Len(c)]
  BY <1>2, <1>5, ConcatProperties
<1>8. Len(s) \in Nat /\ Len(c) + Len(b) = Len(s) + 1
  BY <1>2, <1>5
<1>9. ASSUME NEW j \in 1 .. Len(s) + 1
      PROVE  (c \o b)[j] = IF j < i THEN s[j] ELSE IF j = i THEN e ELSE s[j - 1]
  <2>1. CASE j <= i
    BY <1>5, <1>7, <1>8, <2>1
  <2>2. CASE j > i
    <3>1. j - i \in 1 .. Len(s) - i + 1 /\ i + (j - i) - 1 = j - 1
      BY <1>8, <2>2
    <3>2. b[j - i] = s[j - 1]
      BY <1>2, <3>1
    <3> QED
      BY <1>5, <1>7, <1>8, <2>2, <3>2
  <2> QED
    BY <1>5, <1>8, <2>1, <2>2
<1> QED
  BY <1>6, <1>7, <1>8, <1>9

\* The elements of a list the i-th element was removed from.
LEMMA RemoveAtElements ==
    ASSUME NEW T, NEW s \in Seq(T), NEW i \in 1 .. Len(s)
    PROVE  /\ RemoveAt(s, i) \in Seq(T)
           /\ Len(RemoveAt(s, i)) = Len(s) - 1
           /\ \A j \in 1 .. Len(s) - 1 :
                RemoveAt(s, i)[j] = IF j < i THEN s[j] ELSE s[j + 1]
<1> DEFINE a == SubSeq(s, 1, i - 1)
           b == SubSeq(s, i + 1, Len(s))
<1>1. /\ a \in Seq(T) /\ Len(a) = i - 1
      /\ \A j \in 1 .. i - 1 : a[j] = s[j]
  <2>1. \A j \in 1 .. i - 1 : s[j] \in T
    OBVIOUS
  <2> QED
    BY <2>1, SubSeqProperties
<1>2. /\ b \in Seq(T) /\ Len(b) = Len(s) - i
      /\ \A j \in 1 .. Len(s) - i : b[j] = s[i + j]
  <2>1. \A j \in i + 1 .. Len(s) : s[j] \in T
    OBVIOUS
  <2> QED
    BY <2>1, SubSeqProperties
<1> HIDE DEF a, b
<1>3. RemoveAt(s, i) = a \o b
  BY DEF RemoveAt, a, b
<1>4. /\ a \o b \in Seq(T) /\ Len(a \o b) = Len(a) + Len(b)
      /\ \A j \in 1 .. Len(a) + Len(b) :
            (a \o b)[j] = IF j <= Len(a) THEN a[j] ELSE b[j - Len(a)]
  BY <1>1, <1>2, ConcatProperties
<1>5. Len(s) \in Nat /\ Len(a) + Len(b) = Len(s) - 1
  BY <1>1, <1>2
<1>6. ASSUME NEW j \in 1 .. Len(s) - 1
      PROVE  (a \o b)[j] = IF j < i THEN s[j] ELSE s[j + 1]
  <2>1. CASE j < i
    BY <1>1, <1>4, <1>5, <2>1
  <2>2. CASE j >= i
    <3>1. j - (i - 1) \in 1 .. Len(s) - i /\ i + (j - (i - 1)) = j + 1
      BY <1>5, <2>2
    <3>2. b[j - (i - 1)] = s[j + 1]
      BY <1>2, <3>1
    <3> QED
      BY <1>1, <1>4, <1>5, <2>2, <3>2
  <2> QED
    BY <1>5, <2>1, <2>2
<1> QED
  BY <1>3, <1>4, <1>5, <1>6

\* The list s with its elements i .. k replaced by the elements of r.
Splice(s, i, k, r) == SubSeq(s, 1, i - 1) \o r \o SubSeq(s, k + 1, Len(s))

\* The elements of such a list t.
IsSplice(T, t, s, i, k, r) ==
    /\ t \in Seq(T) /\ Len(t) = Len(s) - (k - i + 1) + Len(r)
    /\ \A j \in 1 .. i - 1 : t[j] = s[j]
    /\ \A j \in 1 .. Len(r) : t[i - 1 + j] = r[j]
    /\ \A j \in k + 1 .. Len(s) : t[j - (k - i + 1) + Len(r)] = s[j]

\* Splice replaces the elements and keeps the others in their order.
LEMMA SpliceElements ==
    ASSUME NEW T, NEW s \in Seq(T), NEW i \in 1 .. Len(s), NEW k \in i .. Len(s),
           NEW r \in Seq(T), NEW t, t = Splice(s, i, k, r)
    PROVE  IsSplice(T, t, s, i, k, r)
<1> DEFINE a == SubSeq(s, 1, i - 1)
           b == SubSeq(s, k + 1, Len(s))
<1>1. /\ a \in Seq(T) /\ Len(a) = i - 1
      /\ \A j \in 1 .. i - 1 : a[j] = s[j]
  <2>1. \A j \in 1 .. i - 1 : s[j] \in T
    OBVIOUS
  <2> QED
    BY <2>1, SubSeqProperties
<1>2. /\ b \in Seq(T) /\ Len(b) = Len(s) - k
      /\ \A j \in 1 .. Len(s) - k : b[j] = s[k + j]
  <2>1. \A j \in k + 1 .. Len(s) : s[j] \in T
    OBVIOUS
  <2> QED
    BY <2>1, SubSeqProperties
<1>3. t = a \o r \o b
  BY DEF Splice
<1> HIDE DEF a, b
<1> DEFINE c == a \o r
<1>4. /\ c \in Seq(T) /\ Len(c) = Len(a) + Len(r)
      /\ \A j \in 1 .. Len(a) + Len(r) : c[j] = IF j <= Len(a) THEN a[j] ELSE r[j - Len(a)]
  BY <1>1, ConcatProperties
<1>5. t = c \o b
  BY <1>3
<1> HIDE DEF c
<1>12. c \in Seq(T) /\ b \in Seq(T) /\ Len(c) = i - 1 + Len(r)
  BY <1>1, <1>2, <1>4
<1>13. ASSUME NEW m \in 1 .. i - 1 + Len(r)
       PROVE  c[m] = IF m <= i - 1 THEN s[m] ELSE r[m - (i - 1)]
  BY <1>1, <1>4
<1>6. /\ c \o b \in Seq(T) /\ Len(c \o b) = Len(c) + Len(b)
      /\ \A j \in 1 .. Len(c) + Len(b) :
            (c \o b)[j] = IF j <= Len(c) THEN c[j] ELSE b[j - Len(c)]
  BY <1>12, ConcatProperties, ZenonT(60)
<1>7. Len(s) \in Nat /\ Len(r) \in Nat /\ i \in Nat /\ k \in Nat /\ i <= k /\ k <= Len(s)
  OBVIOUS
<1>8. t \in Seq(T) /\ Len(t) = Len(s) - (k - i + 1) + Len(r)
  BY <1>1, <1>2, <1>4, <1>5, <1>6, <1>7
<1>9. ASSUME NEW j \in 1 .. i - 1 PROVE t[j] = s[j]
  <2>1. j \in 1 .. i - 1 + Len(r) /\ j <= i - 1 /\ j \in 1 .. Len(c) + Len(b) /\ j <= Len(c)
    BY <1>2, <1>7, <1>12
  <2> QED
    BY <1>5, <1>6, <1>13, <2>1
<1>10. ASSUME NEW j \in 1 .. Len(r) PROVE t[i - 1 + j] = r[j]
  <2>1. i - 1 + j \in 1 .. Len(c) /\ i - 1 + j > Len(a) /\ (i - 1 + j) - Len(a) = j
    BY <1>1, <1>4, <1>7
  <2>2. c[i - 1 + j] = r[j]
    <3>1. i - 1 + j \in 1 .. i - 1 + Len(r) /\ ~ (i - 1 + j <= i - 1) /\ (i - 1 + j) - (i - 1) = j
      BY <1>7
    <3> QED
      BY <1>13, <3>1
  <2>3. i - 1 + j \in 1 .. Len(c) + Len(b) /\ i - 1 + j <= Len(c)
    BY <1>2, <1>4, <1>7, <2>1
  <2> QED
    BY <1>5, <1>6, <2>2, <2>3
<1>11. ASSUME NEW j \in k + 1 .. Len(s) PROVE t[j - (k - i + 1) + Len(r)] = s[j]
  <2>1. /\ j - (k - i + 1) + Len(r) \in 1 .. Len(c) + Len(b)
        /\ j - (k - i + 1) + Len(r) > Len(c)
        /\ (j - (k - i + 1) + Len(r)) - Len(c) = j - k
        /\ j - k \in 1 .. Len(s) - k /\ k + (j - k) = j
    BY <1>1, <1>2, <1>4, <1>7
  <2>2. b[j - k] = s[j]
    BY <1>2, <2>1
  <2> QED
    BY <1>5, <1>6, <2>1, <2>2, SMTT(60)
<1> QED
  BY <1>8, <1>9, <1>10, <1>11 DEF IsSplice

-----------------------------------------------------------------------------
(***************************************************************************)
(* FlattenSeq is defined by a recursive function: that the function exists *)
(* and is determined is shown from its equation, up to every length.       *)
(***************************************************************************)

\* g holds the concatenation of the first i elements of s, for i up to n.
Flattens(g, s, n) ==
    \A i \in 1 .. n : g[i] = IF i = 1 THEN s[i] ELSE g[i - 1] \o s[i]

\* Such a function exists.
LEMMA FlattensExists ==
    ASSUME NEW T, NEW s \in Seq(Seq(T)), NEW n \in Nat, n <= Len(s)
    PROVE  \E g \in [1 .. n -> Seq(T)] : Flattens(g, s, n)
<1> DEFINE G == {m \in Nat : m <= Len(s) => \E g \in [1 .. m -> Seq(T)] : Flattens(g, s, m)}
<1>1. 0 \in G
  <2> DEFINE g == [i \in 1 .. 0 |-> <<>>]
  <2>1. g \in [1 .. 0 -> Seq(T)] /\ Flattens(g, s, 0)
    BY DEF Flattens
  <2> QED
    BY <2>1
<1>2. ASSUME NEW m \in Nat, m \in G PROVE m + 1 \in G
  <2> SUFFICES ASSUME m + 1 <= Len(s)
               PROVE  \E g \in [1 .. m + 1 -> Seq(T)] : Flattens(g, s, m + 1)
    OBVIOUS
  <2>1. Len(s) \in Nat
    OBVIOUS
  <2>2. PICK g \in [1 .. m -> Seq(T)] : Flattens(g, s, m)
    BY <1>2, <2>1
  <2> DEFINE e == IF m = 0 THEN s[1] ELSE g[m] \o s[m + 1]
             h == [i \in 1 .. m + 1 |-> IF i = m + 1 THEN e ELSE g[i]]
  <2>3. s[m + 1] \in Seq(T) /\ (m = 0 => s[1] \in Seq(T))
    BY <2>1
  <2>4. e \in Seq(T)
    <3>1. CASE m = 0
      BY <2>3, <3>1
    <3>2. CASE m # 0
      <4>1. g[m] \in Seq(T)
        BY <3>2
      <4> QED
        BY <2>3, <3>2, <4>1, ConcatProperties
    <3> QED
      BY <3>1, <3>2
  <2> HIDE DEF e
  <2>5. h \in [1 .. m + 1 -> Seq(T)]
    BY <2>4
  <2>6. Flattens(h, s, m + 1)
    <3> SUFFICES ASSUME NEW i \in 1 .. m + 1
                 PROVE  h[i] = IF i = 1 THEN s[i] ELSE h[i - 1] \o s[i]
      BY DEF Flattens
    <3>1. CASE i = m + 1
      <4>1. h[i] = e
        BY <3>1
      <4>2. i # 1 => h[i - 1] = g[m] /\ m # 0 /\ i - 1 = m
        BY <3>1
      <4> QED
        BY <3>1, <4>1, <4>2 DEF e
    <3>2. CASE i # m + 1
      <4>1. i \in 1 .. m
        BY <3>2
      <4>2. h[i] = g[i] /\ (i # 1 => h[i - 1] = g[i - 1])
        BY <4>1
      <4> QED
        BY <2>2, <4>1, <4>2 DEF Flattens
    <3> QED
      BY <3>1, <3>2
  <2> QED
    BY <2>5, <2>6
<1> HIDE DEF G
<1>3. Nat \subseteq G
  BY <1>1, <1>2, NatSetInduction
<1> QED
  BY <1>3 DEF G

\* It is determined by its equation.
LEMMA FlattensUnique ==
    ASSUME NEW g, NEW h, NEW s, NEW n \in Nat, Flattens(g, s, n), Flattens(h, s, n)
    PROVE  \A i \in 1 .. n : g[i] = h[i]
<1> DEFINE G == {m \in Nat : m + 1 <= n => g[m + 1] = h[m + 1]}
<1>1. 0 \in G
  BY DEF Flattens
<1>2. ASSUME NEW m \in Nat, m \in G PROVE m + 1 \in G
  <2> SUFFICES ASSUME m + 1 + 1 <= n PROVE g[m + 1 + 1] = h[m + 1 + 1]
    OBVIOUS
  <2>1. g[m + 1] = h[m + 1]
    BY <1>2
  <2>2. m + 1 + 1 \in 1 .. n /\ m + 1 + 1 # 1 /\ (m + 1 + 1) - 1 = m + 1
    OBVIOUS
  <2>3. g[m + 1 + 1] = g[(m + 1 + 1) - 1] \o s[m + 1 + 1]
    BY <2>2 DEF Flattens
  <2>4. h[m + 1 + 1] = h[(m + 1 + 1) - 1] \o s[m + 1 + 1]
    BY <2>2 DEF Flattens
  <2> QED
    BY <2>1, <2>2, <2>3, <2>4
<1> HIDE DEF G
<1>3. Nat \subseteq G
  BY <1>1, <1>2, NatSetInduction
<1>4. ASSUME NEW i \in 1 .. n PROVE g[i] = h[i]
  <2>1. i - 1 \in Nat /\ i - 1 + 1 = i /\ i <= n
    OBVIOUS
  <2>2. i - 1 \in G
    BY <1>3, <2>1
  <2> QED
    BY <2>1, <2>2 DEF G
<1> QED
  BY <1>4

\* FlattenSeq is the last value of that function.
LEMMA FlattenIs ==
    ASSUME NEW T, NEW s \in Seq(Seq(T)), s # <<>>
    PROVE  \E g \in [1 .. Len(s) -> Seq(T)] :
                Flattens(g, s, Len(s)) /\ FlattenSeq(s) = g[Len(s)]
<1>1. Len(s) \in Nat /\ Len(s) # 0
  OBVIOUS
<1>2. PICK g \in [1 .. Len(s) -> Seq(T)] : Flattens(g, s, Len(s))
  BY <1>1, Len(s) <= Len(s), FlattensExists
<1> DEFINE F(f) == [i \in 1 .. Len(s) |-> IF i = 1 THEN s[i] ELSE f[i - 1] \o s[i]]
           c == CHOOSE f : f = F(f)
<1>3. g = F(g)
  BY <1>2 DEF Flattens
<1>4. c = F(c)
  BY <1>3, Zenon
<1> HIDE DEF c
<1>5. Flattens(c, s, Len(s))
  BY <1>4 DEF Flattens
<1>6. FlattenSeq(s) = c[Len(s)]
  BY <1>1 DEF FlattenSeq, c
<1>7. c[Len(s)] = g[Len(s)]
  BY <1>1, <1>2, <1>5, FlattensUnique
<1> QED
  BY <1>2, <1>6, <1>7

\* Flattening lists of T gives a list of T.
LEMMA FlattenType ==
    ASSUME NEW T, NEW s \in Seq(Seq(T))
    PROVE  FlattenSeq(s) \in Seq(T)
<1>1. CASE s = <<>>
  BY <1>1 DEF FlattenSeq
<1>2. CASE s # <<>>
  <2>1. Len(s) \in 1 .. Len(s)
    BY <1>2
  <2>2. PICK g \in [1 .. Len(s) -> Seq(T)] : FlattenSeq(s) = g[Len(s)]
    BY <1>2, FlattenIs
  <2> QED
    BY <2>1, <2>2
<1> QED
  BY <1>1, <1>2

\* Flattening a list with one more element.
LEMMA FlattenAppend ==
    ASSUME NEW T, NEW s \in Seq(Seq(T)), NEW x \in Seq(T)
    PROVE  FlattenSeq(Append(s, x)) = FlattenSeq(s) \o x
<1> DEFINE t == Append(s, x)
           n == Len(s)
<1>1. /\ n \in Nat /\ t \in Seq(Seq(T)) /\ t # <<>> /\ Len(t) = n + 1
      /\ t[n + 1] = x
      /\ \A i \in 1 .. n : t[i] = s[i]
  <2>1. /\ Append(s, x) \in Seq(Seq(T)) /\ Append(s, x) # <<>>
        /\ Len(Append(s, x)) = Len(s) + 1
        /\ \A i \in 1 .. Len(s) : Append(s, x)[i] = s[i]
        /\ Append(s, x)[Len(s) + 1] = x
    BY AppendProperties
  <2> QED
    BY <2>1
<1> HIDE DEF t, n
<1>2. PICK h \in [1 .. n + 1 -> Seq(T)] :
                Flattens(h, t, n + 1) /\ FlattenSeq(t) = h[n + 1]
  BY <1>1, FlattenIs
<1>3. CASE s = <<>>
  <2>1. n = 0 /\ FlattenSeq(s) = <<>>
    BY <1>3 DEF FlattenSeq, n
  <2>2. h[1] = t[1]
    BY <1>2, <2>1 DEF Flattens
  <2>3. <<>> \o x = x
    BY ConcatEmptySeq
  <2> QED
    BY <1>1, <1>2, <2>1, <2>2, <2>3 DEF t
<1>4. CASE s # <<>>
  <2>1. n # 0
    BY <1>4 DEF n
  <2>2. PICK g \in [1 .. n -> Seq(T)] : Flattens(g, s, n) /\ FlattenSeq(s) = g[n]
    BY <1>4, FlattenIs DEF n
  <2>3. Flattens(h, s, n)
    <3>1. ASSUME NEW i \in 1 .. n
          PROVE  h[i] = IF i = 1 THEN s[i] ELSE h[i - 1] \o s[i]
      <4>1. i \in 1 .. n + 1 /\ t[i] = s[i]
        BY <1>1
      <4> QED
        BY <1>2, <4>1 DEF Flattens
    <3> QED
      BY <3>1 DEF Flattens
  <2>4. n \in 1 .. n /\ n + 1 \in 1 .. n + 1 /\ n + 1 # 1 /\ n + 1 - 1 = n
    BY <1>1, <2>1
  <2>5. h[n] = g[n]
    BY <1>1, <2>2, <2>3, <2>4, FlattensUnique, ZenonT(60)
  <2>6. h[n + 1] = h[n] \o x
    <3>1. \A i \in 1 .. n + 1 : i # 1 => h[i] = h[i - 1] \o t[i]
      BY <1>2 DEF Flattens
    <3>2. ASSUME NEW k \in 1 .. n + 1, NEW m \in 1 .. n, k = m + 1
          PROVE  h[k] = h[m] \o t[k]
      <4>1. k # 1 /\ k - 1 = m
        BY <1>1, <3>2
      <4> QED
        BY <3>1, <4>1
    <3>3. t[n + 1] = x
      BY <1>1
    <3>4. h[n + 1] = h[n] \o t[n + 1]
      BY <2>4, <3>2
    <3> QED
      BY <3>3, <3>4
  <2> QED
    BY <1>2, <2>2, <2>5, <2>6 DEF t
<1> QED
  BY <1>3, <1>4

-----------------------------------------------------------------------------
(***************************************************************************)
(* MapThenSumSet takes the elements of a set in an order nobody knows: the *)
(* sum does not depend on it.                                              *)
(***************************************************************************)
\* The element of s that MapThenSumSet takes first.
Chosen(s) == CHOOSE x \in s : TRUE

\* What g must be at the set s, to sum F in the order of Chosen.
SumsAt(g, F, s) ==
    g[s] = IF s = {} THEN 0 ELSE F[Chosen(s)] + g[s \ {Chosen(s)}]

\* g holds the sums of F over all subsets of S.
Sums(g, F, S) == \A s \in SUBSET S : SumsAt(g, F, s)

\* F has a number for every element of S.
Valued(F, S) == \A x \in S : F[x] \in Nat

\* v is the sum of F over S.
IsTotal(v, F, S) == \E g \in [SUBSET S -> Nat] : Sums(g, F, S) /\ v = g[S]

\* Taking an element away leaves a smaller set.
LEMMA SmallerSet ==
    ASSUME NEW s, IsFiniteSet(s), NEW x \in s
    PROVE  /\ IsFiniteSet(s \ {x})
           /\ Cardinality(s) \in Nat /\ Cardinality(s \ {x}) = Cardinality(s) - 1
           /\ Cardinality(s \ {x}) \in Nat
  BY FS_RemoveElement, FS_CardinalityType

\* A set that is not empty has its chosen element.
LEMMA ChosenIsIn == ASSUME NEW s, s # {} PROVE Chosen(s) \in s
  BY DEF Chosen

\* Every finite set has the function of its sums.
LEMMA SumsExists ==
    ASSUME NEW S, IsFiniteSet(S), NEW F, \A x \in S : F[x] \in Nat
    PROVE  \E g \in [SUBSET S -> Nat] : Sums(g, F, S)
<1> DEFINE Small(n) == {s \in SUBSET S : Cardinality(s) <= n}
           G == {n \in Nat : \E g \in [Small(n) -> Nat] : \A s \in Small(n) : SumsAt(g, F, s)}
<1>0. \A s \in SUBSET S : IsFiniteSet(s) /\ Cardinality(s) \in Nat /\ Cardinality(s) <= Cardinality(S)
  BY FS_Subset, FS_CardinalityType
<1>1. 0 \in G
  <2> DEFINE g == [s \in Small(0) |-> 0]
  <2>1. \A s \in Small(0) : s = {}
    BY <1>0, FS_EmptySet
  <2>2. g \in [Small(0) -> Nat] /\ \A s \in Small(0) : SumsAt(g, F, s)
    BY <2>1 DEF SumsAt
  <2> QED
    BY <2>2
<1>2. ASSUME NEW n \in Nat, n \in G PROVE n + 1 \in G
  <2>1. PICK g \in [Small(n) -> Nat] : \A s \in Small(n) : SumsAt(g, F, s)
    BY <1>2
  <2> DEFINE h == [s \in Small(n + 1) |->
                    IF Cardinality(s) = n + 1 THEN F[Chosen(s)] + g[s \ {Chosen(s)}] ELSE g[s]]
  <2>2. ASSUME NEW s \in Small(n + 1), s # {}
        PROVE  Chosen(s) \in s /\ F[Chosen(s)] \in Nat /\ s \ {Chosen(s)} \in Small(n)
    <3>1. Chosen(s) \in s /\ Chosen(s) \in S
      BY <2>2, ChosenIsIn
    <3>2. Cardinality(s \ {Chosen(s)}) = Cardinality(s) - 1 /\ Cardinality(s) \in Nat
      BY <1>0, <3>1, SmallerSet
    <3> QED
      BY <2>2, <3>1, <3>2
  <2>3. ASSUME NEW s \in Small(n + 1), Cardinality(s) # n + 1 PROVE s \in Small(n)
    BY <1>0, <2>3
  <2>4. ASSUME NEW s \in Small(n) PROVE s \in Small(n + 1) /\ Cardinality(s) # n + 1
    BY <1>0, <2>4
  <2>5. ASSUME NEW s, Cardinality(s) = n + 1 PROVE s # {}
    <3>1. Cardinality({}) = 0
      BY FS_EmptySet
    <3>2. n + 1 # 0
      OBVIOUS
    <3> HIDE DEF Small, G
    <3> QED
      BY ONLY <2>5, <3>1, <3>2, Zenon
  <2>6. h \in [Small(n + 1) -> Nat]
    <3> SUFFICES ASSUME NEW s \in Small(n + 1)
                 PROVE  (IF Cardinality(s) = n + 1 THEN F[Chosen(s)] + g[s \ {Chosen(s)}]
                         ELSE g[s]) \in Nat
      OBVIOUS
    <3>1. CASE Cardinality(s) = n + 1
      <4>1. F[Chosen(s)] \in Nat /\ g[s \ {Chosen(s)}] \in Nat
        BY <2>1, <2>2, <2>5, <3>1
      <4> QED
        BY <3>1, <4>1
    <3>2. CASE Cardinality(s) # n + 1
      BY <2>1, <2>3, <3>2
    <3> QED
      BY <3>1, <3>2
  <2>7. ASSUME NEW s \in Small(n + 1) PROVE SumsAt(h, F, s)
    <3>1. CASE Cardinality(s) = n + 1
      <4>1. s # {} /\ s \ {Chosen(s)} \in Small(n)
        BY <2>2, <2>5, <3>1
      <4>2. h[s \ {Chosen(s)}] = g[s \ {Chosen(s)}]
        BY <2>4, <4>1
      <4> QED
        BY <3>1, <4>1, <4>2 DEF SumsAt
    <3>2. CASE Cardinality(s) # n + 1
      <4>1. s \in Small(n) /\ h[s] = g[s] /\ SumsAt(g, F, s)
        BY <2>1, <2>3, <3>2
      <4>2. CASE s = {}
        BY <4>1, <4>2 DEF SumsAt
      <4>3. CASE s # {}
        <5>1. s \ {Chosen(s)} \in Small(n)
          BY <2>2, <4>3
        <5>2. h[s \ {Chosen(s)}] = g[s \ {Chosen(s)}]
          BY <2>4, <5>1
        <5> QED
          BY <4>1, <4>3, <5>2 DEF SumsAt
      <4> QED
        BY <4>2, <4>3
    <3> QED
      BY <3>1, <3>2
  <2> HIDE DEF h, Small
  <2> QED
    BY <2>6, <2>7
<1>3. Cardinality(S) \in Nat
  BY FS_CardinalityType
<1>4. Cardinality(S) \in G
  <2> HIDE DEF G
  <2>1. Nat \subseteq G
    BY <1>1, <1>2, NatSetInduction
  <2> QED
    BY <1>3, <2>1
<1>5. Small(Cardinality(S)) = SUBSET S
  BY <1>0
<1> QED
  BY <1>4, <1>5 DEF Sums

\* The sum is determined by the values of F on the set.
LEMMA SumsUnique ==
    ASSUME NEW S, IsFiniteSet(S), NEW T, IsFiniteSet(T), NEW F, NEW H, NEW g, NEW h,
           Sums(g, F, S), Sums(h, H, T),
           \A x \in S \cap T : F[x] = H[x]
    PROVE  \A s \in SUBSET (S \cap T) : g[s] = h[s]
<1> DEFINE G == {n \in Nat : \A s \in SUBSET (S \cap T) : Cardinality(s) = n => g[s] = h[s]}
<1>0. \A s \in SUBSET (S \cap T) : IsFiniteSet(s) /\ Cardinality(s) \in Nat
  BY FS_Subset, FS_CardinalityType
<1>1. 0 \in G
  <2>1. ASSUME NEW s \in SUBSET (S \cap T), Cardinality(s) = 0 PROVE g[s] = h[s]
    <3>1. s = {}
      BY <1>0, <2>1, FS_EmptySet
    <3>2. SumsAt(g, F, s) /\ SumsAt(h, H, s)
      BY DEF Sums
    <3> QED
      BY <3>1, <3>2 DEF SumsAt
  <2> QED
    BY <2>1
<1>2. ASSUME NEW n \in Nat, n \in G PROVE n + 1 \in G
  <2>1. ASSUME NEW s \in SUBSET (S \cap T), Cardinality(s) = n + 1 PROVE g[s] = h[s]
    <3>1. s # {}
      BY <2>1, FS_EmptySet
    <3>2. Chosen(s) \in s
      BY <3>1, ChosenIsIn
    <3>3. Cardinality(s \ {Chosen(s)}) = n /\ s \ {Chosen(s)} \in SUBSET (S \cap T)
      BY <1>0, <2>1, <3>2, SmallerSet
    <3>4. g[s \ {Chosen(s)}] = h[s \ {Chosen(s)}]
      BY <1>2, <3>3
    <3>5. SumsAt(g, F, s) /\ SumsAt(h, H, s)
      BY DEF Sums
    <3>6. F[Chosen(s)] = H[Chosen(s)]
      BY <3>2
    <3> QED
      BY <3>1, <3>4, <3>5, <3>6 DEF SumsAt
  <2> QED
    BY <2>1
<1>3. Nat \subseteq G
  <2> HIDE DEF G
  <2> QED
    BY <1>1, <1>2, NatSetInduction
<1> QED
  BY <1>0, <1>3

\* Any element may be taken first.
AnyOrder(g, F, S) == \A s \in SUBSET S : \A x \in s : g[s] = F[x] + g[s \ {x}]

\* In the sums, any element of a set may be taken first.
LEMMA SumsAnyOrder ==
    ASSUME NEW S, IsFiniteSet(S), NEW F, Valued(F, S),
           NEW g, g \in [SUBSET S -> Nat], Sums(g, F, S)
    PROVE  AnyOrder(g, F, S)
<1> DEFINE G == {n \in Nat : \A t \in SUBSET S :
                    Cardinality(t) = n => \A y \in t : g[t] = F[y] + g[t \ {y}]}
<1>0. \A t \in SUBSET S : IsFiniteSet(t) /\ Cardinality(t) \in Nat
  BY FS_Subset, FS_CardinalityType
<1>1. 0 \in G
  BY <1>0, FS_EmptySet
<1>2. ASSUME NEW n \in Nat, n \in G PROVE n + 1 \in G
  <2>1. ASSUME NEW u \in SUBSET S, Cardinality(u) = n + 1, NEW y \in u
        PROVE  g[u] = F[y] + g[u \ {y}]
    <3> DEFINE c == Chosen(u)
    <3>1. c \in u
      BY ChosenIsIn
    <3>2. g[u] = F[c] + g[u \ {c}]
      BY DEF Sums, SumsAt
    <3> HIDE DEF c
    <3>3. CASE c = y
      BY <3>2, <3>3
    <3>4. CASE c # y
      <4> DEFINE uc == u \ {c}
                 uy == u \ {y}
                 r == u \ {c, y}
      <4>1. uc \in SUBSET S /\ uy \in SUBSET S /\ r \in SUBSET S
        OBVIOUS
      <4>2. Cardinality(uc) = n /\ Cardinality(uy) = n
        BY <1>0, <2>1, <3>1, SmallerSet
      <4>3. y \in uc /\ c \in uy /\ uc \ {y} = r /\ uy \ {c} = r
        BY <3>1, <3>4
      <4>0. \A t \in SUBSET S : Cardinality(t) = n => \A z \in t : g[t] = F[z] + g[t \ {z}]
        BY <1>2
      <4> HIDE DEF uc, uy, r, G
      <4>4. g[uc] = F[y] + g[r]
        BY <4>0, <4>1, <4>2, <4>3
      <4>5. g[uy] = F[c] + g[r]
        BY <4>0, <4>1, <4>2, <4>3
      <4>6. F[c] \in Nat /\ F[y] \in Nat /\ g[r] \in Nat /\ g[u] = F[c] + g[uc]
        BY <3>1, <3>2, <4>1 DEF uc, Valued
      <4>7. g[u] = F[y] + g[uy]
        BY <4>4, <4>5, <4>6
      <4> QED
        BY <4>7 DEF uy
    <3> QED
      BY <3>3, <3>4
  <2> QED
    BY <2>1
<1>3. Nat \subseteq G
  <2> HIDE DEF G
  <2> QED
    BY <1>1, <1>2, NatSetInduction
<1> QED
  BY <1>0, <1>3 DEF AnyOrder

\* A finite set has one sum, that is a natural number.
LEMMA TotalExists ==
    ASSUME NEW S, IsFiniteSet(S), NEW F, \A x \in S : F[x] \in Nat
    PROVE  \E v \in Nat : IsTotal(v, F, S)
<1>1. PICK g \in [SUBSET S -> Nat] : Sums(g, F, S)
  BY SumsExists
<1>2. g[S] \in Nat /\ IsTotal(g[S], F, S)
  BY <1>1 DEF IsTotal
<1> QED
  BY <1>2

\* There is one total, a number, and it depends on the values over S alone.
LEMMA TotalUnique ==
    ASSUME NEW S, IsFiniteSet(S), NEW F, NEW H, NEW v, NEW w,
           IsTotal(v, F, S), IsTotal(w, H, S), \A x \in S : F[x] = H[x]
    PROVE  v = w /\ v \in Nat
<1>1. PICK g \in [SUBSET S -> Nat] : Sums(g, F, S) /\ v = g[S]
  BY DEF IsTotal
<1>2. PICK h \in [SUBSET S -> Nat] : Sums(h, H, S) /\ w = h[S]
  BY DEF IsTotal
<1>3. \A s \in SUBSET (S \cap S) : g[s] = h[s]
  BY <1>1, <1>2, SumsUnique
<1>4. S \cap S = S /\ S \in SUBSET S
  OBVIOUS
<1> QED
  BY <1>1, <1>2, <1>3, <1>4

\* Nothing sums up to nothing, and one element to its value.
LEMMA TotalOfNone == ASSUME NEW F, NEW v, IsTotal(v, F, {}) PROVE v = 0
  BY DEF IsTotal, Sums, SumsAt

\* One element sums up to its value.
LEMMA TotalOfOne ==
    ASSUME NEW F, NEW e, F[e] \in Nat, NEW v, IsTotal(v, F, {e})
    PROVE  v = F[e]
<1>1. PICK g \in [SUBSET {e} -> Nat] : Sums(g, F, {e}) /\ v = g[{e}]
  BY DEF IsTotal
<1>2. {e} \in SUBSET {e} /\ {} \in SUBSET {e} /\ {e} # {}
  OBVIOUS
<1>3. Chosen({e}) = e
  BY <1>2, ChosenIsIn
<1>4. {e} \ {Chosen({e})} = {}
  BY <1>3
<1>5. g[{}] = 0
  BY <1>1, <1>2 DEF Sums, SumsAt
<1>6. g[{e}] = F[Chosen({e})] + g[{e} \ {Chosen({e})}]
  BY <1>1, <1>2 DEF Sums, SumsAt
<1>7. g[{e}] = F[e] + 0
  BY <1>3, <1>4, <1>5, <1>6
<1> QED
  BY <1>1, <1>7

\* The sum over two sets without a common element is the sum of their sums.
LEMMA TotalOfUnion ==
    ASSUME NEW A, IsFiniteSet(A), NEW B, IsFiniteSet(B), A \cap B = {},
           NEW F, \A x \in A \cup B : F[x] \in Nat,
           NEW a, IsTotal(a, F, A), NEW b, IsTotal(b, F, B),
           NEW v, IsTotal(v, F, A \cup B)
    PROVE  v = a + b /\ v \in Nat /\ a \in Nat /\ b \in Nat
<1> DEFINE S == A \cup B
<1>0. IsFiniteSet(S) /\ A \subseteq S /\ B \subseteq S
  BY FS_Union
<1>1. PICK g \in [SUBSET S -> Nat] : Sums(g, F, S) /\ v = g[S]
  BY DEF IsTotal
<1>2. PICK ga \in [SUBSET A -> Nat] : Sums(ga, F, A) /\ a = ga[A]
  BY DEF IsTotal
<1>3. PICK gb \in [SUBSET B -> Nat] : Sums(gb, F, B) /\ b = gb[B]
  BY DEF IsTotal
<1>4. \A x \in S : F[x] \in Nat
  OBVIOUS
<1> HIDE DEF S
<1>5. g[A] = a
  <2>1. \A s \in SUBSET (S \cap A) : g[s] = ga[s]
    BY <1>0, <1>1, <1>2, SumsUnique
  <2>2. A \in SUBSET (S \cap A)
    BY <1>0
  <2> QED
    BY <1>2, <2>1, <2>2
<1>6. g[B] = b
  <2>1. \A s \in SUBSET (S \cap B) : g[s] = gb[s]
    BY <1>0, <1>1, <1>3, SumsUnique
  <2>2. B \in SUBSET (S \cap B)
    BY <1>0
  <2> QED
    BY <1>3, <2>1, <2>2
<1>7. ASSUME NEW s \in SUBSET S, NEW x \in s PROVE g[s] = F[x] + g[s \ {x}]
  <2>1. IsFiniteSet(S) /\ Valued(F, S) /\ g \in [SUBSET S -> Nat] /\ Sums(g, F, S)
    BY <1>0, <1>1, <1>4 DEF Valued
  <2>2. AnyOrder(g, F, S)
    BY <2>1, SumsAnyOrder
  <2> QED
    BY <2>2 DEF AnyOrder
<1>8. g[{}] = 0
  BY <1>1 DEF Sums, SumsAt
<1> DEFINE G == {n \in Nat : \A s \in SUBSET B : Cardinality(s) = n => g[A \cup s] = g[A] + g[s]}
<1>9. \A s \in SUBSET B : IsFiniteSet(s) /\ Cardinality(s) \in Nat
  BY FS_Subset, FS_CardinalityType
<1>10. 0 \in G
  <2>1. ASSUME NEW s \in SUBSET B, Cardinality(s) = 0 PROVE g[A \cup s] = g[A] + g[s]
    <3>1. s = {} /\ A \cup s = A
      BY <1>9, <2>1, FS_EmptySet
    <3>2. g[A] \in Nat
      BY <1>0, <1>1
    <3> QED
      BY <1>8, <3>1, <3>2
  <2> QED
    BY <2>1
<1>11. ASSUME NEW n \in Nat, n \in G PROVE n + 1 \in G
  <2>0. \A t \in SUBSET B : Cardinality(t) = n => g[A \cup t] = g[A] + g[t]
    BY <1>11
  <2> HIDE DEF G
  <2>1. ASSUME NEW s \in SUBSET B, Cardinality(s) = n + 1 PROVE g[A \cup s] = g[A] + g[s]
    <3>1. s # {}
      <4>1. Cardinality({}) = 0
        BY FS_EmptySet
      <4>2. n + 1 # 0
        OBVIOUS
      <4> QED
        BY ONLY <2>1, <4>1, <4>2, Zenon
    <3>2. PICK x : x \in s
      BY <3>1
    <3> DEFINE t == s \ {x}
    <3>3. Cardinality(t) = n
      BY <1>9, <2>1, <3>2, SmallerSet
    <3>4. t \in SUBSET B /\ (A \cup s) \ {x} = A \cup t
      BY <3>2
    <3>5. A \cup s \in SUBSET S /\ x \in A \cup s /\ s \in SUBSET S /\ A \cup t \in SUBSET S
          /\ t \in SUBSET S /\ A \in SUBSET S
      BY <1>0, <3>2
    <3>6. F[x] \in Nat /\ g[A] \in Nat /\ g[t] \in Nat /\ g[A \cup t] \in Nat
      BY <1>1, <1>4, <3>2, <3>5
    <3>7. g[A \cup s] = F[x] + g[A \cup t]
      BY <1>7, <3>4, <3>5
    <3>8. g[s] = F[x] + g[t]
      BY <1>7, <3>2, <3>5
    <3>9. g[A \cup t] = g[A] + g[t]
      BY <2>0, <3>3, <3>4
    <3> HIDE DEF t
    <3> QED
      BY <3>6, <3>7, <3>8, <3>9
  <2>2. \A s \in SUBSET B : Cardinality(s) = n + 1 => g[A \cup s] = g[A] + g[s]
    BY <2>1, Zenon
  <2>3. n + 1 \in Nat
    OBVIOUS
  <2> QED
    BY <2>2, <2>3, Zenon DEF G
<1>12. Nat \subseteq G
  <2> HIDE DEF G
  <2> QED
    BY <1>10, <1>11, NatSetInduction
<1>13. g[A \cup B] = g[A] + g[B]
  BY <1>9, <1>12
<1>14. a \in Nat /\ b \in Nat /\ A \cup B \in SUBSET S
  BY <1>2, <1>3 DEF S
<1>15. v = g[A \cup B]
  BY <1>1 DEF S
<1> QED
  BY <1>5, <1>6, <1>13, <1>14, <1>15
=============================================================================
