----------------------------- MODULE SessionProofs -----------------------------
(***************************************************************************)
(* Proofs about two parts of a session.                                    *)
(*                                                                         *)
(* Of Congestion: the window stays between its limits, for every window    *)
(* and packet size as long as the smallest window is about a packet, and   *)
(* no packet is filled beyond it, in the space in which it was last cut.   *)
(* Of StreamSet: closing and destroying never meet in the wrong order, for *)
(* every set of streams.                                                   *)
(***************************************************************************)
EXTENDS Congestion, DataLemmas

\* The parameters and the state of StreamSet.
CONSTANTS Own, Peers, MaxOpens
VARIABLES streams, opens, closer, destory_set, active, rwnd_updated

Set == INSTANCE StreamSet

-----------------------------------------------------------------------------
(* Congestion.                                                             *)

\* Reno's step, 9/17 of a packet per window acknowledged, is at least half of
\* what was acknowledged while the window is below 18/17 of a packet.  In both
\* configurations the smallest window is one packet (client.c:21, server.c:22).
RenoIsFaster == 17 * MinCwnd <= 18 * Mss

\* The largest window slow start leaves.
Top == MaxCwnd + Mss - 1

\* All packets sent.
SentInAll == MapThenSumSet(LAMBDA s : sent[s], Spaces)

\* The states of quic_congestion_base_t.
Base == [cwnd : Nat, acked : BOOLEAN, largest_acked : Nat, largest_sent : Nat,
         lost : BOOLEAN, at_loss : Nat, in_slowstart : BOOLEAN, lost_bytes : Nat]

\* What the invariants need of the state's types.
Types ==
    /\ cfg \in [disable_prr : BOOLEAN, large_reduction : BOOLEAN]
    /\ base \in Base
    /\ slowstart \in [threshold : Nat, found : BOOLEAN, min_exit : Nat]
    /\ cubic \in [epoch : BOOLEAN, max : Nat, reno : Nat]
    /\ prr \in [acked : Nat, count : Nat, unacked : Nat, sent : Nat]
    /\ flight \subseteq [space : Spaces, num : Nat, len : PktLens]
    /\ IsFiniteSet(flight)
    /\ level \in Spaces
    /\ sent \in [Spaces -> Nat]
    /\ blind \in BOOLEAN
    /\ cut_level \in Nat

\* A lost byte was sent.
LostWasSent ==
    /\ base.lost_bytes + Mss * Cardinality(flight) <= Mss * SentInAll
    /\ SentInAll \in 0 .. LastSend

\* The exception that WindowIsBounded names.
Unheld == cfg.large_reduction /\ slowstart.min_exit = 0 /\ base.lost_bytes > 0

\* The window slow start ends with is one it had.
ExitIsAWindow == slowstart.min_exit # 0 => slowstart.min_exit \in MinCwnd .. Top

\* Slow start never has a window beyond the limit, however the last one ended.
SlowStartIsBounded == InSlowStart => base.cwnd <= Top

\* What was subtracted too much: 0 was passed.
Wrapped == base.cwnd >= Word - base.lost_bytes

\* Reno's window is below the smallest one only after the exception, and then it
\* is what the window is made of: the window is not larger, unless it passed 0,
\* and slow start is over.
RenoLeads ==
    cubic.epoch /\ cubic.reno < MinCwnd =>
        /\ Unheld
        /\ ~InSlowStart
        /\ base.cwnd <= cubic.reno \/ Wrapped

\* A word holds the window.
WindowFits == base.cwnd < Word

\* What bounds the window.
Window ==
    WindowFits /\ WindowIsBounded /\ ExitIsAWindow /\ SlowStartIsBounded /\ RenoLeads

\* The inductive invariant.
WindowInv == Types /\ LostWasSent /\ Window

-----------------------------------------------------------------------------
(* Arithmetic.                                                             *)

\* Constants.
LEMMA ConstantTypes ==
    /\ Mss \in Nat /\ InitialCwnd \in Nat /\ MinCwnd \in Nat /\ MaxCwnd \in Nat
    /\ Word \in Nat /\ LastSend \in Nat /\ Top \in Int
    /\ 0 < Mss /\ Mss <= MinCwnd /\ MinCwnd <= InitialCwnd /\ InitialCwnd <= MaxCwnd
    /\ MaxCwnd + LastSend * Mss + Mss < Word
    /\ \A len \in PktLens : len \in 1 .. Mss
BY WindowAssumption, BoundsAssumption DEF Top

\* A product grows with its factors.
LEMMA TimesGrows ==
    ASSUME NEW a \in Nat, NEW b \in Nat, NEW c \in Nat, a <= b PROVE c * a <= c * b
BY SMT

\* A quotient, rounded down.
LEMMA Quotient ==
    ASSUME NEW n \in Nat, NEW d \in Nat \ {0}
    PROVE  n \div d \in Nat /\ d * (n \div d) <= n /\ n < d * (n \div d) + d
BY SMT

\* Reno's step in a small window is not less than cubic's largest.
LEMMA RenoStep ==
    ASSUME RenoIsFaster, NEW r \in Nat, 0 < r, r < MinCwnd, NEW len \in 1 .. Mss
    PROVE  len \div 2 <= (len * Mss * 9) \div (17 * r)
<1> DEFINE d == 17 * r
           n == len * Mss * 9
           q == n \div d
           h == len \div 2
<1>1. /\ d \in Nat \ {0} /\ n \in Nat /\ len \in Nat /\ Mss \in Nat /\ h \in Nat
      /\ 2 * h <= len
  BY ConstantTypes
<1>2. d <= 18 * Mss
  BY ConstantTypes DEF RenoIsFaster
<1>3. len * d <= 2 * n
  <2>1. len * d <= len * (18 * Mss)
    BY <1>1, <1>2, TimesGrows
  <2> QED
    BY <1>1, <2>1
<1>4. q \in Nat /\ n < d * q + d
  BY <1>1, Quotient
<1>5. d * (2 * h) <= d * len
  BY <1>1, TimesGrows
<1> HIDE DEF d, n, q, h
<1>6. ASSUME q + 1 <= h PROVE FALSE
  <2>1. d * (q + 1) <= d * h
    BY <1>1, <1>4, <1>6, TimesGrows
  <2>2. d * (q + 1) = d * q + d /\ d * (2 * h) = 2 * (d * h) /\ len * d = d * len
    BY <1>1, <1>4
  <2>3. d * q \in Nat /\ d * h \in Nat /\ d * len \in Nat
    BY <1>1, <1>4
  <2> QED
    BY <1>1, <1>3, <1>4, <1>5, <2>1, <2>2, <2>3
<1>7. h <= q
  BY <1>1, <1>4, <1>6
<1> QED
  BY <1>7 DEF q, h, n, d

\* uint64_t subtraction.
LEMMA MinusIs ==
    ASSUME NEW a \in 0 .. Word - 1, NEW b \in 0 .. Word - 1
    PROVE  /\ Minus(a, b) \in 0 .. Word - 1
           /\ b <= a => Minus(a, b) = a - b
           /\ a < b  => Minus(a, b) = a - b + Word
<1>1. Word \in Nat \ {0}
  BY ConstantTypes
<1>2. CASE b <= a
  BY <1>1, <1>2 DEF Minus
<1>3. CASE a < b
  <2> DEFINE x == a - b
  <2>1. x \in Int /\ 0 <= x + Word /\ x + Word < Word
    BY <1>1, <1>3
  <2>2. x % Word = x + Word
    BY <1>1, <2>1
  <2> QED
    BY <1>1, <1>3, <2>1, <2>2 DEF Minus
<1> QED
  BY <1>2, <1>3, <1>1

-----------------------------------------------------------------------------
(* Packets sent, and packets in flight.                                    *)

\* The numbers of f over S, added up.
SumOver(f, S) == MapThenSumSet(LAMBDA s : f[s], S)

\* The library's recursive sum is the sum.
LEMMA SumIsTotal ==
    ASSUME NEW S, IsFiniteSet(S), NEW F, \A x \in S : F[x] \in Nat
    PROVE  IsTotal(SumOver(F, S), F, S) /\ SumOver(F, S) \in Nat
<1> DEFINE W(x) == F[x]
           R(f) == [s \in SUBSET S |-> IF s = {} THEN 0
                     ELSE W(CHOOSE x \in s : TRUE) + f[s \ {CHOOSE x \in s : TRUE}]]
           c == CHOOSE f : f = R(f)
<1>1. PICK g \in [SUBSET S -> Nat] : Sums(g, F, S)
  BY SumsExists
<1>2. SumOver(F, S) = c[S]
  BY DEF SumOver, MapThenSumSet, MapThenFoldSet
<1>3. g = R(g)
  BY <1>1, Zenon DEF Sums, SumsAt, Chosen
<1>4. c = R(c)
  BY <1>3, Zenon
<1> HIDE DEF c
<1>5. Sums(c, F, S)
  BY <1>4 DEF Sums, SumsAt, Chosen
<1>6. c[S] = g[S]
  <2>1. \A s \in SUBSET (S \cap S) : c[s] = g[s]
    BY <1>1, <1>5, SumsUnique
  <2>2. S \in SUBSET (S \cap S)
    OBVIOUS
  <2> QED
    BY <2>1, <2>2
<1>7. g[S] \in Nat /\ IsTotal(g[S], F, S)
  BY <1>1 DEF IsTotal
<1> QED
  BY <1>2, <1>6, <1>7

\* The sum depends on the values over S alone.
LEMMA SumSame ==
    ASSUME NEW S, IsFiniteSet(S), NEW F, NEW G, \A x \in S : F[x] = G[x] /\ G[x] \in Nat
    PROVE  SumOver(F, S) = SumOver(G, S)
<1>1. IsTotal(SumOver(F, S), F, S) /\ IsTotal(SumOver(G, S), G, S)
  BY SumIsTotal
<1> QED
  BY <1>1, TotalUnique

\* The sum without one of the elements.
LEMMA SumWithout ==
    ASSUME NEW S, IsFiniteSet(S), NEW F, \A x \in S : F[x] \in Nat, NEW e \in S
    PROVE  /\ SumOver(F, S) = SumOver(F, S \ {e}) + F[e]
           /\ SumOver(F, S \ {e}) \in Nat
<1> DEFINE rest == S \ {e}
<1>1. IsFiniteSet(rest) /\ IsFiniteSet({e}) /\ rest \cap {e} = {} /\ rest \cup {e} = S
  BY FS_Subset, FS_Singleton
<1>2. IsTotal(SumOver(F, S), F, S)
  BY SumIsTotal
<1>3. IsTotal(SumOver(F, rest), F, rest) /\ SumOver(F, rest) \in Nat
  BY <1>1, SumIsTotal
<1>4. IsTotal(SumOver(F, {e}), F, {e})
  BY <1>1, SumIsTotal
<1>5. SumOver(F, {e}) = F[e]
  BY <1>4, TotalOfOne
<1> HIDE DEF rest
<1>6. \A x \in rest \cup {e} : F[x] \in Nat
  BY <1>1
<1>7. IsTotal(SumOver(F, S), F, rest \cup {e})
  BY <1>1, <1>2
<1>8. SumOver(F, S) = SumOver(F, rest) + SumOver(F, {e})
  BY <1>1, <1>3, <1>4, <1>6, <1>7, TotalOfUnion
<1> QED
  BY <1>3, <1>5, <1>8 DEF rest

\* The lengths of a set of packets.
Lengths(S) == [p \in S |-> p.len]

\* Bytes adds them up.
LEMMA BytesAreTheTotal ==
    ASSUME NEW S, IsFiniteSet(S), \A p \in S : p.len \in Nat
    PROVE  IsTotal(Bytes(S), Lengths(S), S) /\ Bytes(S) \in Nat
<1> DEFINE F == Lengths(S)
           W(p) == p.len
           R(f) == [s \in SUBSET S |-> IF s = {} THEN 0
                     ELSE W(CHOOSE x \in s : TRUE) + f[s \ {CHOOSE x \in s : TRUE}]]
           c == CHOOSE f : f = R(f)
<1>1. \A x \in S : F[x] = W(x) /\ F[x] \in Nat
  BY DEF Lengths
<1>2. PICK g \in [SUBSET S -> Nat] : Sums(g, F, S)
  BY <1>1, SumsExists
<1>3. Bytes(S) = c[S]
  BY DEF Bytes, MapThenSumSet, MapThenFoldSet
<1>4. g = R(g)
  BY <1>1, <1>2, Zenon DEF Sums, SumsAt, Chosen
<1>5. c = R(c)
  BY <1>4, Zenon
<1> HIDE DEF c
<1>6. Sums(c, F, S)
  BY <1>1, <1>5 DEF Sums, SumsAt, Chosen
<1>7. c[S] = g[S]
  <2>1. \A s \in SUBSET (S \cap S) : c[s] = g[s]
    BY <1>2, <1>6, SumsUnique
  <2>2. S \in SUBSET (S \cap S)
    OBVIOUS
  <2> QED
    BY <2>1, <2>2
<1>8. g[S] \in Nat /\ IsTotal(g[S], F, S)
  BY <1>2 DEF IsTotal
<1> QED
  BY <1>3, <1>7, <1>8

\* No packet has no bytes.
LEMMA BytesOfNone == Bytes({}) = 0
<1>1. IsFiniteSet({}) /\ \A p \in {} : p.len \in Nat
  BY FS_EmptySet
<1>2. IsTotal(Bytes({}), Lengths({}), {})
  BY <1>1, BytesAreTheTotal
<1> QED
  BY <1>2, TotalOfNone

\* The bytes of two parts of the packets are the bytes of all.
LEMMA BytesOfParts ==
    ASSUME NEW S, IsFiniteSet(S), \A p \in S : p.len \in Nat, NEW A \in SUBSET S
    PROVE  /\ Bytes(S) = Bytes(A) + Bytes(S \ A)
           /\ Bytes(A) \in Nat /\ Bytes(S \ A) \in Nat
<1> DEFINE B == S \ A
           F == Lengths(S)
<1>1. IsFiniteSet(A) /\ IsFiniteSet(B) /\ A \cap B = {} /\ A \cup B = S
  BY FS_Subset
<1>2. ASSUME NEW T \in SUBSET S, IsFiniteSet(T)
      PROVE  IsTotal(Bytes(T), F, T) /\ Bytes(T) \in Nat
  <2>1. IsTotal(Bytes(T), Lengths(T), T) /\ Bytes(T) \in Nat
    BY <1>2, BytesAreTheTotal
  <2>2. \A p \in T : F[p] = Lengths(T)[p] /\ F[p] \in Nat
    BY DEF Lengths
  <2>3. PICK v \in Nat : IsTotal(v, F, T)
    BY <1>2, <2>2, TotalExists
  <2>4. v = Bytes(T)
    BY <1>2, <2>1, <2>2, <2>3, TotalUnique
  <2> QED
    BY <2>1, <2>3, <2>4
<1>3. \A p \in S : F[p] \in Nat
  BY DEF Lengths
<1>4. A \in SUBSET S /\ B \in SUBSET S /\ S \in SUBSET S
  OBVIOUS
<1> HIDE DEF F, B
<1>5. /\ IsTotal(Bytes(A), F, A) /\ IsTotal(Bytes(B), F, B)
      /\ IsTotal(Bytes(S), F, A \cup B)
      /\ Bytes(A) \in Nat /\ Bytes(B) \in Nat
  BY <1>1, <1>2, <1>4
<1>6. Bytes(S) = Bytes(A) + Bytes(B)
  BY <1>1, <1>3, <1>5, TotalOfUnion
<1> QED
  BY <1>5, <1>6 DEF B

\* One packet has its length.
LEMMA BytesOfOne == ASSUME NEW p, p.len \in Nat PROVE Bytes({p}) = p.len
<1>1. IsFiniteSet({p}) /\ \A q \in {p} : q.len \in Nat
  BY FS_Singleton
<1>2. IsTotal(Bytes({p}), Lengths({p}), {p})
  BY <1>1, BytesAreTheTotal
<1>3. Lengths({p})[p] = p.len
  BY DEF Lengths
<1> QED
  BY <1>2, <1>3, TotalOfOne

\* The bytes without one of the packets.
LEMMA BytesWithout ==
    ASSUME NEW S, IsFiniteSet(S), \A p \in S : p.len \in Nat, NEW e \in S
    PROVE  Bytes(S) = Bytes(S \ {e}) + e.len /\ Bytes(S \ {e}) \in Nat
<1>1. {e} \in SUBSET S
  OBVIOUS
<1>2. Bytes(S) = Bytes({e}) + Bytes(S \ {e}) /\ Bytes(S \ {e}) \in Nat
  BY <1>1, BytesOfParts
<1> QED
  BY <1>2, BytesOfOne

\* A packet sent is one more.
LEMMA OneMoreSent ==
    ASSUME level \in Spaces, sent \in [Spaces -> Nat],
           sent' = [sent EXCEPT ![level] = @ + 1]
    PROVE  SentInAll \in Nat /\ SentInAll' = SentInAll + 1
<1> DEFINE rest == Spaces \ {level}
<1>1. IsFiniteSet(Spaces) /\ IsFiniteSet(rest)
  <2>1. IsFiniteSet(Spaces)
    BY BoundsAssumption, FS_Interval DEF Spaces
  <2> QED
    BY <2>1, FS_Subset
<1>2. sent' \in [Spaces -> Nat] /\ sent'[level] = sent[level] + 1
  OBVIOUS
<1>3. \A s \in rest : sent'[s] = sent[s] /\ sent[s] \in Nat
  OBVIOUS
<1>4. /\ SumOver(sent, Spaces) = SumOver(sent, rest) + sent[level]
      /\ SumOver(sent, rest) \in Nat
  <2>1. \A s \in Spaces : sent[s] \in Nat
    OBVIOUS
  <2> QED
    BY <1>1, <2>1, SumWithout, ZenonT(60)
<1>5. SumOver(sent', Spaces) = SumOver(sent', rest) + sent'[level]
  <2>1. \A s \in Spaces : sent'[s] \in Nat
    BY <1>2
  <2> QED
    BY <1>1, <2>1, SumWithout, ZenonT(60)
<1>6. SumOver(sent', rest) = SumOver(sent, rest)
  BY <1>1, <1>3, SumSame
<1>7. SentInAll = SumOver(sent, Spaces) /\ SentInAll' = SumOver(sent', Spaces)
  BY DEF SentInAll, SumOver, MapThenSumSet, MapThenFoldSet
<1>8. sent[level] \in Nat
  OBVIOUS
<1> HIDE DEF rest
<1> QED
  BY <1>2, <1>4, <1>5, <1>6, <1>7, <1>8

\* Nothing was sent at the start.
LEMMA NothingSent ==
    ASSUME sent = [s \in Spaces |-> 0] PROVE SentInAll = 0
<1> DEFINE g == [T \in SUBSET Spaces |-> 0]
<1>1. IsFiniteSet(Spaces)
  BY BoundsAssumption, FS_Interval DEF Spaces
<1>2. \A s \in Spaces : sent[s] = 0
  OBVIOUS
<1>3. IsTotal(SumOver(sent, Spaces), sent, Spaces)
  BY <1>1, <1>2, SumIsTotal
<1>4. g \in [SUBSET Spaces -> Nat] /\ g[Spaces] = 0
  OBVIOUS
<1>5. Sums(g, sent, Spaces)
  BY <1>2, ChosenIsIn DEF Sums, SumsAt
<1>6. IsTotal(0, sent, Spaces)
  BY <1>4, <1>5 DEF IsTotal
<1>7. SumOver(sent, Spaces) = 0
  BY <1>1, <1>3, <1>6, TotalUnique
<1> QED
  BY <1>7 DEF SentInAll, SumOver

\* Nothing is sent.
LEMMA NoneSent ==
    ASSUME sent \in [Spaces -> Nat], sent' = sent PROVE SentInAll' = SentInAll
<1>1. IsFiniteSet(Spaces)
  BY BoundsAssumption, FS_Interval DEF Spaces
<1>2. SumOver(sent', Spaces) = SumOver(sent, Spaces)
  BY <1>1, SumSame
<1>3. SentInAll = SumOver(sent, Spaces) /\ SentInAll' = SumOver(sent', Spaces)
  BY DEF SentInAll, SumOver, MapThenSumSet, MapThenFoldSet
<1> QED
  BY <1>2, <1>3

\* A packet that is acknowledged or lost is one less in flight.
LEMMA OneLessInFlight ==
    ASSUME IsFiniteSet(flight), NEW p \in flight, flight' = flight \ {p}
    PROVE  /\ IsFiniteSet(flight') /\ Cardinality(flight) \in Nat
           /\ Cardinality(flight') \in Nat
           /\ Mss * Cardinality(flight') + Mss = Mss * Cardinality(flight)
<1>1. /\ IsFiniteSet(flight') /\ Cardinality(flight) \in Nat
      /\ Cardinality(flight') = Cardinality(flight) - 1 /\ Cardinality(flight') \in Nat
  BY SmallerSet
<1> QED
  BY <1>1, ConstantTypes

-----------------------------------------------------------------------------
(* What each step assigns, by the cases of congestion.c.                   *)

\* The numbers the lemmas below reason about.
LEMMA WindowTypes ==
    ASSUME Types
    PROVE  /\ base.cwnd \in Nat /\ base.lost_bytes \in Nat
           /\ slowstart.threshold \in Nat /\ slowstart.min_exit \in Nat
           /\ cubic.reno \in Nat /\ cubic.max \in Nat
           /\ \A p \in flight : p.len \in 1 .. Mss /\ p.num \in Nat
BY ConstantTypes DEF Types, Base

\* Unsigned, whatever is subtracted.
LEMMA MinusType == ASSUME NEW a \in Nat, NEW b \in Nat PROVE Minus(a, b) \in Nat
<1>1. Word \in Nat \ {0}
  <2>1. LastSend * Mss \in Nat
    BY ConstantTypes
  <2> QED
    BY <2>1, ConstantTypes
<1> QED
  BY <1>1 DEF Minus

\* An acknowledged packet counts for rate reduction in recovery, and outside it
\* leaves the window, adds a packet, or takes cubic's step.
LEMMA AckedStep ==
    ASSUME Types, NEW p \in flight, OnAcked(p)
    PROVE  /\ flight' = flight \ {p}
           /\ UNCHANGED <<cfg, slowstart, level, sent, blind, cut_level>>
           /\ base'.lost = base.lost /\ base'.at_loss = base.at_loss
           /\ base'.largest_sent = base.largest_sent
           /\ base'.lost_bytes = base.lost_bytes
           /\ base'.acked
           /\ IF base.acked
              THEN base'.largest_acked = Larger(base.largest_acked, p.num)
              ELSE base'.largest_acked = p.num
           /\ InRecovery(base') =>
                /\ base'.cwnd = base.cwnd
                /\ prr' = IF cfg.disable_prr THEN prr
                          ELSE [prr EXCEPT !.acked = @ + p.len, !.count = @ + 1]
           /\ \/ /\ base'.cwnd = base.cwnd
                 /\ cubic'.epoch => cubic.epoch /\ cubic'.reno = cubic.reno
              \/ /\ InSlowStart /\ base.cwnd < MaxCwnd
                 /\ base'.cwnd = base.cwnd + Mss /\ cubic' = cubic
              \/ /\ ~InSlowStart /\ base.cwnd < MaxCwnd /\ RenoStart > 0
                 /\ \E curve \in Nat :
                        base'.cwnd = Smaller(CubicWindow(p.len, curve), MaxCwnd)
                 /\ cubic'.epoch /\ cubic'.reno = CubicReno(p.len)
           /\ base' \in Base
           /\ cubic' \in [epoch : BOOLEAN, max : Nat, reno : Nat]
           /\ prr' \in [acked : Nat, count : Nat, unacked : Nat, sent : Nat]
<1> DEFINE unacked == InFlight - p.len
           b == [base EXCEPT !.acked = TRUE,
                             !.largest_acked = IF base.acked THEN Larger(@, p.num) ELSE p.num]
           Counted == prr' = IF cfg.disable_prr THEN prr
                             ELSE [prr EXCEPT !.acked = @ + p.len, !.count = @ + 1]
<1>1. /\ flight' = flight \ {p}
      /\ UNCHANGED <<cfg, slowstart, level, sent, blind, cut_level>>
  BY DEF OnAcked
<1>2. IF InRecovery(b)
      THEN base' = b /\ Counted /\ UNCHANGED cubic
      ELSE /\ RenoStart > 0
           /\ \E curve \in {0, base.cwnd, Word - 1} :
                  base' = Increased(b, p.len, unacked, curve)
           /\ cubic' = AckedCubic(p.len, unacked)
           /\ UNCHANGED prr
  BY DEF OnAcked
<1>3. p.len \in 1 .. Mss /\ p.len \in Nat /\ p.num \in Nat
  BY ConstantTypes, WindowTypes
<1>4. /\ b \in Base /\ b.acked
      /\ b.cwnd = base.cwnd /\ b.lost_bytes = base.lost_bytes /\ b.lost = base.lost
      /\ b.at_loss = base.at_loss /\ b.largest_sent = base.largest_sent
      /\ IF base.acked THEN b.largest_acked = Larger(base.largest_acked, p.num)
                       ELSE b.largest_acked = p.num
  BY <1>3 DEF Types, Base, Larger
<1>5. CASE InRecovery(b)
  <2>1. base' = b /\ Counted /\ cubic' = cubic
    BY <1>2, <1>5
  <2>2. prr' \in [acked : Nat, count : Nat, unacked : Nat, sent : Nat]
    <3> HIDE DEF b
    <3>1. CASE cfg.disable_prr
      BY <2>1, <3>1 DEF Types
    <3>2. CASE ~cfg.disable_prr
      <4>1. prr' = [prr EXCEPT !.acked = @ + p.len, !.count = @ + 1]
        BY <2>1, <3>2
      <4>2. prr.acked + p.len \in Nat /\ prr.count + 1 \in Nat
        BY <1>3 DEF Types
      <4> QED
        BY <4>1, <4>2 DEF Types
    <3> QED
      BY <3>1, <3>2
  <2> HIDE DEF b
  <2> QED
    BY <1>1, <1>4, <2>1, <2>2 DEF Types
<1>6. CASE ~InRecovery(b)
  <2> HIDE DEF b, unacked
  <2>1. PICK curve \in Nat : base' = Increased(b, p.len, unacked, curve)
    <3>1. {0, base.cwnd, Word - 1} \subseteq Nat
      <4>1. LastSend * Mss \in Nat
        BY ConstantTypes
      <4> QED
        BY <4>1, ConstantTypes, WindowTypes
    <3> QED
      BY <1>2, <1>6, <3>1
  <2>2. RenoStart > 0 /\ cubic' = AckedCubic(p.len, unacked) /\ prr' = prr
    BY <1>2, <1>6
  <2>3. CwndLimited(unacked) \in BOOLEAN /\ InSlowStart \in BOOLEAN
    BY DEF CwndLimited, InSlowStart
  <2>4. ASSUME NEW c \in Nat, base' = [b EXCEPT !.cwnd = c]
        PROVE  /\ base'.cwnd = c /\ base' \in Base /\ base'.acked
               /\ base'.lost_bytes = base.lost_bytes /\ base'.lost = base.lost
               /\ base'.at_loss = base.at_loss
               /\ base'.largest_sent = base.largest_sent
               /\ IF base.acked THEN base'.largest_acked = Larger(base.largest_acked, p.num)
                                ELSE base'.largest_acked = p.num
               /\ ~InRecovery(base')
    BY <1>4, <1>6, <2>4 DEF Base, InRecovery
  <2>5. base.cwnd \in Nat /\ b = [b EXCEPT !.cwnd = base.cwnd]
    BY <1>4 DEF Base
  <2>6. CASE ~CwndLimited(unacked) \/ base.cwnd >= MaxCwnd
    <3>1. base' = b
      BY <2>1, <2>3, <2>6, ConstantTypes, WindowTypes DEF Increased
    <3>2. cubic' \in {cubic, [cubic EXCEPT !.epoch = FALSE]}
      BY <2>2, <2>6, ConstantTypes, WindowTypes DEF AckedCubic
    <3>3. /\ cubic' \in [epoch : BOOLEAN, max : Nat, reno : Nat]
          /\ cubic'.epoch => cubic.epoch /\ cubic'.reno = cubic.reno
      BY <3>2 DEF Types
    <3> QED
      BY <1>1, <2>2, <2>4, <2>5, <3>1, <3>3 DEF Types
  <2>7. CASE CwndLimited(unacked) /\ base.cwnd < MaxCwnd /\ InSlowStart
    <3>1. base' = [b EXCEPT !.cwnd = base.cwnd + Mss]
      BY <1>4, <2>1, <2>7, ConstantTypes, WindowTypes DEF Increased
    <3>2. cubic' = cubic
      BY <2>2, <2>7 DEF AckedCubic
    <3>3. base.cwnd + Mss \in Nat
      BY ConstantTypes, WindowTypes
    <3> QED
      BY <1>1, <2>2, <2>4, <2>7, <3>1, <3>2, <3>3 DEF Types
  <2>8. CASE CwndLimited(unacked) /\ base.cwnd < MaxCwnd /\ ~InSlowStart
    <3> DEFINE cwnd == Smaller(CubicWindow(p.len, curve), MaxCwnd)
               reno == CubicReno(p.len)
               step == (p.len * Mss * 9) \div (17 * RenoStart)
    <3>1. base' = [b EXCEPT !.cwnd = cwnd]
      BY <2>1, <2>8, ConstantTypes, WindowTypes DEF Increased
    <3>2. cubic' = [cubic EXCEPT !.epoch = TRUE, !.reno = reno]
      BY <2>2, <2>8 DEF AckedCubic
    <3>3. reno \in Nat
      <4>1. RenoStart \in Nat \ {0}
        BY <2>2, WindowTypes DEF RenoStart
      <4>2. 17 * RenoStart \in Nat \ {0} /\ p.len * Mss * 9 \in Nat
        BY <1>3, <4>1, ConstantTypes
      <4>3. step \in Nat
        BY <4>2, Quotient
      <4> HIDE DEF step
      <4>4. reno = RenoStart + step
        BY DEF CubicReno, step
      <4> QED
        BY <4>1, <4>3, <4>4
    <3>4. cwnd \in Nat
      <4>1. base.cwnd + p.len \div 2 \in Nat
        BY <1>3, WindowTypes
      <4> QED
        BY <3>3, <4>1, ConstantTypes DEF CubicWindow, Smaller, Larger
    <3> HIDE DEF cwnd, reno
    <3>5. /\ cubic' \in [epoch : BOOLEAN, max : Nat, reno : Nat]
          /\ cubic'.epoch /\ cubic'.reno = reno
      BY <3>2, <3>3 DEF Types
    <3>6. base'.cwnd = Smaller(CubicWindow(p.len, curve), MaxCwnd)
      BY <2>4, <3>1, <3>4 DEF cwnd
    <3> QED
      BY <1>1, <2>2, <2>4, <2>8, <3>1, <3>4, <3>5, <3>6 DEF Types, reno
  <2> QED
    BY <2>3, <2>6, <2>7, <2>8, ConstantTypes, WindowTypes
<1> QED
  BY <1>5, <1>6

\* A loss that was answered takes bytes off the window, or nothing.
LEMMA LostAgainStep ==
    ASSUME Types, NEW p \in flight, LostAgain(p)
    PROVE  /\ UNCHANGED <<cubic, prr, blind, cut_level>>
           /\ base'.acked = base.acked /\ base'.largest_acked = base.largest_acked
           /\ base'.lost = base.lost /\ base'.at_loss = base.at_loss
           /\ base'.largest_sent = base.largest_sent
           /\ base'.lost_bytes \in {base.lost_bytes, base.lost_bytes + p.len}
           /\ \/ base'.cwnd = base.cwnd /\ slowstart'.threshold = slowstart.threshold
              \/ slowstart'.threshold = base'.cwnd
           /\ base' \in Base
           /\ slowstart' \in [threshold : Nat, found : BOOLEAN, min_exit : Nat]
<1>1. UNCHANGED <<cubic, prr, blind, cut_level>>
  BY DEF LostAgain
<1> DEFINE cwnd == Reduced(p.len)
<1>2. cwnd \in Nat /\ base.lost_bytes + p.len \in Nat
  <2>1. base.cwnd \in Nat /\ p.len \in Nat /\ base.lost_bytes \in Nat
    BY ConstantTypes, WindowTypes
  <2>2. Minus(base.cwnd, p.len) \in Nat
    BY <2>1, MinusType
  <2> QED
    BY <2>1, <2>2, WindowTypes DEF Reduced, Larger
<1>3. /\ base' = IF ~base.in_slowstart THEN base
                 ELSE [base EXCEPT !.lost_bytes = @ + p.len,
                                   !.cwnd = IF cfg.large_reduction THEN cwnd ELSE @]
      /\ slowstart' = IF base.in_slowstart /\ cfg.large_reduction
                      THEN [slowstart EXCEPT !.threshold = cwnd]
                      ELSE slowstart
  BY DEF LostAgain
<1> HIDE DEF cwnd
<1>4. CASE ~base.in_slowstart
  BY <1>1, <1>3, <1>4 DEF Types
<1>5. CASE base.in_slowstart /\ ~cfg.large_reduction
  BY <1>1, <1>2, <1>3, <1>5 DEF Types, Base
<1>6. CASE base.in_slowstart /\ cfg.large_reduction
  BY <1>1, <1>2, <1>3, <1>6 DEF Types, Base
<1> QED
  BY <1>4, <1>5, <1>6

\* The first loss cuts the window, and rate reduction starts over.
LEMMA CutStep ==
    ASSUME Types, NEW unacked \in Nat, Cut(unacked)
    PROVE  /\ blind' = ~base.acked /\ cut_level' = level
           /\ base'.acked = base.acked /\ base'.largest_acked = base.largest_acked
           /\ base'.lost /\ base'.at_loss = base.largest_sent
           /\ base'.largest_sent = base.largest_sent
           /\ base'.lost_bytes = base.lost_bytes
           /\ slowstart'.threshold <= base'.cwnd
           /\ ~cfg.disable_prr =>
                prr' = [acked |-> 0, count |-> 0, unacked |-> unacked, sent |-> 0]
           /\ base' \in Base
           /\ slowstart' \in [threshold : Nat, found : BOOLEAN, min_exit : Nat]
           /\ cubic' \in [epoch : BOOLEAN, max : Nat, reno : Nat]
           /\ prr' \in [acked : Nat, count : Nat, unacked : Nat, sent : Nat]
<1> DEFINE large == cfg.large_reduction /\ InSlowStart
           cut == IF large THEN Minus(base.cwnd, Mss) ELSE Multiplied(base.cwnd)
<1>1. cut \in Nat
  <2>1. Minus(base.cwnd, Mss) \in Nat
    BY MinusType, ConstantTypes, WindowTypes
  <2>2. Multiplied(base.cwnd) \in Nat
    BY WindowTypes DEF Multiplied
  <2> QED
    BY <2>1, <2>2
<1>2. InSlowStart \in BOOLEAN
  BY DEF InSlowStart
<1>3. /\ base' = [base EXCEPT !.in_slowstart = InSlowStart, !.cwnd = Larger(cut, MinCwnd),
                              !.lost = TRUE, !.at_loss = base.largest_sent]
      /\ slowstart' = [slowstart EXCEPT
                !.min_exit = IF large /\ base.cwnd >= 2 * InitialCwnd
                             THEN base.cwnd \div 2 ELSE @,
                !.threshold = cut]
      /\ cubic' = IF large THEN cubic ELSE CubicAtLoss
      /\ prr' = IF cfg.disable_prr THEN prr
                ELSE [acked |-> 0, count |-> 0, unacked |-> unacked, sent |-> 0]
      /\ blind' = ~base.acked /\ cut_level' = level
  BY DEF Cut, PrrOnLost
<1> HIDE DEF large, cut
<1>4. Larger(cut, MinCwnd) \in Nat /\ cut <= Larger(cut, MinCwnd)
  BY <1>1, ConstantTypes DEF Larger
<1>5. /\ base' \in Base /\ base'.cwnd = Larger(cut, MinCwnd)
      /\ base'.acked = base.acked /\ base'.largest_acked = base.largest_acked
      /\ base'.lost /\ base'.at_loss = base.largest_sent
      /\ base'.largest_sent = base.largest_sent
      /\ base'.lost_bytes = base.lost_bytes
  BY <1>2, <1>3, <1>4 DEF Types, Base
<1>6. /\ slowstart' \in [threshold : Nat, found : BOOLEAN, min_exit : Nat]
      /\ slowstart'.threshold = cut
  <2>1. base.cwnd \div 2 \in Nat
    BY WindowTypes
  <2> QED
    BY <1>1, <1>3, <2>1 DEF Types
<1>7. cubic' \in [epoch : BOOLEAN, max : Nat, reno : Nat]
  <2>1. (base.cwnd * 17) \div 20 \in Nat /\ base.cwnd \in Nat
    BY WindowTypes
  <2> QED
    BY <1>3, <2>1 DEF CubicAtLoss, Types
<1>8. prr' \in [acked : Nat, count : Nat, unacked : Nat, sent : Nat]
  BY <1>3 DEF Types
<1> QED
  BY <1>3, <1>4, <1>5, <1>6, <1>7, <1>8

-----------------------------------------------------------------------------
(* The window.                                                             *)

\* It starts between its limits.
LEMMA InitWindow == Init => WindowInv
<1> SUFFICES ASSUME Init PROVE WindowInv
  OBVIOUS
<1>1. Types
  <2>1. flight = {} /\ IsFiniteSet(flight)
    BY FS_EmptySet DEF Init
  <2>2. InitialCwnd \in Nat /\ MaxCwnd \in Nat
    BY ConstantTypes
  <2>3. level \in Spaces
    BY BoundsAssumption DEF Init, Spaces
  <2> QED
    BY <2>1, <2>2, <2>3 DEF Types, Base, Init
<1>2. LostWasSent
  <2>1. SentInAll = 0
    BY NothingSent DEF Init
  <2>2. Cardinality(flight) = 0 /\ base.lost_bytes = 0
    BY FS_EmptySet DEF Init
  <2> QED
    BY <2>1, <2>2, ConstantTypes DEF LostWasSent
<1>3. Window
  <2>1. /\ base.cwnd = InitialCwnd /\ slowstart.threshold = MaxCwnd
        /\ slowstart.min_exit = 0 /\ ~cubic.epoch
    BY DEF Init
  <2>2. LastSend * Mss \in Nat
    BY ConstantTypes
  <2> QED
    BY <2>1, <2>2, ConstantTypes
       DEF Window, WindowFits, WindowIsBounded, ExitIsAWindow, SlowStartIsBounded, RenoLeads,
           InSlowStart, Top
<1> QED
  BY <1>1, <1>2, <1>3 DEF WindowInv

\* A step that leaves the window and its bounds, or ends Reno's epoch.
LEMMA WindowSame ==
    ASSUME Window, cfg' = cfg, slowstart' = slowstart,
           base'.cwnd = base.cwnd, base'.lost_bytes = base.lost_bytes,
           cubic'.epoch => cubic.epoch /\ cubic'.reno = cubic.reno
    PROVE  Window'
<1> USE DEF Unheld, InSlowStart
<1>1. WindowIsBounded' /\ ExitIsAWindow' /\ SlowStartIsBounded'
  BY DEF Window, WindowIsBounded, ExitIsAWindow, SlowStartIsBounded
<1>2. RenoLeads'
  BY DEF Window, RenoLeads, Wrapped
<1>3. WindowFits'
  BY DEF Window, WindowFits
<1> QED
  BY <1>1, <1>2, <1>3 DEF Window

\* A window in slow start is its own, and Reno's is not small.
LEMMA SlowStartWindow ==
    ASSUME Types, Window, InSlowStart
    PROVE  base.cwnd <= Top /\ (cubic.epoch => cubic.reno >= MinCwnd)
BY ConstantTypes, WindowTypes DEF Window, SlowStartIsBounded, RenoLeads

\* Slow start adds a packet.
LEMMA WindowSlowStart ==
    ASSUME Types, Window, InSlowStart, base.cwnd < MaxCwnd,
           cfg' = cfg, slowstart' = slowstart, cubic' = cubic,
           base'.cwnd = base.cwnd + Mss, base'.lost_bytes = base.lost_bytes
    PROVE  Window'
<1> USE ConstantTypes, WindowTypes
<1>1. base'.cwnd \in 0 .. Word - 1 /\ base'.cwnd <= Top
  <2>1. LastSend * Mss \in Nat
    OBVIOUS
  <2> QED
    BY <2>1 DEF Top
<1>2. WindowIsBounded'
  BY <1>1 DEF Window, WindowIsBounded, Top
<1>3. ExitIsAWindow' /\ SlowStartIsBounded'
  BY <1>1 DEF Window, ExitIsAWindow, SlowStartIsBounded
<1>4. RenoLeads'
  BY SlowStartWindow DEF RenoLeads
<1> QED
  BY <1>1, <1>2, <1>3, <1>4 DEF Window, WindowFits

\* Bytes lost are too few for a window that passed 0 to come down to the limit.
LEMMA WrappedIsLarge ==
    ASSUME Types, LostWasSent
    PROVE  base.lost_bytes <= LastSend * Mss /\ (Wrapped => MaxCwnd < base.cwnd)
<1>1. Mss * SentInAll <= Mss * LastSend /\ Mss * LastSend = LastSend * Mss
  BY ConstantTypes, TimesGrows DEF LostWasSent
<1>2. Cardinality(flight) \in Nat
  BY FS_CardinalityType DEF Types
<1>3. Mss * Cardinality(flight) \in Nat /\ Mss * SentInAll \in Nat /\ LastSend * Mss \in Nat
  BY <1>2, ConstantTypes DEF LostWasSent
<1>4. base.lost_bytes <= LastSend * Mss
  BY <1>1, <1>3, WindowTypes DEF LostWasSent
<1> QED
  BY <1>3, <1>4, ConstantTypes, WindowTypes DEF Wrapped

\* Cubic's step, for every value of its curve.
LEMMA WindowCubic ==
    ASSUME RenoIsFaster, Types, LostWasSent, Window,
           ~InSlowStart, base.cwnd < MaxCwnd, RenoStart > 0,
           NEW len \in 1 .. Mss, NEW curve \in Nat,
           cfg' = cfg, slowstart' = slowstart,
           cubic'.epoch, cubic'.reno = CubicReno(len),
           base'.cwnd = Smaller(CubicWindow(len, curve), MaxCwnd),
           base'.lost_bytes = base.lost_bytes
    PROVE  Window'
<1> DEFINE r == RenoStart
           step == (len * Mss * 9) \div (17 * r)
           half == len \div 2
           reno == CubicReno(len)
           cwnd == base'.cwnd
<1>1. /\ r \in Nat \ {0} /\ len \in Nat /\ half \in Nat
  BY ConstantTypes, WindowTypes DEF RenoStart
<1>2. step \in Nat
  <2>1. 17 * r \in Nat \ {0} /\ len * Mss * 9 \in Nat
    BY <1>1, ConstantTypes
  <2> QED
    BY <2>1, Quotient
<1>3. reno = r + step
  BY DEF CubicReno
<1>4. r < MinCwnd => half <= step
  BY <1>1, RenoStep
<1>5. cwnd = Smaller(Larger(Smaller(curve, base.cwnd + half), reno), MaxCwnd)
  BY DEF CubicWindow
<1> HIDE DEF step, half, reno, cwnd
<1>6. cubic.epoch /\ r < MinCwnd => Unheld /\ base.cwnd <= r
  BY WrappedIsLarge, ConstantTypes, WindowTypes DEF Window, RenoLeads, RenoStart
<1>7. ~cubic.epoch => r = base.cwnd
  BY DEF RenoStart
<1> HIDE DEF r
<1>8. reno \in Nat /\ r <= reno
  BY <1>1, <1>2, <1>3
<1>9. /\ cwnd \in Nat /\ cwnd <= MaxCwnd
      /\ reno <= cwnd \/ cwnd = MaxCwnd
  BY <1>1, <1>5, <1>8, ConstantTypes, WindowTypes DEF Smaller, Larger
<1>10. cwnd \in 0 .. Word - 1 /\ cwnd <= Top
  <2>1. LastSend * Mss \in Nat
    BY ConstantTypes
  <2> QED
    BY <1>9, <2>1, ConstantTypes DEF Top
<1>11. r < MinCwnd => Unheld
  BY <1>6, <1>7, ConstantTypes, WindowTypes DEF Window, WindowIsBounded, Unheld
<1>12. WindowIsBounded'
  <2>1. CASE r < MinCwnd
    <3>1. Unheld'
      BY <1>11, <2>1 DEF Unheld
    <3> QED
      BY <3>1 DEF Unheld, WindowIsBounded
  <2>2. CASE MinCwnd <= r
    <3>1. cwnd \in MinCwnd .. MaxCwnd + Mss - 1
      BY <1>1, <1>8, <1>9, <2>2, ConstantTypes
    <3> QED
      BY <3>1 DEF WindowIsBounded, cwnd
  <2> QED
    BY <1>1, <2>1, <2>2, ConstantTypes
<1>13. ExitIsAWindow' /\ SlowStartIsBounded'
  BY <1>10 DEF Window, ExitIsAWindow, SlowStartIsBounded, cwnd
<1>14. RenoLeads'
  <2> SUFFICES ASSUME reno < MinCwnd PROVE Unheld' /\ ~InSlowStart' /\ base'.cwnd <= reno
    BY DEF RenoLeads, reno
  <2>1. r < MinCwnd
    BY <1>1, <1>8, ConstantTypes
  <2>2. Unheld'
    BY <1>11, <2>1 DEF Unheld
  <2>3. base.cwnd <= r
    BY <1>1, <1>6, <1>7, <2>1, WindowTypes
  <2>4. base.cwnd + half <= reno
    BY <1>1, <1>2, <1>3, <1>4, <2>1, <2>3, WindowTypes
  <2>5. cwnd = Smaller(reno, MaxCwnd)
    BY <1>1, <1>5, <1>8, <2>4, WindowTypes DEF Smaller, Larger
  <2>6. base.cwnd <= cwnd /\ cwnd <= reno
    BY <1>1, <1>8, <2>3, <2>5, ConstantTypes, WindowTypes DEF Smaller
  <2>7. ~InSlowStart'
    BY <1>9, <2>6, WindowTypes DEF InSlowStart, cwnd
  <2> QED
    BY <2>2, <2>6, <2>7 DEF cwnd
<1> QED
  BY <1>10, <1>12, <1>13, <1>14, ConstantTypes DEF Window, WindowFits, cwnd

\* A loss that no other has answered cuts the window.
LEMMA WindowCut ==
    ASSUME Types, Window, NEW unacked, Cut(unacked), cfg' = cfg
    PROVE  Window'
<1> USE ConstantTypes, WindowTypes
<1> DEFINE large == cfg.large_reduction /\ InSlowStart
           cut == IF large THEN Minus(base.cwnd, Mss) ELSE Multiplied(base.cwnd)
           cwnd == base'.cwnd
           exit == slowstart'.min_exit
<1>0. base.cwnd \in 0 .. Word - 1
  BY DEF Window, WindowFits
<1>1. /\ cwnd = Larger(cut, MinCwnd)
      /\ base'.lost_bytes = base.lost_bytes
      /\ slowstart'.threshold = cut
      /\ exit = IF large /\ base.cwnd >= 2 * InitialCwnd
                THEN base.cwnd \div 2 ELSE slowstart.min_exit
  BY DEF Cut, Types, Base
<1>2. /\ large => cubic' = cubic
      /\ ~large => ~cubic'.epoch
  BY DEF Cut, CubicAtLoss, Types
<1>3. Mss \in 0 .. Word - 1 /\ MinCwnd \in 0 .. Word - 1
  <2>1. LastSend * Mss \in Nat
    OBVIOUS
  <2> QED
    BY <2>1
<1>4. /\ cut \in 0 .. Word - 1
      /\ cut <= base.cwnd \/ (large /\ base.cwnd < Mss)
  <2>1. CASE large
    <3>1. /\ Minus(base.cwnd, Mss) \in 0 .. Word - 1
          /\ Mss <= base.cwnd => Minus(base.cwnd, Mss) = base.cwnd - Mss
      BY <1>0, <1>3, MinusIs
    <3>2. cut = Minus(base.cwnd, Mss)
      BY <2>1
    <3> HIDE DEF cut
    <3> QED
      BY <2>1, <3>1, <3>2
  <2>2. CASE ~large
    <3>1. (base.cwnd * 7) \div 10 \in Nat /\ (base.cwnd * 7) \div 10 <= base.cwnd
      OBVIOUS
    <3> QED
      BY <1>0, <2>2, <3>1 DEF Multiplied
  <2> QED
    BY <2>1, <2>2
<1>5. large => InSlowStart /\ cfg.large_reduction
  OBVIOUS
<1> HIDE DEF large, cut, cwnd, exit
<1>6. /\ cwnd \in 0 .. Word - 1 /\ cwnd >= cut /\ cwnd >= MinCwnd
      /\ cwnd = cut \/ cwnd = MinCwnd
  BY <1>1, <1>3, <1>4 DEF Larger
<1>7. ~InSlowStart'
  BY <1>1, <1>4, <1>6 DEF InSlowStart, cwnd
<1>8. exit # slowstart.min_exit => exit \in MinCwnd .. Top /\ large
  <2> SUFFICES ASSUME exit # slowstart.min_exit PROVE exit \in MinCwnd .. Top /\ large
    OBVIOUS
  <2>1. large /\ base.cwnd >= 2 * InitialCwnd /\ exit = base.cwnd \div 2
    BY <1>1
  <2>2. base.cwnd <= Top
    BY <1>5, <2>1, SlowStartWindow
  <2>3. /\ base.cwnd \div 2 \in Nat /\ base.cwnd \div 2 <= base.cwnd
        /\ base.cwnd \div 2 >= InitialCwnd
    BY <2>1
  <2> QED
    BY <2>1, <2>2, <2>3
<1>9. ExitIsAWindow'
  <2>1. CASE exit = slowstart.min_exit
    BY <2>1 DEF exit, Window, ExitIsAWindow
  <2>2. CASE exit # slowstart.min_exit
    BY <1>8, <2>2 DEF exit, ExitIsAWindow
  <2> QED
    BY <2>1, <2>2
<1>10. WindowIsBounded'
  <2>1. CASE base.cwnd \in MinCwnd .. Top
    <3>1. cwnd <= Top
      BY <1>4, <1>6, <2>1
    <3> QED
      BY <1>6, <3>1 DEF WindowIsBounded, Top, cwnd
  <2>2. CASE base.cwnd \notin MinCwnd .. Top
    <3>1. Unheld
      BY <2>2 DEF Window, WindowIsBounded, Unheld, Top
    <3>2. large => base.cwnd < MinCwnd
      BY <1>5, <2>2, SlowStartWindow
    <3>3. exit = slowstart.min_exit
      BY <1>1, <3>2
    <3> QED
      BY <1>1, <3>1, <3>3 DEF WindowIsBounded, Unheld, exit
  <2> QED
    BY <2>1, <2>2
<1>11. RenoLeads'
  BY <1>2, <1>5, SlowStartWindow DEF RenoLeads
<1>12. SlowStartIsBounded'
  BY <1>7 DEF SlowStartIsBounded
<1> QED
  BY <1>6, <1>9, <1>10, <1>11, <1>12 DEF Window, WindowFits, cwnd

\* Another loss of the same flight takes its bytes off the window.
LEMMA WindowLostAgain ==
    ASSUME Types, Window, NEW p \in flight, LostAgain(p), cfg' = cfg
    PROVE  Window'
<1> USE ConstantTypes, WindowTypes
<1> DEFINE len == p.len
           reduced == Minus(base.cwnd, len)
           exit == slowstart.min_exit
           cwnd == base'.cwnd
<1>1. cubic' = cubic /\ slowstart'.min_exit = exit
  BY DEF LostAgain, Types
<1>2. CASE ~base.in_slowstart
  <2>1. base' = base /\ slowstart' = slowstart
    BY <1>2 DEF LostAgain
  <2> QED
    BY <1>1, <2>1, WindowSame
<1>3. CASE base.in_slowstart /\ ~cfg.large_reduction
  <2>1. /\ cwnd = base.cwnd /\ base'.lost_bytes = base.lost_bytes + len
        /\ slowstart' = slowstart
    BY <1>3 DEF LostAgain, Types, Base
  <2>2. WindowIsBounded' /\ ExitIsAWindow' /\ SlowStartIsBounded'
    BY <1>3, <2>1
       DEF Window, WindowIsBounded, ExitIsAWindow, SlowStartIsBounded, InSlowStart
  <2>3. RenoLeads'
    BY <1>1, <1>3 DEF Window, RenoLeads, Unheld
  <2> QED
    BY <2>1, <2>2, <2>3 DEF Window, WindowFits
<1>4. CASE base.in_slowstart /\ cfg.large_reduction
  <2>1. /\ cwnd = Larger(reduced, exit)
        /\ base'.lost_bytes = base.lost_bytes + len
        /\ slowstart'.threshold = cwnd
    BY <1>4 DEF LostAgain, Reduced, Types, Base
  <2>2. len \in 1 .. Mss /\ len \in 0 .. Word - 1
    <3>1. LastSend * Mss \in Nat
      OBVIOUS
    <3> QED
      BY <3>1
  <2>3. /\ reduced \in 0 .. Word - 1
        /\ len <= base.cwnd => reduced = base.cwnd - len
        /\ base.cwnd < len => reduced = base.cwnd - len + Word
    <3>1. base.cwnd \in 0 .. Word - 1
      BY DEF Window, WindowFits
    <3> QED
      BY <2>2, <3>1, MinusIs
  <2>4. exit # 0 => exit \in MinCwnd .. Top
    BY DEF Window, ExitIsAWindow
  <2>5. exit \in 0 .. Word - 1
    <3>1. LastSend * Mss \in Nat
      OBVIOUS
    <3> QED
      BY <2>4, <3>1 DEF Top
  <2> HIDE DEF len, reduced, exit, cwnd
  <2>6. /\ cwnd \in 0 .. Word - 1 /\ (exit = 0 => cwnd = reduced)
        /\ cwnd >= exit /\ (cwnd = exit \/ cwnd = reduced)
    BY <2>1, <2>3, <2>5 DEF Larger
  <2>7. ~InSlowStart'
    BY <2>1, <2>6 DEF InSlowStart, cwnd
  <2>8. exit = 0 => Unheld'
    BY <1>1, <1>4, <2>1, <2>2 DEF Unheld
  <2>9. WindowIsBounded'
    <3>1. CASE exit = 0
      BY <2>8, <3>1 DEF WindowIsBounded, Unheld
    <3>2. CASE exit # 0
      <4>1. base.cwnd \in MinCwnd .. Top
        BY <3>2 DEF Window, WindowIsBounded, Top, exit
      <4>2. cwnd \in MinCwnd .. Top
        BY <2>2, <2>3, <2>4, <2>6, <3>2, <4>1 DEF Top
      <4> QED
        BY <4>2 DEF WindowIsBounded, Top, cwnd
    <3> QED
      BY <3>1, <3>2
  <2>10. ExitIsAWindow' /\ SlowStartIsBounded'
    BY <1>1, <2>4, <2>7 DEF ExitIsAWindow, SlowStartIsBounded
  <2>11. RenoLeads'
    <3> SUFFICES ASSUME cubic.epoch, cubic.reno < MinCwnd
                 PROVE  Unheld' /\ (cwnd <= cubic.reno \/ Wrapped')
      BY <1>1, <2>7, <2>8 DEF RenoLeads, cwnd, Window, Unheld, exit
    <3>1. Unheld /\ (base.cwnd <= cubic.reno \/ Wrapped)
      BY DEF Window, RenoLeads
    <3>2. exit = 0 /\ cwnd = reduced
      BY <2>6, <3>1 DEF Unheld, exit
    <3>3. Wrapped' <=> cwnd >= Word - (base.lost_bytes + len)
      BY <2>1 DEF Wrapped, cwnd
    <3>4. CASE base.cwnd < len
      BY <2>2, <2>3, <2>8, <3>2, <3>3, <3>4
    <3>5. CASE len <= base.cwnd
      BY <2>2, <2>3, <2>8, <3>1, <3>2, <3>3, <3>5 DEF Wrapped
    <3> QED
      BY <2>2, <3>4, <3>5
  <2> QED
    BY <2>6, <2>9, <2>10, <2>11 DEF Window, WindowFits, cwnd
<1> QED
  BY <1>2, <1>3, <1>4 DEF Types, Base

\* HyStart ends slow start at the window there is.
LEMMA WindowUpdate ==
    ASSUME Types, Window, InSlowStart, cfg' = cfg, base' = base, cubic' = cubic,
           slowstart'.threshold \in {slowstart.threshold, base.cwnd},
           slowstart'.min_exit = slowstart.min_exit
    PROVE  Window'
<1> USE ConstantTypes, WindowTypes
<1>1. WindowFits' /\ WindowIsBounded' /\ ExitIsAWindow'
  BY DEF Window, WindowFits, WindowIsBounded, ExitIsAWindow
<1>2. SlowStartIsBounded' /\ RenoLeads'
  BY SlowStartWindow DEF SlowStartIsBounded, RenoLeads
<1> QED
  BY <1>1, <1>2 DEF Window
-----------------------------------------------------------------------------
(* Types.                                                                  *)

\* The lengths in flight are numbers.
LEMMA FlightBytes ==
    ASSUME Types
    PROVE  /\ \A p \in flight : p.len \in Nat
           /\ \A S \in SUBSET flight : IsFiniteSet(S) /\ Bytes(S) \in Nat
<1>1. \A p \in flight : p.len \in Nat
  BY WindowTypes
<1>2. ASSUME NEW S \in SUBSET flight PROVE IsFiniteSet(S) /\ Bytes(S) \in Nat
  <2>1. IsFiniteSet(S)
    BY FS_Subset DEF Types
  <2> QED
    BY <1>1, <2>1, BytesAreTheTotal
<1> QED
  BY <1>1, <1>2

\* A packet found lost has the first of two effects, or the second.
LEMMA LostStep ==
    ASSUME Types, NEW p \in flight, OnLost(p)
    PROVE  /\ flight' = flight \ {p} /\ UNCHANGED <<cfg, level, sent>>
           /\ IF Answered(p) THEN LostAgain(p) ELSE Cut(InFlight - p.len)
           /\ InFlight = Bytes(flight \ {p}) + p.len
           /\ InFlight - p.len = Bytes(flight \ {p})
           /\ InFlight - p.len \in Nat
<1>1. /\ InFlight = Bytes(flight \ {p}) + p.len /\ Bytes(flight \ {p}) \in Nat
      /\ p.len \in Nat
  BY FlightBytes, BytesWithout DEF InFlight, Types
<1>2. InFlight - p.len = Bytes(flight \ {p})
  BY <1>1
<1>3. /\ flight' = flight \ {p} /\ UNCHANGED <<cfg, level, sent>>
      /\ IF Answered(p) THEN LostAgain(p) ELSE Cut(InFlight - p.len)
  BY DEF OnLost
<1> QED
  BY <1>1, <1>2, <1>3

\* A packet sent.
LEMMA SendStep ==
    ASSUME Types, NEW len \in PktLens, Send(len)
    PROVE  LET pkt == [space |-> level, num |-> sent[level], len |-> len]
           IN  /\ flight' = flight \cup {pkt}
               /\ pkt \in [space : Spaces, num : Nat, len : PktLens]
               /\ sent' = [sent EXCEPT ![level] = @ + 1]
               /\ UNCHANGED <<cfg, slowstart, cubic, level, blind, cut_level>>
               /\ base' = [base EXCEPT !.largest_sent = sent[level]]
               /\ base' \in Base
               /\ prr' = IF InRecovery(base) THEN [prr EXCEPT !.sent = @ + len] ELSE prr
               /\ prr' \in [acked : Nat, count : Nat, unacked : Nat, sent : Nat]
<1> DEFINE pkt == [space |-> level, num |-> sent[level], len |-> len]
<1>1. /\ flight' = flight \cup {pkt}
      /\ sent' = [sent EXCEPT ![level] = @ + 1]
      /\ UNCHANGED <<cfg, slowstart, cubic, level, blind, cut_level>>
      /\ base' = [base EXCEPT !.largest_sent = sent[level]]
      /\ prr' = IF InRecovery(base) THEN [prr EXCEPT !.sent = @ + len] ELSE prr
  BY DEF Send
<1>2. sent[level] \in Nat /\ level \in Spaces /\ len \in Nat
  BY ConstantTypes DEF Types
<1>3. pkt \in [space : Spaces, num : Nat, len : PktLens]
  BY <1>2
<1>4. base' \in Base
  BY <1>1, <1>2 DEF Types, Base
<1>5. prr' \in [acked : Nat, count : Nat, unacked : Nat, sent : Nat]
  <2>1. prr.sent + len \in Nat
    BY <1>2 DEF Types
  <2>2. CASE InRecovery(base)
    <3>1. prr' = [prr EXCEPT !.sent = prr.sent + len]
      BY <1>1, <2>2
    <3> QED
      BY <2>1, <3>1 DEF Types
  <2>3. CASE ~InRecovery(base)
    BY <1>1, <2>3 DEF Types
  <2> QED
    BY <2>2, <2>3
<1> QED
  BY <1>1, <1>3, <1>4, <1>5

\* HyStart changes what it found, and where slow start ends.
LEMMA UpdateStep ==
    ASSUME Types, NEW grows \in BOOLEAN, Update(grows)
    PROVE  /\ InSlowStart
           /\ UNCHANGED <<cfg, base, cubic, prr, flight, level, sent, blind, cut_level>>
           /\ slowstart'.threshold \in {slowstart.threshold, base.cwnd}
           /\ slowstart'.min_exit = slowstart.min_exit
           /\ slowstart' \in [threshold : Nat, found : BOOLEAN, min_exit : Nat]
<1> DEFINE found == slowstart.found \/ grows
           new == IF slowstart.found \/ (found /\ base.cwnd \div Mss >= HystartPackets)
                  THEN base.cwnd ELSE slowstart.threshold
<1>1. /\ InSlowStart /\ UNCHANGED <<cfg, base, cubic, prr, flight, level, sent, blind, cut_level>>
      /\ slowstart' = [slowstart EXCEPT !.found = found, !.threshold = new]
  BY DEF Update
<1>2. new \in {slowstart.threshold, base.cwnd} /\ new \in Nat /\ found \in BOOLEAN
  BY WindowTypes DEF Types
<1> HIDE DEF new, found
<1> QED
  BY <1>1, <1>2 DEF Types

\* Every step keeps the types.
LEMMA NextTypes == Types /\ [Next]_vars => Types'
<1> SUFFICES ASSUME Types, [Next]_vars PROVE Types'
  OBVIOUS
<1>1. ASSUME NEW len \in PktLens, Send(len) PROVE Types'
  <2> DEFINE pkt == [space |-> level, num |-> sent[level], len |-> len]
  <2>1. /\ flight' = flight \cup {pkt}
        /\ pkt \in [space : Spaces, num : Nat, len : PktLens]
        /\ sent' = [sent EXCEPT ![level] = @ + 1]
        /\ UNCHANGED <<cfg, slowstart, cubic, level, blind, cut_level>>
        /\ base' \in Base
        /\ prr' \in [acked : Nat, count : Nat, unacked : Nat, sent : Nat]
    BY <1>1, SendStep
  <2> HIDE DEF pkt
  <2>2. IsFiniteSet(flight')
    BY <2>1, FS_AddElement DEF Types
  <2>3. sent' \in [Spaces -> Nat]
    BY <2>1 DEF Types
  <2> QED
    BY <2>1, <2>2, <2>3 DEF Types
<1>2. ASSUME NEW p \in flight, OnAcked(p) PROVE Types'
  <2>1. /\ flight' = flight \ {p}
        /\ UNCHANGED <<cfg, slowstart, level, sent, blind, cut_level>>
        /\ base' \in Base
        /\ cubic' \in [epoch : BOOLEAN, max : Nat, reno : Nat]
        /\ prr' \in [acked : Nat, count : Nat, unacked : Nat, sent : Nat]
    BY <1>2, AckedStep
  <2>2. IsFiniteSet(flight')
    BY <2>1, FS_Subset DEF Types
  <2> QED
    BY <2>1, <2>2 DEF Types
<1>3. ASSUME NEW p \in flight, OnLost(p) PROVE Types'
  <2>1. /\ flight' = flight \ {p} /\ UNCHANGED <<cfg, level, sent>>
        /\ IF Answered(p) THEN LostAgain(p) ELSE Cut(InFlight - p.len)
        /\ InFlight - p.len \in Nat
    BY <1>3, LostStep
  <2>2. IsFiniteSet(flight') /\ flight' \subseteq flight
    BY <2>1, FS_Subset DEF Types
  <2>3. /\ base' \in Base /\ blind' \in BOOLEAN /\ cut_level' \in Nat
        /\ slowstart' \in [threshold : Nat, found : BOOLEAN, min_exit : Nat]
        /\ cubic' \in [epoch : BOOLEAN, max : Nat, reno : Nat]
        /\ prr' \in [acked : Nat, count : Nat, unacked : Nat, sent : Nat]
    <3>1. CASE Answered(p)
      <4>1. LostAgain(p)
        BY <2>1, <3>1
      <4> QED
        BY <4>1, LostAgainStep DEF Types
    <3>2. CASE ~Answered(p)
      <4>1. Cut(InFlight - p.len)
        BY <2>1, <3>2
      <4>2. /\ blind' = ~base.acked /\ base.acked \in BOOLEAN
            /\ cut_level' = level /\ level \in Nat
        <5>1. Spaces \subseteq Nat
          BY BoundsAssumption DEF Spaces
        <5> QED
          BY <2>1, <4>1, <5>1, CutStep DEF Types, Base
      <4> QED
        BY <2>1, <4>1, <4>2, CutStep
    <3> QED
      BY <3>1, <3>2
  <2> QED
    BY <2>1, <2>2, <2>3 DEF Types
<1>4. ASSUME NEW grows \in BOOLEAN, Update(grows) PROVE Types'
  BY <1>4, UpdateStep DEF Types
<1>5. CASE RaiseLevel
  <2>1. /\ level' = level + 1 /\ level < NumSpaces /\ flight' = {}
        /\ UNCHANGED <<cfg, base, slowstart, cubic, prr, sent, blind, cut_level>>
    BY <1>5 DEF RaiseLevel
  <2>2. level' \in Spaces
    <3>1. level \in Spaces /\ NumSpaces \in Nat
      BY BoundsAssumption DEF Types
    <3> QED
      BY <2>1, <3>1 DEF Spaces
  <2>3. IsFiniteSet(flight')
    BY <2>1, FS_EmptySet
  <2> QED
    BY <2>1, <2>2, <2>3 DEF Types
<1>6. CASE UNCHANGED vars
  BY <1>6 DEF Types, vars
<1> QED
  BY <1>1, <1>2, <1>3, <1>4, <1>5, <1>6 DEF Next

-----------------------------------------------------------------------------
(* Bytes lost were sent.                                                   *)

\* A packet that leaves the flight, perhaps to be counted as lost.
LEMMA LostOfFlight ==
    ASSUME Types, LostWasSent, NEW p \in flight, flight' = flight \ {p}, sent' = sent,
           base'.lost_bytes \in {base.lost_bytes, base.lost_bytes + p.len}
    PROVE  LostWasSent'
<1>1. /\ Cardinality(flight') \in Nat /\ Cardinality(flight) \in Nat
      /\ Mss * Cardinality(flight') + Mss = Mss * Cardinality(flight)
  BY OneLessInFlight DEF Types
<1>2. SentInAll' = SentInAll
  BY NoneSent DEF Types
<1>3. /\ Mss * Cardinality(flight') \in Nat /\ Mss * Cardinality(flight) \in Nat
      /\ SentInAll \in Nat /\ Mss * SentInAll \in Nat
  BY <1>1, ConstantTypes DEF LostWasSent
<1>4. base'.lost_bytes <= base.lost_bytes + Mss /\ base'.lost_bytes \in Nat
  BY ConstantTypes, WindowTypes
<1> DEFINE before == Mss * Cardinality(flight)
           after == Mss * Cardinality(flight')
           all == Mss * SentInAll
<1>5. base.lost_bytes + before <= all
  BY DEF LostWasSent
<1>6. base'.lost_bytes + after <= all
  <2> HIDE DEF before, after, all
  <2>1. after + Mss = before /\ before \in Nat /\ after \in Nat /\ all \in Nat
    BY <1>1, <1>3 DEF before, after, all
  <2> QED
    BY <1>4, <1>5, <2>1, ConstantTypes, WindowTypes
<1> QED
  BY <1>2, <1>6 DEF LostWasSent

\* A packet sent may be lost.
LEMMA LostAfterSend ==
    ASSUME Types, LostWasSent, NEW len \in PktLens, Send(len) PROVE LostWasSent'
<1> DEFINE pkt == [space |-> level, num |-> sent[level], len |-> len]
<1>1. /\ flight' = flight \cup {pkt} /\ sent' = [sent EXCEPT ![level] = @ + 1]
      /\ base'.lost_bytes = base.lost_bytes
  BY SendStep DEF Types, Base
<1> HIDE DEF pkt
<1>2. /\ Cardinality(flight) \in Nat /\ Cardinality(flight') \in Nat
      /\ Cardinality(flight') <= Cardinality(flight) + 1
  <2>1. IsFiniteSet(flight)
    BY DEF Types
  <2>2. Cardinality(flight \cup {pkt}) \in {Cardinality(flight), Cardinality(flight) + 1}
    BY <2>1, FS_AddElement
  <2>3. Cardinality(flight) \in Nat
    BY <2>1, FS_CardinalityType
  <2> QED
    BY <1>1, <2>2, <2>3
<1>3. SentInAll' = SentInAll + 1 /\ SentInAll \in Nat
  BY <1>1, OneMoreSent DEF Types
<1>4. SentInAll < LastSend
  BY DEF Send, SentInAll
<1>5. Mss * Cardinality(flight') <= Mss * Cardinality(flight) + Mss
  <2>1. Mss * Cardinality(flight') <= Mss * (Cardinality(flight) + 1)
    BY <1>2, ConstantTypes, TimesGrows
  <2> QED
    BY <1>2, <2>1, ConstantTypes
<1>6. Mss * (SentInAll + 1) = Mss * SentInAll + Mss
  BY <1>3, ConstantTypes
<1> DEFINE before == Mss * Cardinality(flight)
           after == Mss * Cardinality(flight')
           all == Mss * SentInAll
<1>7. before \in Nat /\ after \in Nat /\ all \in Nat
  BY <1>2, <1>3, ConstantTypes
<1>8. base.lost_bytes + before <= all
  BY DEF LostWasSent
<1>9. base'.lost_bytes + after <= all + Mss
  <2> HIDE DEF before, after, all
  <2>1. after <= before + Mss
    BY <1>5 DEF before, after
  <2> QED
    BY <1>1, <1>7, <1>8, <2>1, ConstantTypes, WindowTypes
<1> QED
  BY <1>3, <1>4, <1>6, <1>9, ConstantTypes DEF LostWasSent

\* Every step keeps it.
LEMMA NextLostWasSent == Types /\ LostWasSent /\ [Next]_vars => LostWasSent'
<1> SUFFICES ASSUME Types, LostWasSent, [Next]_vars PROVE LostWasSent'
  OBVIOUS
<1>1. ASSUME NEW len \in PktLens, Send(len) PROVE LostWasSent'
  BY <1>1, LostAfterSend
<1>2. ASSUME NEW p \in flight, OnAcked(p) PROVE LostWasSent'
  BY <1>2, AckedStep, LostOfFlight
<1>3. ASSUME NEW p \in flight, OnLost(p) PROVE LostWasSent'
  <2>1. base'.lost_bytes \in {base.lost_bytes, base.lost_bytes + p.len}
    <3>1. CASE Answered(p)
      BY <1>3, <3>1, LostStep, LostAgainStep
    <3>2. CASE ~Answered(p)
      BY <1>3, <3>2, LostStep, CutStep
    <3> QED
      BY <3>1, <3>2
  <2> QED
    BY <1>3, <2>1, LostStep, LostOfFlight
<1>4. ASSUME NEW grows \in BOOLEAN, Update(grows) PROVE LostWasSent'
  <2>1. UNCHANGED <<base, flight, sent>>
    BY <1>4 DEF Update
  <2> QED
    BY <2>1, NoneSent DEF LostWasSent, Types
<1>5. CASE RaiseLevel
  <2>1. flight' = {} /\ UNCHANGED <<base, sent>>
    BY <1>5 DEF RaiseLevel
  <2>2. Cardinality({}) = 0 /\ Cardinality(flight) \in Nat
    BY FS_EmptySet, FS_CardinalityType DEF Types
  <2>3. Mss * Cardinality(flight) \in Nat /\ Mss * 0 = 0 /\ Mss * SentInAll \in Nat
    BY <2>2, ConstantTypes DEF LostWasSent
  <2>4. SentInAll' = SentInAll
    BY <2>1, NoneSent DEF Types
  <2> QED
    BY <2>1, <2>2, <2>3, <2>4, WindowTypes DEF LostWasSent
<1>6. CASE UNCHANGED vars
  <2>1. UNCHANGED <<base, flight, sent>>
    BY <1>6 DEF vars
  <2> QED
    BY <2>1, NoneSent DEF LostWasSent, Types
<1> QED
  BY <1>1, <1>2, <1>3, <1>4, <1>5, <1>6 DEF Next

-----------------------------------------------------------------------------
(* The window is bounded.                                                  *)

\* Every step keeps the window's bounds.
LEMMA NextWindow ==
    ASSUME RenoIsFaster PROVE Types /\ LostWasSent /\ Window /\ [Next]_vars => Window'
<1> SUFFICES ASSUME Types, LostWasSent, Window, [Next]_vars PROVE Window'
  OBVIOUS
<1>1. ASSUME NEW len \in PktLens, Send(len) PROVE Window'
  <2>1. /\ UNCHANGED <<cfg, slowstart, cubic>>
        /\ base'.cwnd = base.cwnd /\ base'.lost_bytes = base.lost_bytes
    BY <1>1, SendStep DEF Types, Base
  <2> QED
    BY <2>1, WindowSame
<1>2. ASSUME NEW p \in flight, OnAcked(p) PROVE Window'
  <2>1. cfg' = cfg /\ slowstart' = slowstart /\ base'.lost_bytes = base.lost_bytes
    BY <1>2, AckedStep
  <2>2. \/ /\ base'.cwnd = base.cwnd
           /\ cubic'.epoch => cubic.epoch /\ cubic'.reno = cubic.reno
        \/ /\ InSlowStart /\ base.cwnd < MaxCwnd
           /\ base'.cwnd = base.cwnd + Mss /\ cubic' = cubic
        \/ /\ ~InSlowStart /\ base.cwnd < MaxCwnd /\ RenoStart > 0
           /\ \E curve \in Nat : base'.cwnd = Smaller(CubicWindow(p.len, curve), MaxCwnd)
           /\ cubic'.epoch /\ cubic'.reno = CubicReno(p.len)
    BY <1>2, AckedStep
  <2>3. p.len \in 1 .. Mss
    BY WindowTypes
  <2>4. CASE /\ base'.cwnd = base.cwnd
             /\ cubic'.epoch => cubic.epoch /\ cubic'.reno = cubic.reno
    BY <2>1, <2>4, WindowSame
  <2>5. CASE /\ InSlowStart /\ base.cwnd < MaxCwnd
             /\ base'.cwnd = base.cwnd + Mss /\ cubic' = cubic
    BY <2>1, <2>5, WindowSlowStart
  <2>6. CASE /\ ~InSlowStart /\ base.cwnd < MaxCwnd /\ RenoStart > 0
             /\ \E curve \in Nat :
                    base'.cwnd = Smaller(CubicWindow(p.len, curve), MaxCwnd)
             /\ cubic'.epoch /\ cubic'.reno = CubicReno(p.len)
    BY <2>1, <2>3, <2>6, WindowCubic
  <2> QED
    BY <2>2, <2>4, <2>5, <2>6
<1>3. ASSUME NEW p \in flight, OnLost(p) PROVE Window'
  <2>1. cfg' = cfg /\ IF Answered(p) THEN LostAgain(p) ELSE Cut(InFlight - p.len)
    BY <1>3, LostStep
  <2>2. CASE Answered(p)
    BY <2>1, <2>2, WindowLostAgain
  <2>3. CASE ~Answered(p)
    BY <2>1, <2>3, WindowCut
  <2> QED
    BY <2>2, <2>3
<1>4. ASSUME NEW grows \in BOOLEAN, Update(grows) PROVE Window'
  BY <1>4, UpdateStep, WindowUpdate
<1>5. CASE RaiseLevel
  <2>1. UNCHANGED <<cfg, base, slowstart, cubic>>
    BY <1>5 DEF RaiseLevel
  <2> QED
    BY <2>1, WindowSame
<1>6. CASE UNCHANGED vars
  <2>1. UNCHANGED <<cfg, base, slowstart, cubic>>
    BY <1>6 DEF vars
  <2> QED
    BY <2>1, WindowSame
<1> QED
  BY <1>1, <1>2, <1>3, <1>4, <1>5, <1>6 DEF Next

(* For every size of packets and windows, with a smallest window of at most *)
(* 18/17 of a packet: through slow start, cubic, Reno and every loss the    *)
(* window keeps between its limits, or it is in the one state where nothing *)
(* holds what several losses of a flight subtract.                          *)
THEOREM WindowStaysBounded ==
    ASSUME RenoIsFaster PROVE Spec => []WindowIsBounded
<1>1. WindowInv /\ [Next]_vars => WindowInv'
  BY NextTypes, NextLostWasSent, NextWindow DEF WindowInv
<1>2. Spec => []WindowInv
  BY <1>1, InitWindow, PTL DEF Spec
<1> QED
  BY <1>2, PTL DEF WindowInv, Window
-----------------------------------------------------------------------------
(* Proportional rate reduction.                                            *)

\* The packets in flight that count as sent before the loss, and the others.
Old == {p \in flight : p.num <= base.at_loss}
New == flight \ Old

\* What is in flight is of the space in use, above which nothing was sent; its
\* numbers are the controller's, and so are those of the loss it answered there.
SpaceInUse ==
    /\ \A p \in flight : p.num < sent[level]
    /\ \A s \in Spaces : s > level => sent[s] = 0
    /\ sent[level] > 0 => base.largest_sent = sent[level] - 1
    /\ cut_level <= level
    /\ cut_level = level => base.at_loss < sent[level]

\* A window that was cut was cut in some space.
CutSomewhere == base.lost => cut_level # 0

\* The window was cut after an acknowledgement, or blindly.
CutAfterAck == base.lost /\ ~blind => base.acked

\* The controller counts in recovery.
Counts == cut_level = level /\ ~cfg.disable_prr /\ ~blind /\ InRecovery(base)

\* Of what was in flight at the loss, what is still there was not acknowledged;
\* what was sent since was counted; and slow start is over.
Reduction ==
    Counts => /\ prr.acked + Bytes(Old) <= prr.unacked
              /\ Bytes(New) <= prr.sent
              /\ slowstart.threshold <= base.cwnd

\* The inductive invariant.
ReductionInv == Types /\ SpaceInUse /\ CutSomewhere /\ CutAfterAck /\ Reduction

\* Bytes of the old and the new packets.
LEMMA OldAndNew ==
    ASSUME Types
    PROVE  /\ InFlight = Bytes(Old) + Bytes(New)
           /\ Bytes(Old) \in Nat /\ Bytes(New) \in Nat /\ InFlight \in Nat
<1>1. Old \in SUBSET flight
  BY DEF Old
<1>2. InFlight = Bytes(Old) + Bytes(New) /\ Bytes(Old) \in Nat /\ Bytes(New) \in Nat
  BY <1>1, FlightBytes, BytesOfParts DEF New, InFlight, Types
<1> QED
  BY <1>2

\* The numbers of rate reduction.
LEMMA ReductionTypes ==
    ASSUME Types
    PROVE  /\ prr.acked \in Nat /\ prr.unacked \in Nat /\ prr.sent \in Nat
           /\ prr.count \in Nat
           /\ base.at_loss \in Nat /\ base.largest_sent \in Nat
           /\ base.largest_acked \in Nat /\ base.acked \in BOOLEAN /\ base.lost \in BOOLEAN
           /\ level \in Nat \ {0} /\ level \in Spaces /\ sent[level] \in Nat
           /\ cut_level \in Nat
           /\ cfg.disable_prr \in BOOLEAN /\ blind \in BOOLEAN
<1>1. Spaces \subseteq Nat \ {0}
  BY BoundsAssumption DEF Spaces
<1>2. /\ prr.acked \in Nat /\ prr.unacked \in Nat /\ prr.sent \in Nat /\ prr.count \in Nat
  BY DEF Types
<1>3. /\ base.at_loss \in Nat /\ base.largest_sent \in Nat /\ base.largest_acked \in Nat
      /\ base.acked \in BOOLEAN /\ base.lost \in BOOLEAN
  BY DEF Types, Base
<1>4. /\ level \in Nat \ {0} /\ level \in Spaces /\ sent[level] \in Nat
      /\ cut_level \in Nat
      /\ cfg.disable_prr \in BOOLEAN /\ blind \in BOOLEAN
  BY <1>1 DEF Types
<1> QED
  BY <1>2, <1>3, <1>4

\* An old packet leaves the flight: there is less of the old, and the same of the new.
LEMMA OldLeaves ==
    ASSUME Types, NEW p \in Old, flight' = flight \ {p}, base'.at_loss = base.at_loss
    PROVE  /\ Bytes(Old) = Bytes(Old') + p.len /\ Bytes(Old') \in Nat
           /\ Bytes(New') = Bytes(New) /\ p.len \in Nat
<1>1. Old' = Old \ {p} /\ New' = New
  BY DEF Old, New
<1>2. Old \in SUBSET flight
  BY DEF Old
<1>3. /\ IsFiniteSet(Old) /\ \A q \in Old : q.len \in Nat
  BY <1>2, FlightBytes
<1>4. Bytes(Old) = Bytes(Old \ {p}) + p.len /\ Bytes(Old \ {p}) \in Nat
  BY <1>3, BytesWithout
<1> QED
  BY <1>1, <1>3, <1>4

\* Recovery only ends by an acknowledgement.
LEMMA RecoveryEnds ==
    ASSUME Types, CutAfterAck, NEW p \in flight, ~blind,
           base'.lost = base.lost, base'.at_loss = base.at_loss, base'.acked,
           IF base.acked THEN base'.largest_acked = Larger(base.largest_acked, p.num)
                         ELSE base'.largest_acked = p.num,
           InRecovery(base')
    PROVE  InRecovery(base) /\ p \in Old
<1>1. base.lost /\ base.acked
  BY DEF InRecovery, CutAfterAck
<1>2. base'.largest_acked = Larger(base.largest_acked, p.num)
      /\ base'.largest_acked <= base.at_loss
  BY <1>1 DEF InRecovery
<1>3. p.num \in Nat
  BY WindowTypes
<1>4. base.largest_acked <= base.at_loss /\ p.num <= base.at_loss
  BY <1>2, <1>3, ReductionTypes DEF Larger
<1> QED
  BY <1>1, <1>4 DEF InRecovery, Old

\* Nothing was sent, acknowledged or lost at the start.
LEMMA InitReduction == Init => ReductionInv
<1> SUFFICES ASSUME Init PROVE ReductionInv
  OBVIOUS
<1>1. Types
  BY InitWindow DEF WindowInv
<1>2. /\ flight = {} /\ base.lost = FALSE /\ base.acked = FALSE /\ base.at_loss = 0
      /\ sent = [s \in Spaces |-> 0] /\ level = 1 /\ cut_level = 0
  BY DEF Init
<1>3. 1 \in Spaces
  BY BoundsAssumption DEF Spaces
<1>4. SpaceInUse
  BY <1>2, <1>3 DEF SpaceInUse
<1>5. CutSomewhere /\ CutAfterAck /\ Reduction
  BY <1>2 DEF CutSomewhere, CutAfterAck, Reduction, Counts, InRecovery
<1> QED
  BY <1>1, <1>4, <1>5 DEF ReductionInv

\* A packet sent in recovery is new, and counted.
LEMMA ReductionSend ==
    ASSUME ReductionInv, NEW len \in PktLens, Send(len)
    PROVE  SpaceInUse' /\ CutSomewhere' /\ CutAfterAck' /\ Reduction'
<1> USE DEF ReductionInv
<1> DEFINE pkt == [space |-> level, num |-> sent[level], len |-> len]
<1>1. /\ flight' = flight \cup {pkt}
      /\ sent' = [sent EXCEPT ![level] = @ + 1]
      /\ UNCHANGED <<cfg, slowstart, level, blind, cut_level>>
      /\ base' = [base EXCEPT !.largest_sent = sent[level]]
      /\ prr' = IF InRecovery(base) THEN [prr EXCEPT !.sent = @ + len] ELSE prr
  BY SendStep
<1>2. /\ base'.largest_sent = sent[level]
      /\ base'.cwnd = base.cwnd /\ base'.lost = base.lost /\ base'.acked = base.acked
      /\ base'.at_loss = base.at_loss /\ base'.largest_acked = base.largest_acked
  BY <1>1 DEF Types, Base
<1>3. pkt.space = level /\ pkt.num = sent[level] /\ pkt.len = len
  OBVIOUS
<1> HIDE DEF pkt
<1>4. /\ sent[level] \in Nat /\ sent'[level] = sent[level] + 1
      /\ \A s \in Spaces : s # level => sent'[s] = sent[s]
      /\ level \in Nat
  BY <1>1, ReductionTypes DEF Types
<1>5. SpaceInUse'
  <2>1. \A p \in flight : p.num < sent[level] /\ p.num \in Nat
    BY WindowTypes DEF SpaceInUse
  <2>2. \A p \in flight' : p \in flight \/ p = pkt
    BY <1>1
  <2>3. \A p \in flight' : p.num < sent'[level]
    BY <1>3, <1>4, <2>1, <2>2
  <2>4. \A s \in Spaces : s > level => sent'[s] = 0
    BY <1>4 DEF SpaceInUse
  <2>5. cut_level = level => base.at_loss < sent'[level]
    BY <1>4, ReductionTypes DEF SpaceInUse
  <2>6. base'.largest_sent = sent'[level] - 1
    BY <1>2, <1>4
  <2>7. cut_level <= level
    BY DEF SpaceInUse
  <2> QED
    BY <1>1, <1>2, <2>3, <2>4, <2>5, <2>6, <2>7 DEF SpaceInUse
<1>6. CutSomewhere' /\ CutAfterAck'
  BY <1>1, <1>2 DEF CutSomewhere, CutAfterAck
<1>7. Reduction'
  <2> SUFFICES ASSUME Counts' PROVE /\ prr'.acked + Bytes(Old') <= prr'.unacked
                                    /\ Bytes(New') <= prr'.sent
                                    /\ slowstart'.threshold <= base'.cwnd
    BY DEF Reduction
  <2>1. InRecovery(base) /\ Counts /\ cut_level = level
    BY <1>1, <1>2 DEF Counts, InRecovery
  <2>2. /\ prr.acked + Bytes(Old) <= prr.unacked /\ Bytes(New) <= prr.sent
        /\ slowstart.threshold <= base.cwnd
    BY <2>1 DEF Reduction
  <2>3. len \in Nat
    BY ConstantTypes
  <2>4. prr'.acked = prr.acked /\ prr'.unacked = prr.unacked /\ prr'.sent = prr.sent + len
    BY <1>1, <2>1, <2>3 DEF Types
  <2>5. base.at_loss < pkt.num
    BY <1>3, <2>1 DEF SpaceInUse
  <2>6. pkt \notin flight /\ ~(pkt.num <= base.at_loss)
    <3>1. pkt.num \in Nat
      BY <1>3, <1>4
    <3> QED
      BY <1>3, <2>5, <3>1, ReductionTypes DEF SpaceInUse
  <2>7. Old' = Old /\ New' = New \cup {pkt} /\ pkt \notin New
    BY <1>1, <1>2, <2>6 DEF Old, New
  <2>8. Bytes(New') = Bytes(New) + len
    <3>1. New \in SUBSET flight
      BY DEF New
    <3>2. IsFiniteSet(New) /\ \A q \in New : q.len \in Nat
      BY <3>1, FlightBytes
    <3>3. /\ IsFiniteSet(New \cup {pkt}) /\ \A q \in New \cup {pkt} : q.len \in Nat
      BY <1>3, <2>3, <3>2, FS_AddElement
    <3>4. (New \cup {pkt}) \ {pkt} = New /\ pkt \in New \cup {pkt}
      BY <2>7
    <3>5. Bytes(New \cup {pkt}) = Bytes((New \cup {pkt}) \ {pkt}) + pkt.len
      BY <3>3, <3>4, BytesWithout
    <3> QED
      BY <1>3, <2>7, <3>4, <3>5
  <2> QED
    BY <1>1, <1>2, <2>2, <2>3, <2>4, <2>7, <2>8, OldAndNew, ReductionTypes
<1> QED
  BY <1>5, <1>6, <1>7

\* An acknowledged packet that is counted was an old one.
LEMMA ReductionOnAcked ==
    ASSUME ReductionInv, NEW p \in flight, OnAcked(p)
    PROVE  SpaceInUse' /\ CutSomewhere' /\ CutAfterAck' /\ Reduction'
<1> USE DEF ReductionInv
<1>1. /\ flight' = flight \ {p}
      /\ UNCHANGED <<cfg, slowstart, level, sent, blind, cut_level>>
      /\ base'.lost = base.lost /\ base'.at_loss = base.at_loss
      /\ base'.largest_sent = base.largest_sent /\ base'.acked
  BY AckedStep
<1>2. IF base.acked THEN base'.largest_acked = Larger(base.largest_acked, p.num)
                    ELSE base'.largest_acked = p.num
  BY AckedStep
<1>3. SpaceInUse'
  BY <1>1 DEF SpaceInUse
<1>4. CutSomewhere' /\ CutAfterAck'
  BY <1>1 DEF CutSomewhere, CutAfterAck
<1>5. Reduction'
  <2> SUFFICES ASSUME Counts' PROVE /\ prr'.acked + Bytes(Old') <= prr'.unacked
                                    /\ Bytes(New') <= prr'.sent
                                    /\ slowstart'.threshold <= base'.cwnd
    BY DEF Reduction
  <2>1. InRecovery(base') /\ ~blind /\ ~cfg.disable_prr /\ cut_level = level
    BY <1>1 DEF Counts
  <2>2. InRecovery(base) /\ p \in Old
    BY <1>1, <1>2, <2>1, RecoveryEnds
  <2>3. /\ prr.acked + Bytes(Old) <= prr.unacked /\ Bytes(New) <= prr.sent
        /\ slowstart.threshold <= base.cwnd
    BY <2>1, <2>2 DEF Reduction, Counts
  <2>4. base'.cwnd = base.cwnd /\ prr' = [prr EXCEPT !.acked = @ + p.len, !.count = @ + 1]
    BY <2>1, AckedStep
  <2>5. prr'.acked = prr.acked + p.len /\ prr'.unacked = prr.unacked /\ prr'.sent = prr.sent
    BY <2>4 DEF Types
  <2>6. /\ Bytes(Old) = Bytes(Old') + p.len /\ Bytes(Old') \in Nat
        /\ Bytes(New') = Bytes(New) /\ p.len \in Nat
    BY <1>1, <2>2, OldLeaves
  <2> QED
    BY <1>1, <2>3, <2>4, <2>5, <2>6, ReductionTypes
<1> QED
  BY <1>3, <1>4, <1>5

\* A loss that was answered is of an old packet; one that cuts the window makes
\* all packets old.
LEMMA ReductionOnLost ==
    ASSUME ReductionInv, NEW p \in flight, OnLost(p)
    PROVE  SpaceInUse' /\ CutSomewhere' /\ CutAfterAck' /\ Reduction'
<1> USE DEF ReductionInv
<1>1. /\ flight' = flight \ {p} /\ UNCHANGED <<cfg, level, sent>>
      /\ IF Answered(p) THEN LostAgain(p) ELSE Cut(InFlight - p.len)
      /\ InFlight - p.len = Bytes(flight \ {p}) /\ InFlight - p.len \in Nat
  BY LostStep
<1>2. CASE Answered(p)
  <2>1. /\ UNCHANGED <<prr, blind, cut_level>>
        /\ base'.acked = base.acked /\ base'.largest_acked = base.largest_acked
        /\ base'.lost = base.lost /\ base'.at_loss = base.at_loss
        /\ base'.largest_sent = base.largest_sent
        /\ \/ base'.cwnd = base.cwnd /\ slowstart'.threshold = slowstart.threshold
           \/ slowstart'.threshold = base'.cwnd
        /\ base' \in Base
    BY <1>1, <1>2, LostAgainStep
  <2>2. SpaceInUse' /\ CutSomewhere' /\ CutAfterAck'
    BY <1>1, <2>1 DEF SpaceInUse, CutSomewhere, CutAfterAck
  <2>3. Reduction'
    <3> SUFFICES ASSUME Counts' PROVE /\ prr'.acked + Bytes(Old') <= prr'.unacked
                                      /\ Bytes(New') <= prr'.sent
                                      /\ slowstart'.threshold <= base'.cwnd
      BY DEF Reduction
    <3>1. Counts
      BY <1>1, <2>1 DEF Counts, InRecovery
    <3>2. /\ prr.acked + Bytes(Old) <= prr.unacked /\ Bytes(New) <= prr.sent
          /\ slowstart.threshold <= base.cwnd
      BY <3>1 DEF Reduction
    <3>3. p \in Old
      BY <1>2 DEF Answered, Old
    <3>4. /\ Bytes(Old) = Bytes(Old') + p.len /\ Bytes(Old') \in Nat
          /\ Bytes(New') = Bytes(New) /\ p.len \in Nat
      BY <1>1, <2>1, <3>3, OldLeaves
    <3>5. base'.cwnd \in Nat
      BY <2>1 DEF Base
    <3> QED
      BY <2>1, <3>2, <3>4, <3>5, ReductionTypes
  <2> QED
    BY <2>2, <2>3
<1>3. CASE ~Answered(p)
  <2>1. /\ blind' = ~base.acked /\ cut_level' = level
        /\ base'.acked = base.acked
        /\ base'.at_loss = base.largest_sent /\ base'.largest_sent = base.largest_sent
        /\ slowstart'.threshold <= base'.cwnd
        /\ ~cfg.disable_prr =>
             prr' = [acked |-> 0, count |-> 0, unacked |-> InFlight - p.len, sent |-> 0]
    BY <1>1, <1>3, CutStep
  <2>2. CutSomewhere' /\ CutAfterAck'
    BY <2>1, ReductionTypes DEF CutSomewhere, CutAfterAck
  <2>3. /\ \A q \in flight : q.num < sent[level] /\ q.num \in Nat
        /\ base.largest_sent = sent[level] - 1 /\ sent[level] \in Nat \ {0}
    <3>1. \A q \in flight : q.num < sent[level] /\ q.num \in Nat
      BY WindowTypes DEF SpaceInUse
    <3>2. sent[level] \in Nat /\ sent[level] > 0
      BY <3>1, ReductionTypes
    <3> QED
      BY <3>1, <3>2 DEF SpaceInUse
  <2>4. SpaceInUse'
    BY <1>1, <2>1, <2>3, ReductionTypes DEF SpaceInUse
  <2>5. Reduction'
    <3> SUFFICES ASSUME Counts' PROVE /\ prr'.acked + Bytes(Old') <= prr'.unacked
                                      /\ Bytes(New') <= prr'.sent
                                      /\ slowstart'.threshold <= base'.cwnd
      BY DEF Reduction
    <3>1. ~cfg.disable_prr
      BY <1>1 DEF Counts
    <3>2. prr'.acked = 0 /\ prr'.unacked = Bytes(flight \ {p}) /\ prr'.sent = 0
      BY <1>1, <2>1, <3>1
    <3>3. \A q \in flight' : q.num <= base'.at_loss
      BY <1>1, <2>1, <2>3, <3>1
    <3>4. Old' = flight \ {p} /\ New' = {}
      BY <1>1, <3>3 DEF Old, New
    <3>5. Bytes(Old') = Bytes(flight \ {p}) /\ Bytes(New') = 0
      BY <3>4, BytesOfNone
    <3>6. Bytes(flight \ {p}) \in Nat
      BY <1>1
    <3> QED
      BY <2>1, <3>2, <3>5, <3>6
  <2> QED
    BY <2>2, <2>4, <2>5
<1> QED
  BY <1>2, <1>3

\* Every step keeps the invariant.
LEMMA NextReduction == ReductionInv /\ [Next]_vars => ReductionInv'
<1> SUFFICES ASSUME ReductionInv, [Next]_vars PROVE ReductionInv'
  OBVIOUS
<1>0. Types'
  BY NextTypes DEF ReductionInv
<1> DEFINE Kept == SpaceInUse' /\ CutSomewhere' /\ CutAfterAck' /\ Reduction'
<1>1. ASSUME NEW len \in PktLens, Send(len) PROVE Kept
  BY <1>1, ReductionSend
<1>2. ASSUME NEW p \in flight, OnAcked(p) PROVE Kept
  BY <1>2, ReductionOnAcked
<1>3. ASSUME NEW p \in flight, OnLost(p) PROVE Kept
  BY <1>3, ReductionOnLost
<1>4. ASSUME NEW grows \in BOOLEAN, Update(grows) PROVE Kept
  <2>1. /\ InSlowStart
        /\ UNCHANGED <<cfg, base, prr, flight, level, sent, blind, cut_level>>
        /\ slowstart'.threshold \in {slowstart.threshold, base.cwnd}
    BY <1>4, UpdateStep DEF ReductionInv
  <2>2. SpaceInUse' /\ CutSomewhere' /\ CutAfterAck'
    BY <2>1 DEF ReductionInv, SpaceInUse, CutSomewhere, CutAfterAck
  <2>3. Old' = Old /\ New' = New /\ (Counts' <=> Counts)
    BY <2>1 DEF Old, New, Counts
  <2>4. Reduction'
    BY <2>1, <2>3, WindowTypes DEF ReductionInv, Reduction
  <2> QED
    BY <2>2, <2>4
<1>5. ASSUME RaiseLevel PROVE Kept
  <2>1. /\ level' = level + 1 /\ flight' = {}
        /\ UNCHANGED <<base, sent, blind, cut_level>>
    BY <1>5 DEF RaiseLevel
  <2>2. cut_level <= level /\ cut_level \in Nat /\ level \in Nat
    BY ReductionTypes DEF ReductionInv, SpaceInUse
  <2>3. cut_level' # level' /\ ~Counts'
    BY <2>1, <2>2 DEF Counts
  <2>4. \A s \in Spaces : s >= level' => sent'[s] = 0
    <3>1. Spaces \subseteq Nat
      BY BoundsAssumption DEF Spaces
    <3> QED
      BY <2>1, <2>2, <3>1 DEF ReductionInv, SpaceInUse
  <2>5. level' \in Spaces /\ level' \in Nat
    BY <1>0, <2>1, <2>2 DEF Types
  <2>6. sent'[level'] = 0
    BY <2>4, <2>5
  <2>7. \A s \in Spaces : s > level' => sent'[s] = 0
    <3>1. Spaces \subseteq Nat
      BY BoundsAssumption DEF Spaces
    <3> QED
      BY <2>4, <2>5, <3>1
  <2>8. SpaceInUse'
    BY <2>1, <2>2, <2>3, <2>6, <2>7 DEF SpaceInUse
  <2>9. CutSomewhere' /\ CutAfterAck'
    BY <2>1 DEF ReductionInv, CutSomewhere, CutAfterAck
  <2> QED
    BY <2>3, <2>8, <2>9 DEF Reduction
<1>6. ASSUME UNCHANGED vars PROVE Kept
  <2>1. UNCHANGED <<cfg, base, slowstart, prr, flight, level, sent, blind, cut_level>>
    BY <1>6 DEF vars
  <2>2. SpaceInUse' /\ CutSomewhere' /\ CutAfterAck'
    BY <2>1 DEF ReductionInv, SpaceInUse, CutSomewhere, CutAfterAck
  <2>3. Old' = Old /\ New' = New /\ (Counts' <=> Counts)
    BY <2>1 DEF Old, New, Counts
  <2> QED
    BY <2>1, <2>2, <2>3 DEF ReductionInv, Reduction
<1> HIDE DEF Kept
<1>7. Kept
  BY <1>1, <1>2, <1>3, <1>4, <1>5, <1>6 DEF Next
<1> QED
  BY <1>0, <1>7 DEF ReductionInv, Kept

\* What was acknowledged pays for what was sent: with a of u acknowledged, and s
\* sent since, a * t is not above s * u unless s <= a.
LEMMA Proportion ==
    ASSUME NEW a \in Nat, NEW u \in Nat, NEW s \in Nat, NEW t \in Nat,
           a <= u, t <= u - a + s, a * t > s * u
    PROVE  s <= a
<1> SUFFICES ASSUME a < s PROVE FALSE
  OBVIOUS
<1> DEFINE d == s - a
           e == u - a
<1>1. d \in Nat /\ e \in Nat /\ s = a + d /\ u = a + e
  OBVIOUS
<1> HIDE DEF d, e
<1>2. t <= e + a + d
  BY <1>1
<1>3. a * t <= a * (e + a + d)
  BY <1>1, <1>2, TimesGrows
<1>4. a * (e + a + d) = a * e + a * a + a * d
  BY <1>1
<1>5. s * u = a * a + a * e + d * a + d * e
  BY <1>1
<1>6. /\ a * e \in Nat /\ a * a \in Nat /\ a * d \in Nat /\ d * e \in Nat /\ d * a = a * d
      /\ a * t \in Nat
  BY <1>1
<1> QED
  BY <1>3, <1>4, <1>5, <1>6

\* A packet is only filled with little enough in flight.
LEMMA SendHasRoom ==
    ASSUME ReductionInv, NEW len \in PktLens, Send(len), cut_level \in {0, level}, ~blind
    PROVE  InFlight < Larger(base.cwnd, prr.unacked) + Mss
<1> USE DEF ReductionInv
<1>1. /\ InFlight \in Nat /\ base.cwnd \in Nat /\ prr.unacked \in Nat /\ prr.sent \in Nat
      /\ prr.acked \in Nat /\ slowstart.threshold \in Nat
      /\ Bytes(Old) \in Nat /\ Bytes(New) \in Nat
      /\ InFlight = Bytes(Old) + Bytes(New)
  BY OldAndNew, ReductionTypes, WindowTypes
<1>2. Mss \in Nat /\ 0 < Mss
  BY ConstantTypes
<1>3. AllowSend(InFlight)
  BY DEF Send
<1>4. CASE cfg.disable_prr \/ ~InRecovery(base)
  <2>1. InFlight < base.cwnd
    BY <1>3, <1>4 DEF AllowSend
  <2> QED
    BY <1>1, <1>2, <2>1 DEF Larger
<1>5. CASE ~cfg.disable_prr /\ InRecovery(base)
  <2>0. cut_level = level
    BY <1>5 DEF CutSomewhere, InRecovery
  <2>1. /\ prr.acked + Bytes(Old) <= prr.unacked /\ Bytes(New) <= prr.sent
        /\ slowstart.threshold <= base.cwnd
    BY <1>5, <2>0 DEF Reduction, Counts
  <2>2. PrrAllows(InFlight)
    BY <1>3, <1>5 DEF AllowSend
  <2>3. CASE prr.sent = 0
    BY <1>1, <1>2, <2>1, <2>3 DEF Larger
  <2>4. CASE InFlight < Mss
    BY <1>1, <1>2, <2>4 DEF Larger
  <2>5. CASE base.cwnd > InFlight
    BY <1>1, <1>2, <2>5 DEF Larger
  <2>6. CASE base.cwnd <= InFlight
             /\ prr.acked * slowstart.threshold > prr.sent * prr.unacked
    <3>1. /\ prr.acked <= prr.unacked
          /\ slowstart.threshold <= prr.unacked - prr.acked + prr.sent
      BY <1>1, <2>1, <2>6
    <3>2. prr.sent <= prr.acked
      BY <1>1, <2>6, <3>1, Proportion
    <3>3. InFlight <= prr.unacked
      BY <1>1, <2>1, <3>2
    <3> QED
      BY <1>1, <1>2, <3>3 DEF Larger
  <2> QED
    BY <2>2, <2>3, <2>4, <2>5, <2>6 DEF PrrAllows
<1> QED
  BY <1>4, <1>5

(* For every size of packets and windows, and every number of spaces: no packet  *)
(* is filled while more is in flight than the window, or than was left in flight *)
(* at the last loss, and one more packet, if that loss was answered in the space *)
(* in use and after an acknowledgement.  What rate reduction lets out in         *)
(* recovery replaces what was acknowledged there, whatever is lost besides.      *)
THEOREM NeverOversendsHolds == Spec => NeverOversends
<1>1. ReductionInv /\ [Next]_vars =>
        [ sent' # sent /\ cut_level \in {0, level} /\ ~blind =>
            InFlight < Larger(base.cwnd, prr.unacked) + Mss ]_vars
  <2> DEFINE Room == InFlight < Larger(base.cwnd, prr.unacked) + Mss
  <2>1. ASSUME ReductionInv, [Next]_vars, sent' # sent, cut_level \in {0, level}, ~blind
        PROVE  Room
    <3>1. PICK len \in PktLens : Send(len)
      <4>1. \A p \in flight : OnAcked(p) \/ OnLost(p) => sent' = sent
        BY DEF OnAcked, OnLost
      <4>2. \A grows \in BOOLEAN : Update(grows) => sent' = sent
        BY DEF Update
      <4>3. RaiseLevel \/ UNCHANGED vars => sent' = sent
        BY DEF RaiseLevel, vars
      <4> QED
        BY <2>1, <4>1, <4>2, <4>3, Zenon DEF Next
    <3> QED
      BY <2>1, <3>1, SendHasRoom
  <2> HIDE DEF Room
  <2>2. ReductionInv /\ [Next]_vars =>
            [sent' # sent /\ cut_level \in {0, level} /\ ~blind => Room]_vars
    BY <2>1
  <2> QED
    BY <2>2 DEF Room
<1>2. Spec => []ReductionInv
  BY InitReduction, NextReduction, PTL DEF Spec
<1> QED
  BY <1>1, <1>2, PTL DEF Spec, NeverOversends
-----------------------------------------------------------------------------
(* StreamSet.                                                              *)

\* What the invariant needs of the state's type.
OpenStream ==
    [in_use : {TRUE}, remain : BOOLEAN, send_closed : BOOLEAN, sent_fin : BOOLEAN,
     recv_closed : BOOLEAN, fin_flag : BOOLEAN]

\* The types the invariant needs.
StreamsOK ==
    /\ streams \in [Set!Sids -> OpenStream \cup {Set!Freed}]
    /\ closer \in [Set!Sids -> 0 .. 5]

\* The inductive invariant.
SetInv == StreamsOK /\ Set!NothingOfCloseIsLeft

-----------------------------------------------------------------------------
(* The five steps of quic_stream_close, the last of which files the stream *)
(* for destruction.                                                        *)
LEMMA StepsOfClose ==
    /\ Len(Set!CloseSteps) = 5
    /\ \A i \in 1 .. 5 : Set!CloseSteps[i] = "push" => i = 5
BY DEF Set!CloseSteps

(* A stream is in use until it is freed.                                   *)
LEMMA InUseOfType ==
    /\ Set!NewStream \in OpenStream /\ Set!NewStream.in_use
    /\ ~Set!Freed.in_use
    /\ \A str \in OpenStream : str.in_use
BY DEF Set!NewStream, OpenStream, Set!Freed

(* Looking ids up makes streams, and takes none away; a close that is under *)
(* way is not touched, because its stream exists.                           *)
LEMMA LookUpKeeps ==
    ASSUME SetInv, NEW ids, Set!Accept(ids)
    PROVE  /\ Set!LookUp(ids) \in [Set!Sids -> OpenStream \cup {Set!Freed}]
           /\ closer' \in [Set!Sids -> 0 .. 5]
           /\ \A s \in Set!Sids :
                    Set!InUse(s) => Set!LookUp(ids)[s].in_use /\ closer'[s] = closer[s]
           /\ \A s \in Set!Sids :
                    ~Set!LookUp(ids)[s].in_use => ~Set!InUse(s) /\ closer'[s] = closer[s]
           /\ \A s \in Set!Sids : closer'[s] = closer[s] \/ closer'[s] = 0
<1> USE StepsOfClose, InUseOfType DEF SetInv, StreamsOK, Set!Opened, Set!InUse
<1>1. Set!LookUp(ids) \in [Set!Sids -> OpenStream \cup {Set!Freed}]
    BY DEF Set!LookUp
<1>2. closer' \in [Set!Sids -> 0 .. 5]
    BY DEF Set!Accept
<1>3. \A s \in Set!Sids :
            Set!InUse(s) => Set!LookUp(ids)[s].in_use /\ closer'[s] = closer[s]
    BY DEF Set!Accept, Set!LookUp
<1>4. \A s \in Set!Sids :
            ~Set!LookUp(ids)[s].in_use => ~Set!InUse(s) /\ closer'[s] = closer[s]
    BY DEF Set!Accept, Set!LookUp
<1>5. \A s \in Set!Sids : closer'[s] = closer[s] \/ closer'[s] = 0
    BY DEF Set!Accept
<1> QED
    BY <1>1, <1>2, <1>3, <1>4, <1>5

(* Nothing of a stream changes that the close depends on, unless it is in use *)
(* and stays so.                                                              *)
LEMMA SetKeeps ==
    ASSUME SetInv, StreamsOK',
           \A s \in Set!Sids : Set!InUse(s) => Set!InUse(s)' /\ closer'[s] = closer[s],
           \A s \in Set!Sids : ~Set!InUse(s)' => ~Set!InUse(s) /\ closer'[s] = closer[s],
           destory_set' = destory_set
    PROVE  SetInv'
BY StepsOfClose DEF SetInv, Set!NothingOfCloseIsLeft, Set!Closing

(* So it is when ids are looked up and the streams found stay in use.         *)
LEMMA LookedUp ==
    ASSUME SetInv, NEW ids, Set!Accept(ids), destory_set' = destory_set,
           streams' \in [Set!Sids -> OpenStream \cup {Set!Freed}],
           \A t \in Set!Sids : streams'[t].in_use = Set!LookUp(ids)[t].in_use
    PROVE  SetInv'
<1>1. StreamsOK'
    BY LookUpKeeps DEF StreamsOK
<1>2. \A t \in Set!Sids : Set!InUse(t)' = Set!LookUp(ids)[t].in_use
    BY DEF Set!InUse
<1>3. \A t \in Set!Sids : Set!InUse(t) => Set!InUse(t)' /\ closer'[t] = closer[t]
    BY <1>2, LookUpKeeps
<1>4. \A t \in Set!Sids : ~Set!InUse(t)' => ~Set!InUse(t) /\ closer'[t] = closer[t]
    BY <1>2, LookUpKeeps
<1> QED
    BY <1>1, <1>3, <1>4, SetKeeps

\* The initial state has it.
LEMMA InitSet == Set!Init => SetInv
BY StepsOfClose, InUseOfType
    DEF Set!Init, SetInv, StreamsOK, Set!NothingOfCloseIsLeft, Set!Closing, Set!InUse

\* Every step keeps it.
LEMMA NextSet == SetInv /\ [Set!Next]_(Set!vars) => SetInv'
<1> SUFFICES ASSUME SetInv, [Set!Next]_(Set!vars) PROVE SetInv'
    OBVIOUS
<1> USE StepsOfClose, InUseOfType
<1>1. ASSUME NEW s \in Set!Sids, Set!Open(s) PROVE SetInv'
    <2>1. StreamsOK'
        BY <1>1 DEF SetInv, StreamsOK, Set!Open
    <2>2. /\ streams' = [streams EXCEPT ![s] = Set!NewStream]
          /\ closer' = closer /\ destory_set' = destory_set
        BY <1>1 DEF Set!Open
    <2> QED
        BY <2>1, <2>2, SetKeeps DEF SetInv, StreamsOK, Set!InUse
<1>2. ASSUME NEW s \in Set!Sids, Set!Write(s) \/ Set!GiveUp(s) \/ Set!Read(s) PROVE SetInv'
    <2>1. Set!InUse(s) => streams[s] \in OpenStream
        BY DEF SetInv, StreamsOK, Set!InUse
    <2>2. StreamsOK'
        <3> DEFINE str == streams[s]
        <3>1. Set!InUse(s) /\ closer' = closer
            BY <1>2 DEF Set!Write, Set!GiveUp, Set!Read
        <3>2. str \in OpenStream /\ streams \in [Set!Sids -> OpenStream \cup {Set!Freed}]
            BY <2>1, <3>1 DEF SetInv, StreamsOK
        <3>3. \/ streams' = [streams EXCEPT ![s] = [str EXCEPT !.remain = TRUE]]
              \/ streams' = [streams EXCEPT ![s] = [str EXCEPT !.remain = FALSE]]
              \/ streams' = streams
            BY <1>2 DEF Set!Write, Set!GiveUp, Set!Read
        <3>4. /\ [str EXCEPT !.remain = TRUE] \in OpenStream
              /\ [str EXCEPT !.remain = FALSE] \in OpenStream
            BY <3>2 DEF OpenStream
        <3>5. streams' \in [Set!Sids -> OpenStream \cup {Set!Freed}]
            BY <3>2, <3>3, <3>4
        <3> QED
            BY <3>1, <3>5 DEF SetInv, StreamsOK
    <2>3. \A t \in Set!Sids : Set!InUse(t)' = Set!InUse(t)
        BY <1>2, <2>1
           DEF SetInv, StreamsOK, Set!Write, Set!GiveUp, Set!Read, OpenStream, Set!InUse
    <2> QED
        BY <1>2, <2>2, <2>3, SetKeeps DEF Set!Write, Set!GiveUp, Set!Read
<1>3. ASSUME NEW s \in Set!Sids, Set!CloseStep(s) PROVE SetInv'
    <2>1. Set!InUse(s)
        BY <1>3 DEF Set!CloseStep, SetInv, Set!NothingOfCloseIsLeft
    <2>2. streams[s] \in OpenStream
        BY <2>1 DEF SetInv, StreamsOK, Set!InUse
    <2>3. closer' = [closer EXCEPT ![s] = closer[s] + 1] /\ closer[s] \in 0 .. 4
        BY <1>3 DEF Set!CloseStep, SetInv, StreamsOK
    <2>4. streams' \in [Set!Sids -> OpenStream \cup {Set!Freed}]
        BY <1>3, <2>1, <2>2, ZenonT(60) DEF Set!CloseStep, SetInv, StreamsOK, OpenStream
    <2>5. \A t \in Set!Sids : Set!InUse(t)' = Set!InUse(t)
        BY <1>3, <2>1, <2>2 DEF Set!CloseStep, SetInv, StreamsOK, OpenStream, Set!InUse
    <2>6. destory_set' = destory_set \/ (destory_set' = destory_set \cup {s} /\ closer[s] = 4)
        <3>1. Set!CloseSteps[closer[s] + 1] = "push" => closer[s] = 4
            BY <2>3
        <3>2. destory_set' = IF Set!CloseSteps[closer[s] + 1] = "push"
                             THEN destory_set \cup {s} ELSE destory_set
            BY <1>3 DEF Set!CloseStep
        <3> QED
            BY <3>1, <3>2
    <2>7. s \notin destory_set
        BY <2>3 DEF SetInv, Set!NothingOfCloseIsLeft
    <2>8. StreamsOK'
        <3>1. closer \in [Set!Sids -> 0 .. 5] /\ closer[s] + 1 \in 0 .. 5
            BY <2>3 DEF StreamsOK, SetInv
        <3>2. [closer EXCEPT ![s] = closer[s] + 1] \in [Set!Sids -> 0 .. 5]
            BY <3>1
        <3> QED
            BY <2>3, <2>4, <3>2 DEF StreamsOK
    <2>9. ASSUME NEW t \in Set!Sids PROVE
            /\ ~Set!InUse(t)' => ~Set!Closing(t)' /\ t \notin destory_set'
            /\ t \in destory_set' => closer'[t] = 5
        <3>1. CASE t = s
            BY <2>1, <2>3, <2>5, <2>6, <2>7, <3>1 DEF SetInv, StreamsOK
        <3>2. CASE t # s
            BY <2>3, <2>5, <2>6, <3>2
               DEF SetInv, StreamsOK, Set!NothingOfCloseIsLeft, Set!Closing
        <3> QED
            BY <3>1, <3>2
    <2> QED
        BY <2>8, <2>9 DEF SetInv, Set!NothingOfCloseIsLeft
<1>4. ASSUME NEW s \in Set!Sids, NEW fin \in BOOLEAN, Set!HandleStream(s, fin) PROVE SetInv'
    <2> DEFINE str == Set!LookUp({s})
    <2>1. Set!Accept({s}) /\ destory_set' = destory_set
        BY <1>4 DEF Set!HandleStream
    <2>2. str[s].in_use => str[s] \in OpenStream
        BY <2>1, LookUpKeeps
    <2>3. /\ streams' \in [Set!Sids -> OpenStream \cup {Set!Freed}]
          /\ \A t \in Set!Sids : streams'[t].in_use = str[t].in_use
        BY <1>4, <2>1, <2>2, LookUpKeeps DEF Set!HandleStream, OpenStream
    <2> QED
        BY <2>1, <2>3, LookedUp
<1>5. ASSUME NEW s \in Set!Sids, Set!HandleMaxStreamData(s) PROVE SetInv'
    <2>1. Set!Accept({s}) /\ streams' = Set!LookUp({s}) /\ destory_set' = destory_set
        BY <1>5 DEF Set!HandleMaxStreamData
    <2> QED
        BY <2>1, LookUpKeeps, LookedUp
<1>6. ASSUME NEW s \in Set!Sids, NEW all \in BOOLEAN, Set!AppendStreamFrame(s, all)
      PROVE  SetInv'
    <2> DEFINE str == Set!LookUp({s})
    <2>1. Set!Accept({s}) /\ destory_set' = destory_set
        BY <1>6 DEF Set!AppendStreamFrame
    <2>2. str[s].in_use => str[s] \in OpenStream
        BY <2>1, LookUpKeeps
    <2>3. str[s].in_use => Set!Generated(str[s], all) \in OpenStream
        BY <2>2 DEF Set!Generated, OpenStream
    <2>4. streams' = IF str[s].in_use THEN [str EXCEPT ![s] = Set!Generated(str[s], all)]
                     ELSE streams
        BY <1>6 DEF Set!AppendStreamFrame
    <2>5. CASE str[s].in_use
        <3> DEFINE taken == Set!Generated(str[s], all)
        <3>1. taken \in OpenStream /\ taken.in_use = TRUE /\ str[s].in_use = TRUE
            BY <2>2, <2>3, <2>5 DEF OpenStream
        <3>2. str \in [Set!Sids -> OpenStream \cup {Set!Freed}]
            BY <2>1, LookUpKeeps
        <3>3. streams' = [str EXCEPT ![s] = taken]
            BY <2>4, <2>5
        <3> HIDE DEF str, taken
        <3>4. /\ streams' \in [Set!Sids -> OpenStream \cup {Set!Freed}]
              /\ \A t \in Set!Sids : streams'[t].in_use = str[t].in_use
            BY <3>1, <3>2, <3>3
        <3> USE DEF str
        <3> QED
            BY <2>1, <3>4, LookedUp
    <2>6. CASE ~str[s].in_use
        <3>1. streams' = streams
            BY <2>4, <2>6
        <3>2. \A t \in Set!Sids : str[t].in_use = streams[t].in_use
            BY <2>1, <2>6, LookUpKeeps DEF Set!LookUp, Set!InUse, Set!Opened
        <3> QED
            <4>1. streams \in [Set!Sids -> OpenStream \cup {Set!Freed}]
                BY DEF SetInv, StreamsOK
            <4>2. \A t \in Set!Sids : streams'[t].in_use = str[t].in_use
                BY <3>1, <3>2
            <4> QED
                BY <2>1, <3>1, <4>1, <4>2, LookedUp
    <2> QED
        BY <2>5, <2>6
<1>7. CASE Set!ProcessRwnd
    <2>1. /\ Set!Accept(rwnd_updated) /\ streams' = Set!LookUp(rwnd_updated)
          /\ destory_set' = destory_set
        BY <1>7 DEF Set!ProcessRwnd
    <2> QED
        BY <2>1, LookUpKeeps, LookedUp
<1>8. CASE Set!Loop
    BY <1>8 DEF Set!Loop, SetInv, StreamsOK, Set!NothingOfCloseIsLeft, Set!Closing, Set!InUse
<1>9. CASE UNCHANGED Set!vars
    BY <1>9 DEF Set!vars, SetInv, StreamsOK, Set!NothingOfCloseIsLeft, Set!Closing, Set!InUse
<1> QED
    BY <1>1, <1>2, <1>3, <1>4, <1>5, <1>6, <1>7, <1>8, <1>9 DEF Set!Next

(* For every set of streams, and however often an id comes back: a stream is *)
(* freed only when no thread is inside quic_stream_close with it, and leaves *)
(* no entry in the destroy set.                                              *)
THEOREM NothingOfCloseIsLeftHolds == Set!Spec => []Set!NothingOfCloseIsLeft
<1>1. Set!Spec => []SetInv
    BY InitSet, NextSet, PTL DEF Set!Spec
<1> QED
    BY <1>1, PTL DEF SetInv
=============================================================================
