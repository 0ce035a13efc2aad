-------------------------- MODULE RecvStreamProofs ---------------------------
(***************************************************************************)
(* Proofs about RecvStream, for every way a peer may cut a stream, every   *)
(* length of a read and every window.  The inductive invariant is IInv.    *)
(***************************************************************************)
EXTENDS RecvStream, DataLemmas

\* What the window adds to the types.
WindowIsOpen ==
    /\ rwnd_size <= MaxRwndSize
    /\ rwnd_size # 0
    /\ rwnd <= read_off + rwnd_size
    /\ recv_off <= granted
    /\ granted <= initial_swnd \/ granted <= rwnd
    /\ \A max_data \in announced : max_data <= rwnd

\* What the reader is given is there.
ReadIsThere ==
    /\ IsFiniteSet(arrived)
    /\ readed_size <= AvailSize(arrived)

\* The two modules and the closing thread agree on the end of the stream, so
\* that recv_off stands still once the rest of the stream was credited.
Agreement ==
    /\ CreditIsExact
    /\ fc_fin_flag = fin_flag
    /\ completed => fin_flag
    /\ closed <=> closer # "idle"

\* FIN is known as soon as a byte of the frame that carries it is, and its place
\* is the same in every frame.
FinIsKnown ==
    /\ \A f \in peer_frames :
            (f.fin /\ f.len # 0 /\ f.off + f.len - 1 \in arrived) => fin_flag
    /\ \A f \in peer_frames : (f.fin /\ fin_flag) => final_off = f.off + f.len

\* The inductive invariant.
IInv ==
    /\ TypeOK
    /\ WindowIsOpen
    /\ ReadIsThere
    /\ Agreement
    /\ FinIsKnown
    /\ NoReaderSleepsOnData

-----------------------------------------------------------------------------
(***************************************************************************)
(* What the sorter gives out of the bytes that arrived.                    *)
(***************************************************************************)

\* The bytes before AvailSize(S) are there, the one at AvailSize(S) is not.
LEMMA AvailIsPrefix ==
    ASSUME NEW S \in SUBSET Nat, IsFiniteSet(S)
    PROVE  /\ AvailSize(S) \in Nat
           /\ AvailSize(S) \notin S
           /\ \A i \in Nat : i < AvailSize(S) => i \in S
<1> DEFINE Missing == {o \in 0 .. Cardinality(S) : o \notin S}
<1>1. Cardinality(S) \in Nat
  BY FS_CardinalityType
<1>2. Missing # {}
  <2> SUFFICES ASSUME 0 .. Cardinality(S) \subseteq S PROVE FALSE
    OBVIOUS
  <2>1. Cardinality(0 .. Cardinality(S)) = Cardinality(S) + 1
    BY <1>1, FS_Interval
  <2>2. Cardinality(0 .. Cardinality(S)) <= Cardinality(S)
    BY FS_Subset
  <2> QED
    BY <1>1, <2>1, <2>2
<1>3. Missing \in SUBSET Nat
  BY <1>1
<1>4. Min(Missing) \in Missing /\ \A o \in Missing : Min(Missing) <= o
  BY <1>2, <1>3, MinOfNats
<1>5. AvailSize(S) \in Missing /\ \A o \in Missing : AvailSize(S) <= o
  BY <1>4 DEF AvailSize
<1> QED
  BY <1>1, <1>5

\* More bytes never make less available.
LEMMA AvailIsMonotone ==
    ASSUME NEW T \in SUBSET Nat, IsFiniteSet(T), NEW S \in SUBSET T, IsFiniteSet(S)
    PROVE  AvailSize(S) <= AvailSize(T)
<1>1. /\ AvailSize(S) \in Nat
      /\ \A i \in Nat : i < AvailSize(S) => i \in S
  BY AvailIsPrefix
<1>2. AvailSize(T) \in Nat /\ AvailSize(T) \notin T
  BY AvailIsPrefix
<1> QED
  BY <1>1, <1>2

\* The sorter never counts below zero.
LEMMA ReadableType ==
    ASSUME TypeOK, ReadIsThere
    PROVE  AvailSize(arrived) \in Nat /\ Readable \in Nat
<1>1. AvailSize(arrived) \in Nat
  BY AvailIsPrefix DEF TypeOK, ReadIsThere
<1> QED
  BY <1>1 DEF TypeOK, ReadIsThere, Readable

\* Offsets and lengths of the frames, which do not overlap and agree on the end.
LEMMA Frames ==
    ASSUME TypeOK
    PROVE  /\ \A f \in peer_frames : f.off \in Nat /\ f.len \in Nat /\ f.fin \in BOOLEAN
           /\ \A f, g \in peer_frames :
                f # g => f.off + f.len <= g.off \/ g.off + g.len <= f.off
           /\ \A f, g \in peer_frames : f.fin /\ g.fin => f.off + f.len = g.off + g.len
  BY PeerAssumption DEF TypeOK

-----------------------------------------------------------------------------
(***************************************************************************)
(* The inductive invariant.                                                *)
(***************************************************************************)

\* The initial state has it.
LEMMA InitIInv == Init => IInv
<1> SUFFICES ASSUME Init PROVE IInv
  OBVIOUS
<1>1. TypeOK
  BY WindowAssumption DEF Init, TypeOK
<1>2. WindowIsOpen
  BY WindowAssumption DEF Init, WindowIsOpen
<1>3. ReadIsThere
  <2>1. IsFiniteSet(arrived)
    BY FS_EmptySet DEF Init
  <2>2. AvailSize(arrived) \in Nat
    BY <1>1, <2>1, AvailIsPrefix DEF TypeOK
  <2> QED
    BY <2>1, <2>2 DEF Init, ReadIsThere
<1>4. Agreement
  BY DEF Init, Agreement, CreditIsExact
<1>5. FinIsKnown
  BY DEF Init, FinIsKnown
<1>6. NoReaderSleepsOnData
  BY DEF Init, NoReaderSleepsOnData
<1> QED
  BY <1>1, <1>2, <1>3, <1>4, <1>5, <1>6 DEF IInv

\* What a read takes is there, and it moves the window only upwards.
LEMMA Taken ==
    ASSUME IInv, TakeAndReturn
    PROVE  \E n \in Nat :
             /\ n <= Readable
             /\ closed => n = 0
             /\ readed_size' = readed_size + n
             /\ read_off' = read_off + n
             /\ conn_read_off' = conn_read_off + n
             /\ rwnd_size' \in Nat /\ rwnd_size <= rwnd_size' /\ rwnd_size' <= MaxRwndSize
             /\ rwnd' \in Nat /\ rwnd <= rwnd' /\ rwnd' <= read_off' + rwnd_size'
             /\ epoch_off' \in Nat
             /\ rwnd_updated' \in BOOLEAN
<1> DEFINE n == IF closed THEN 0 ELSE Min({Readable, want})
<1>t. /\ want \in Nat /\ rwnd \in Nat /\ rwnd_size \in Nat /\ read_off \in Nat
      /\ readed_size \in Nat /\ conn_read_off \in Nat /\ epoch_off \in Nat
      /\ rwnd_updated \in BOOLEAN
  BY DEF IInv, TypeOK
<1>w. rwnd_size <= MaxRwndSize /\ rwnd <= read_off + rwnd_size /\ MaxRwndSize \in Nat
  BY WindowAssumption DEF IInv, WindowIsOpen
<1>1. Readable \in Nat
  BY ReadableType DEF IInv
<1>2. n \in Nat /\ n <= Readable /\ (closed => n = 0)
  <2>1. {Readable, want} \in SUBSET Nat /\ {Readable, want} # {}
    BY <1>1, <1>t
  <2>2. /\ Min({Readable, want}) \in {Readable, want}
        /\ \A y \in {Readable, want} : Min({Readable, want}) <= y
    BY <2>1, MinOfNats
  <2> QED
    BY <1>1, <1>t, <2>2
<1>3. /\ readed_size' = readed_size + n
      /\ IF n = 0 THEN UNCHANGED <<window, conn_read_off>> ELSE FlowctrlRead(n)
  BY DEF TakeAndReturn
<1> HIDE DEF n
<1>4. CASE n = 0
  BY <1>t, <1>w, <1>1, <1>2, <1>3, <1>4 DEF window
<1>5. CASE n # 0
  <2>1. /\ read_off' = read_off + n
        /\ conn_read_off' = conn_read_off + n
        /\ IF Reopens(read_off')
           THEN /\ AdjustRwnd(read_off')
                /\ rwnd' = read_off' + rwnd_size'
                /\ rwnd_updated' = TRUE
           ELSE UNCHANGED <<rwnd, rwnd_size, epoch_off, rwnd_updated>>
    BY <1>3, <1>5 DEF FlowctrlRead
  <2>2. CASE ~ Reopens(read_off')
    BY <1>t, <1>w, <1>1, <1>2, <1>3, <2>1, <2>2
  <2>3. CASE Reopens(read_off')
    <3>1. Grown \in Nat /\ rwnd_size <= Grown /\ Grown <= MaxRwndSize
      <4>1. {2 * rwnd_size, MaxRwndSize} \in SUBSET Nat /\ {2 * rwnd_size, MaxRwndSize} # {}
        BY <1>t, <1>w
      <4>2. /\ Grown \in {2 * rwnd_size, MaxRwndSize}
            /\ \A y \in {2 * rwnd_size, MaxRwndSize} : Grown <= y
        BY <4>1, MinOfNats DEF Grown
      <4> QED
        BY <1>t, <1>w, <4>2
    <3>2. /\ rwnd_size' \in Nat /\ rwnd_size <= rwnd_size' /\ rwnd_size' <= MaxRwndSize
          /\ epoch_off' \in Nat
      <4>1. read_off' \in Nat
        BY <1>t, <1>2, <2>1
      <4>2. \/ rwnd_size' = rwnd_size /\ epoch_off' = epoch_off
            \/ rwnd_size' \in {rwnd_size, Grown} /\ epoch_off' = read_off'
        BY <2>1, <2>3 DEF AdjustRwnd
      <4> QED
        BY <1>t, <1>w, <3>1, <4>1, <4>2
    <3>3. rwnd' = read_off' + rwnd_size'
      BY <2>1, <2>3
    <3>4. rwnd_updated' \in BOOLEAN
      BY <2>1, <2>3
    <3>5. rwnd' \in Nat /\ rwnd <= rwnd' /\ rwnd' <= read_off' + rwnd_size'
      <4>1. read_off' \in Nat /\ read_off <= read_off'
        BY <1>t, <1>2, <2>1
      <4>2. \A r, o, l, o2, l2 \in Nat :
                r <= o + l /\ o <= o2 /\ l <= l2 =>
                    o2 + l2 \in Nat /\ r <= o2 + l2 /\ o2 + l2 <= o2 + l2
        OBVIOUS
      <4>3. /\ read_off' + rwnd_size' \in Nat
            /\ rwnd <= read_off' + rwnd_size'
            /\ read_off' + rwnd_size' <= read_off' + rwnd_size'
        BY <1>t, <1>w, <3>2, <4>1, <4>2, ZenonT(60)
      <4> QED
        BY <3>3, <4>3, Zenon
    <3> QED
      BY <1>2, <1>3, <2>1, <3>2, <3>4, <3>5
  <2> QED
    BY <2>2, <2>3
<1> QED
  BY <1>4, <1>5

\* A read that takes bytes and returns.
LEMMA IInvTake ==
    ASSUME IInv, TakeAndReturn
    PROVE  IInv'
<1>0. PICK n \in Nat :
             /\ n <= Readable
             /\ closed => n = 0
             /\ readed_size' = readed_size + n
             /\ read_off' = read_off + n
             /\ conn_read_off' = conn_read_off + n
             /\ rwnd_size' \in Nat /\ rwnd_size <= rwnd_size' /\ rwnd_size' <= MaxRwndSize
             /\ rwnd' \in Nat /\ rwnd <= rwnd' /\ rwnd' <= read_off' + rwnd_size'
             /\ epoch_off' \in Nat
             /\ rwnd_updated' \in BOOLEAN
  BY Taken
<1>1. /\ reader' = "idle"
      /\ UNCHANGED <<peer_frames, initial_swnd, granted, announced, want, closer,
                     completed, closed, arrived, fin_flag, final_off, recv_off, fc_fin_flag, conn_recv_off>>
  BY DEF TakeAndReturn, peer, close, final, received
<1>t. TypeOK
  BY DEF IInv
<1>2. TypeOK'
  BY <1>0, <1>1, <1>t DEF TypeOK
<1>3. WindowIsOpen'
  <2>1. /\ rwnd \in Nat /\ rwnd_size \in Nat /\ rwnd_size # 0
        /\ MaxRwndSize \in Nat
        /\ \A max_data \in announced : max_data \in Nat /\ max_data <= rwnd
        /\ granted \in Nat /\ initial_swnd \in Nat
        /\ granted <= initial_swnd \/ granted <= rwnd
        /\ recv_off <= granted
    BY <1>t, WindowAssumption DEF IInv, WindowIsOpen, TypeOK
  <2>2. /\ granted' <= initial_swnd' \/ granted' <= rwnd'
        /\ \A max_data \in announced' : max_data <= rwnd'
    BY <1>0, <1>1, <2>1
  <2>3. rwnd_size' # 0 /\ recv_off' <= granted'
    BY <1>0, <1>1, <2>1
  <2> QED
    BY <1>0, <2>2, <2>3 DEF WindowIsOpen
<1>4. ReadIsThere'
  <2>1. AvailSize(arrived) \in Nat /\ Readable = AvailSize(arrived) - readed_size
    BY ReadableType DEF IInv, Readable
  <2>2. AvailSize(arrived)' = AvailSize(arrived)
    BY <1>1 DEF AvailSize
  <2> QED
    BY <1>0, <1>1, <1>t, <2>1, <2>2 DEF IInv, ReadIsThere, TypeOK
<1>5. Agreement'
  BY <1>0, <1>1, <1>t DEF IInv, Agreement, CreditIsExact, TypeOK
<1>6. FinIsKnown'
  BY <1>1 DEF IInv, FinIsKnown
<1>7. NoReaderSleepsOnData'
  BY <1>1 DEF NoReaderSleepsOnData
<1> QED
  BY <1>2, <1>3, <1>4, <1>5, <1>6, <1>7 DEF IInv

\* A STREAM frame: FIN and the data of the frame become known together, and the
\* bytes counted stand still once FIN was seen.
LEMMA IInvHandleFrame ==
    ASSUME IInv, NEW f \in peer_frames, HandleFrame(f)
    PROVE  IInv'
<1>t. TypeOK
  BY DEF IInv
<1>f. /\ \A g \in peer_frames : g.off \in Nat /\ g.len \in Nat /\ g.fin \in BOOLEAN
      /\ \A g, h \in peer_frames :
            g # h => g.off + g.len <= h.off \/ h.off + h.len <= g.off
      /\ \A g, h \in peer_frames : g.fin /\ h.fin => g.off + g.len = h.off + h.len
  BY <1>t, Frames
<1>u. /\ UNCHANGED <<peer_frames, initial_swnd, granted, announced, want, closer, completed, closed,
                     readed_size, rwnd, rwnd_size, read_off, epoch_off, rwnd_updated,
                     conn_read_off>>
      /\ f.off + f.len <= granted
      /\ fin_flag' = (fin_flag \/ f.fin)
      /\ final_off' = IF f.fin THEN f.off + f.len ELSE final_off
      /\ arrived' = IF closed THEN arrived ELSE arrived \cup (f.off .. f.off + f.len - 1)
      /\ reader' = IF ~closed /\ Notifies(f) THEN Woken ELSE reader
  BY DEF HandleFrame, peer, close, window
<1>r. /\ recv_off' \in Nat /\ fc_fin_flag' \in BOOLEAN /\ conn_recv_off' \in Nat
      /\ recv_off' <= granted
      /\ conn_recv_off' = recv_off'
      /\ fc_fin_flag' = fin_flag'
      /\ fin_flag => recv_off' = recv_off
  <2>1. /\ recv_off \in Nat /\ fc_fin_flag \in BOOLEAN /\ conn_recv_off \in Nat
        /\ fin_flag \in BOOLEAN /\ f.off + f.len \in Nat /\ f.fin \in BOOLEAN
        /\ granted \in Nat
    BY <1>t, <1>f DEF TypeOK
  <2>2. recv_off <= granted /\ conn_recv_off = recv_off /\ fc_fin_flag = fin_flag
    BY DEF IInv, WindowIsOpen, Agreement, CreditIsExact
  <2>3. UpdateRwnd(f.off + f.len, f.fin)
    BY DEF HandleFrame
  <2> DEFINE off == f.off + f.len
  <2>4. CASE fc_fin_flag /\ ((f.fin /\ off # recv_off) \/ off > recv_off)
    BY <1>u, <2>1, <2>2, <2>3, <2>4 DEF UpdateRwnd, received
  <2>5. CASE ~ (fc_fin_flag /\ ((f.fin /\ off # recv_off) \/ off > recv_off))
    <3>1. /\ fc_fin_flag' = (fc_fin_flag \/ f.fin)
          /\ recv_off' = IF off > recv_off THEN off ELSE recv_off
          /\ conn_recv_off' = conn_recv_off + (recv_off' - recv_off)
      BY <2>3, <2>5 DEF UpdateRwnd
    <3>2. off \in Nat /\ off <= granted
      BY <1>u, <2>1
    <3> HIDE DEF off
    <3>3. recv_off' \in Nat /\ recv_off' <= granted /\ conn_recv_off' = recv_off'
      BY <2>1, <2>2, <3>1, <3>2
    <3>4. fin_flag => recv_off' = recv_off
      BY <2>1, <2>2, <2>5, <3>1, <3>2
    <3>5. fc_fin_flag' = fin_flag' /\ fc_fin_flag' \in BOOLEAN
      BY <1>u, <2>1, <2>2, <3>1
    <3> QED
      BY <3>3, <3>4, <3>5
  <2> QED
    BY <2>4, <2>5
<1>a. /\ arrived \in SUBSET Nat /\ IsFiniteSet(arrived)
      /\ arrived' \in SUBSET Nat /\ IsFiniteSet(arrived')
      /\ arrived \subseteq arrived'
  <2>1. arrived \in SUBSET Nat /\ IsFiniteSet(arrived)
    BY <1>t DEF TypeOK, IInv, ReadIsThere
  <2>2. (f.off .. f.off + f.len - 1) \subseteq Nat /\ IsFiniteSet(f.off .. f.off + f.len - 1)
    <3>1. f.off \in Nat /\ f.len \in Nat
      BY <1>f
    <3>2. f.off + f.len - 1 \in Int /\ \A i \in f.off .. f.off + f.len - 1 : i \in Nat
      BY <3>1
    <3>3. IsFiniteSet(f.off .. f.off + f.len - 1)
      BY <3>1, <3>2, FS_Interval, SMTT(60)
    <3> QED
      BY <3>2, <3>3
  <2>3. IsFiniteSet(arrived \cup (f.off .. f.off + f.len - 1))
    BY <2>1, <2>2, FS_Union
  <2> QED
    BY <1>u, <2>1, <2>2, <2>3
<1>b. /\ AvailSize(arrived) \in Nat
      /\ \A i \in Nat : i < AvailSize(arrived) => i \in arrived
      /\ AvailSize(arrived') \in Nat
      /\ AvailSize(arrived) <= AvailSize(arrived')
      /\ AvailSize(arrived)' = AvailSize(arrived')
  BY <1>a, AvailIsPrefix, AvailIsMonotone DEF AvailSize
<1>1. TypeOK'
  <2>1. reader' \in {"idle", "joined", "waiting", "woken"}
    BY <1>t, <1>u DEF TypeOK, Woken
  <2>2. fin_flag' \in BOOLEAN /\ final_off' \in Nat \cup {-1}
    BY <1>t, <1>f, <1>u DEF TypeOK
  <2> QED
    BY <1>t, <1>u, <1>r, <1>a, <2>1, <2>2 DEF TypeOK
<1>2. WindowIsOpen'
  BY <1>u, <1>r DEF IInv, WindowIsOpen
<1>3. ReadIsThere'
  <2>1. readed_size' <= AvailSize(arrived')
    BY <1>t, <1>u, <1>b DEF TypeOK, IInv, ReadIsThere
  <2> QED
    BY <1>a, <1>b, <2>1 DEF ReadIsThere
<1>4. Agreement'
  BY <1>u, <1>r DEF IInv, Agreement, CreditIsExact
<1>5. FinIsKnown'
  <2>1. ASSUME NEW g \in peer_frames, g.fin, g.len # 0, g.off + g.len - 1 \in arrived'
        PROVE  fin_flag'
    <3>1. CASE g.off + g.len - 1 \in arrived
      BY <1>u, <2>1, <3>1 DEF IInv, FinIsKnown
    <3>2. CASE g.off + g.len - 1 \in f.off .. f.off + f.len - 1
      <4>1. ~ (f.off + f.len <= g.off \/ g.off + g.len <= f.off)
        BY <1>f, <2>1, <3>2
      <4> QED
        BY <1>f, <1>u, <2>1, <4>1
    <3> QED
      BY <1>u, <2>1, <3>1, <3>2
  <2>2. ASSUME NEW g \in peer_frames, g.fin, fin_flag'
        PROVE  final_off' = g.off + g.len
    <3>1. CASE f.fin
      BY <1>f, <1>u, <2>2, <3>1
    <3>2. CASE ~ f.fin
      BY <1>u, <2>2, <3>2 DEF IInv, FinIsKnown
    <3> QED
      BY <3>1, <3>2
  <2> QED
    BY <1>u, <2>1, <2>2 DEF FinIsKnown
<1>6. NoReaderSleepsOnData'
  <2> SUFFICES ASSUME reader' = "waiting", closer' # "marked"
               PROVE  ~closed' /\ Readable' = 0 /\ ~AtEnd'
    BY DEF NoReaderSleepsOnData
  <2>1. reader = "waiting" /\ ~ (~closed /\ Notifies(f))
    BY <1>u DEF Woken
  <2>2. ~closed /\ Readable = 0 /\ ~AtEnd
    BY <1>u, <2>1 DEF IInv, NoReaderSleepsOnData
  <2>3. readed_size = AvailSize(arrived) /\ readed_size \in Nat
    BY <1>t, <1>b, <2>2 DEF Readable, TypeOK
  <2>4. AvailSize(arrived') = AvailSize(arrived)
    <3>1. CASE f.len = 0
      <4>1. f.off \in Nat /\ f.off .. f.off + f.len - 1 = {}
        BY <1>f, <3>1
      <4> QED
        BY <1>u, <4>1
    <3>2. CASE f.len # 0
      BY <2>1, <2>2, <3>2 DEF Notifies
    <3> QED
      BY <3>1, <3>2
  <2>5. Readable' = 0
    BY <1>u, <1>b, <2>3, <2>4 DEF Readable
  <2>6. ASSUME AtEnd' PROVE FALSE
    <3>1. fin_flag' /\ final_off' <= readed_size
      BY <1>u, <2>6 DEF AtEnd
    <3>2. CASE ~ f.fin
      BY <1>u, <2>2, <3>1, <3>2 DEF AtEnd
    <3>3. CASE f.fin /\ fin_flag
      <4>1. final_off = f.off + f.len
        BY <3>3 DEF IInv, FinIsKnown
      <4> QED
        BY <1>u, <2>2, <3>1, <3>3, <4>1 DEF AtEnd
    <3>4. CASE f.fin /\ ~ fin_flag
      <4>1. f.len # 0
        BY <2>1, <2>2, <3>4 DEF Notifies
      <4>2. f.off + f.len <= readed_size
        BY <1>u, <3>1, <3>4
      <4>3. f.off + f.len - 1 \in Nat /\ f.off + f.len - 1 < AvailSize(arrived)
        BY <1>f, <2>3, <4>1, <4>2
      <4>4. f.off + f.len - 1 \in arrived
        BY <1>b, <4>3
      <4> QED
        BY <3>4, <4>1, <4>4 DEF IInv, FinIsKnown
    <3> QED
      BY <1>f, <3>2, <3>3, <3>4
  <2> QED
    BY <1>u, <2>2, <2>5, <2>6
<1> QED
  BY <1>1, <1>2, <1>3, <1>4, <1>5, <1>6 DEF IInv

\* The remaining steps leave what arrived and the end of the stream alone.
LEMMA IInvOthers ==
    ASSUME IInv,
           \/ \E n \in ReadLens : Read(n)
           \/ Sleep
           \/ CloseMark \/ CloseChan \/ CloseAbandon
           \/ ProcessRwnd
           \/ \E max_data \in announced : PeerLearns(max_data)
           \/ UNCHANGED vars
    PROVE  IInv'
<1>t. TypeOK
  BY DEF IInv
<1> USE DEF peer, close, sorter, final, window, received
<1>1. UNCHANGED <<peer_frames, initial_swnd, arrived, readed_size, fin_flag, final_off, rwnd, rwnd_size,
                  recv_off, read_off, epoch_off, fc_fin_flag, conn_recv_off>>
  BY DEF Read, Sleep, CloseMark, CloseChan, CloseAbandon, ProcessRwnd, PeerLearns, vars
<1>a. ReadIsThere' /\ FinIsKnown' /\ Readable' = Readable /\ AtEnd' = AtEnd
  BY <1>1 DEF IInv, ReadIsThere, FinIsKnown, Readable, AtEnd, AvailSize
<1>b. /\ \A max_data \in announced : max_data \in Nat /\ max_data <= rwnd
      /\ rwnd \in Nat /\ granted \in Nat
      /\ initial_swnd \in Nat
      /\ granted <= initial_swnd \/ granted <= rwnd
      /\ recv_off <= granted
      /\ recv_off \in Nat /\ read_off \in Nat /\ conn_read_off \in Nat
      /\ rwnd_updated \in BOOLEAN
  BY <1>t, WindowAssumption DEF TypeOK, IInv, WindowIsOpen
<1>2. CASE \E n \in ReadLens : Read(n)
  <2> PICK n \in ReadLens : Read(n)
    BY <1>2
  <2>1. /\ reader' = "joined" /\ want' = n /\ n \in Nat
        /\ UNCHANGED <<granted, announced, closer, completed, closed, rwnd_updated,
                       conn_read_off>>
    BY ReadLensAssumption DEF Read
  <2>2. TypeOK'
    BY <1>t, <1>1, <2>1 DEF TypeOK
  <2>3. WindowIsOpen' /\ Agreement' /\ NoReaderSleepsOnData'
    BY <1>1, <2>1 DEF IInv, WindowIsOpen, Agreement, CreditIsExact, NoReaderSleepsOnData
  <2> QED
    BY <1>a, <2>2, <2>3 DEF IInv
<1>3. CASE Sleep
  <2>1. /\ reader' = "waiting" /\ ~closed /\ ~AtEnd /\ Readable = 0
        /\ UNCHANGED <<granted, announced, want, closer, completed, closed, rwnd_updated,
                       conn_read_off>>
    BY <1>3 DEF Sleep
  <2>2. TypeOK'
    BY <1>t, <1>1, <2>1 DEF TypeOK
  <2>3. WindowIsOpen' /\ Agreement'
    BY <1>1, <2>1 DEF IInv, WindowIsOpen, Agreement, CreditIsExact
  <2>4. NoReaderSleepsOnData'
    BY <1>a, <2>1 DEF NoReaderSleepsOnData
  <2> QED
    BY <1>a, <2>2, <2>3, <2>4 DEF IInv
<1>4. CASE CloseMark
  <2>1. /\ ~closed /\ closed' = TRUE /\ completed' = fin_flag /\ closer' = "marked"
        /\ UNCHANGED <<granted, announced, reader, want, rwnd_updated, conn_read_off>>
    BY <1>4 DEF CloseMark
  <2>2. TypeOK'
    BY <1>t, <1>1, <2>1 DEF TypeOK
  <2>3. WindowIsOpen' /\ Agreement' /\ NoReaderSleepsOnData'
    BY <1>1, <2>1 DEF IInv, WindowIsOpen, Agreement, CreditIsExact, NoReaderSleepsOnData
  <2> QED
    BY <1>a, <2>2, <2>3 DEF IInv
<1>5. CASE CloseChan
  <2>1. /\ closer = "marked" /\ closer' = "woke" /\ reader' = Woken
        /\ UNCHANGED <<granted, announced, want, completed, closed, rwnd_updated,
                       conn_read_off>>
    BY <1>5 DEF CloseChan
  <2>2. TypeOK'
    BY <1>t, <1>1, <2>1 DEF TypeOK, Woken
  <2>3. WindowIsOpen' /\ Agreement' /\ NoReaderSleepsOnData'
    BY <1>1, <2>1
       DEF IInv, WindowIsOpen, Agreement, CreditIsExact, NoReaderSleepsOnData, Woken
  <2> QED
    BY <1>a, <2>2, <2>3 DEF IInv
<1>6. CASE CloseAbandon
  <2>1. /\ closer = "woke" /\ closer' = "done"
        /\ conn_read_off' = conn_read_off + (IF completed THEN Unread ELSE 0)
        /\ UNCHANGED <<granted, announced, reader, want, completed, closed, rwnd_updated>>
    BY <1>6 DEF CloseAbandon
  <2>2. closed /\ conn_read_off = read_off
    BY <2>1 DEF IInv, Agreement, CreditIsExact
  <2>3. conn_read_off' = IF completed THEN recv_off ELSE read_off
    BY <1>b, <2>1, <2>2 DEF Unread
  <2>4. TypeOK'
    BY <1>t, <1>b, <1>1, <2>1, <2>3 DEF TypeOK
  <2>5. WindowIsOpen' /\ Agreement'
    BY <1>1, <2>1, <2>3 DEF IInv, WindowIsOpen, Agreement, CreditIsExact
  <2>6. NoReaderSleepsOnData'
    BY <2>1, <2>2 DEF IInv, NoReaderSleepsOnData
  <2> QED
    BY <1>a, <2>4, <2>5, <2>6 DEF IInv
<1>7. CASE ProcessRwnd
  <2>1. /\ rwnd_updated' = FALSE /\ announced' = announced \cup {rwnd}
        /\ UNCHANGED <<granted, reader, want, closer, completed, closed, conn_read_off>>
    BY <1>7 DEF ProcessRwnd
  <2>2. TypeOK'
    BY <1>t, <1>1, <1>b, <2>1 DEF TypeOK
  <2>3. \A max_data \in announced' : max_data <= rwnd'
    BY <1>1, <1>b, <2>1
  <2>4. WindowIsOpen'
    BY <1>1, <2>1, <2>3 DEF IInv, WindowIsOpen
  <2>5. Agreement' /\ NoReaderSleepsOnData'
    BY <1>1, <1>a, <2>1 DEF IInv, Agreement, CreditIsExact, NoReaderSleepsOnData
  <2> QED
    BY <1>a, <2>2, <2>4, <2>5 DEF IInv
<1>8. CASE \E max_data \in announced : PeerLearns(max_data)
  <2> PICK max_data \in announced : PeerLearns(max_data)
    BY <1>8
  <2>1. /\ granted' = IF max_data > granted THEN max_data ELSE granted
        /\ UNCHANGED <<announced, reader, want, closer, completed, closed, rwnd_updated,
                       conn_read_off>>
    BY DEF PeerLearns
  <2>2. /\ granted' \in Nat /\ granted <= granted'
        /\ granted' <= initial_swnd \/ granted' <= rwnd
    BY <1>b, <2>1
  <2>3. TypeOK'
    BY <1>t, <1>1, <2>1, <2>2 DEF TypeOK
  <2>4. /\ granted' <= initial_swnd' \/ granted' <= rwnd'
        /\ \A m \in announced' : m <= rwnd'
    BY <1>1, <1>b, <2>1, <2>2
  <2>5. recv_off' <= granted'
    BY <1>1, <1>b, <2>2
  <2>6. WindowIsOpen'
    BY <1>1, <2>1, <2>4, <2>5 DEF IInv, WindowIsOpen
  <2>7. Agreement' /\ NoReaderSleepsOnData'
    BY <1>1, <1>a, <2>1 DEF IInv, Agreement, CreditIsExact, NoReaderSleepsOnData
  <2> QED
    BY <1>a, <2>3, <2>6, <2>7 DEF IInv
<1>9. CASE UNCHANGED vars
  <2>1. UNCHANGED <<granted, announced, reader, want, closer, completed, closed,
                    rwnd_updated, conn_read_off>>
    BY <1>9 DEF vars
  <2>2. TypeOK'
    BY <1>t, <1>1, <2>1 DEF TypeOK
  <2>3. WindowIsOpen' /\ Agreement' /\ NoReaderSleepsOnData'
    BY <1>1, <1>a, <2>1
       DEF IInv, WindowIsOpen, Agreement, CreditIsExact, NoReaderSleepsOnData
  <2> QED
    BY <1>a, <2>2, <2>3 DEF IInv
<1> QED
  BY <1>2, <1>3, <1>4, <1>5, <1>6, <1>7, <1>8, <1>9

\* Every step keeps it.
LEMMA NextIInv == IInv /\ [Next]_vars => IInv'
<1> SUFFICES ASSUME IInv, [Next]_vars PROVE IInv'
  OBVIOUS
<1>1. ASSUME Start PROVE IInv'
  BY <1>1, IInvTake DEF Start
<1>2. ASSUME Resume PROVE IInv'
  BY <1>2, IInvTake DEF Resume
<1>3. ASSUME NEW f \in peer_frames, HandleFrame(f) PROVE IInv'
  BY <1>3, IInvHandleFrame
<1> QED
  BY <1>1, <1>2, <1>3, IInvOthers DEF Next

\* So it always holds.
LEMMA Invariance == Spec => []IInv
  BY InitIInv, NextIInv, PTL DEF Spec

-----------------------------------------------------------------------------
(***************************************************************************)
(* The theorems.                                                           *)
(***************************************************************************)

\* Whatever order the grants reach it in, and whatever limit it starts from, a peer
\* that keeps to them is beyond that limit never more than the largest window ahead
\* of what was read: the bytes the sorter may have to keep are bounded.
THEOREM WindowIsKept == Spec => []GrantsAreKept
<1>1. IInv => GrantsAreKept
  <2> SUFFICES ASSUME IInv PROVE GrantsAreKept
    OBVIOUS
  <2>1. /\ TypeOK
        /\ recv_off <= granted /\ (granted <= initial_swnd \/ granted <= rwnd)
        /\ rwnd <= read_off + rwnd_size /\ rwnd_size <= MaxRwndSize
        /\ \A max_data \in announced : max_data <= rwnd
    BY DEF IInv, WindowIsOpen
  <2>2. /\ recv_off \in Nat /\ granted \in Nat /\ initial_swnd \in Nat /\ rwnd \in Nat
        /\ read_off \in Nat /\ rwnd_size \in Nat /\ MaxRwndSize \in Nat
    BY <2>1, WindowAssumption DEF TypeOK
  <2>3. /\ rwnd <= read_off + MaxRwndSize
        /\ recv_off <= initial_swnd \/ recv_off <= read_off + MaxRwndSize
    BY <2>1, <2>2
  <2> QED
    BY <2>1, <2>3 DEF GrantsAreKept
<1> QED
  BY <1>1, Invariance, PTL

\* No order of frames, FIN, repetitions and close makes a reader miss its
\* wake-up.
THEOREM NoWakeUpIsMissed == Spec => []NoReaderSleepsOnData
<1>1. IInv => NoReaderSleepsOnData
  BY DEF IInv
<1> QED
  BY <1>1, Invariance, PTL

\* The connection is credited each byte once, whether it is read or given up.
THEOREM CreditIsKept == Spec => []CreditIsExact
<1>1. IInv => CreditIsExact
  BY DEF IInv, Agreement
<1> QED
  BY <1>1, Invariance, PTL
=============================================================================
