-------------------------- MODULE SendStreamProofs ---------------------------
(***************************************************************************)
(* Proofs about SendStream, for any number of streams, writes of any       *)
(* length, any windows and packets of any room.  The inductive invariant   *)
(* is IInv; its parts are proved to be kept one after the other, each for  *)
(* the actions that can disturb it.                                        *)
(***************************************************************************)
EXTENDS SendStream, DataLemmas

\* No stream is twice in the queue q.
NoRepetition(q) == \A i, j \in DOMAIN q : i # j => q[i] # q[j]

\* The queue of the framer holds the set of active streams, each once.
Queued ==
    /\ active_set = ToSet(active_queue)
    /\ NoRepetition(active_queue)

\* A write that has not started, or is over, has nothing left to send.
Readers ==
    \A s \in Streams :
        /\ reader_len[s] <= len[s]
        /\ writer[s] \in {"idle", "joined"} => reader_len[s] = 0

\* The two modules count alike, and a limit is reported when it is reached.
Flow ==
    \A s \in Streams :
        /\ off[s] = sent_bytes[s]
        /\ off[s] <= swnd[s]
        /\ last_blocked_at[s] <= swnd[s]
        /\ \A i \in DOMAIN blocked[s] : blocked[s][i] <= last_blocked_at[s]
        /\ \A i, j \in DOMAIN blocked[s] : i < j => blocked[s][i] < blocked[s][j]

\* While a packet is packed no coroutine is between two of its pieces.
Packing ==
    max_bytes # NoPacket => \A s \in Streams : writer[s] \notin {"adding", "parking"}

\* The first n bytes of the write w.
Prefix(w, n) == [i \in 1 .. n |-> <<w, i>>]

\* What the writes were told, and will be told, that was sent.
Told(s) == [w \in 1 .. writes[s] |-> Prefix(w, Progress(s, w))]

\* Every frame starts where the data of the frames before it ends.
OffsetsAreLengths(s) ==
    \A i \in DOMAIN frames[s] :
        frames[s][i].off = Len(FlattenSeq([j \in 1 .. i - 1 |-> frames[s][j].data]))

\* Every write that is over was told of, and the next frame continues the last.
CarriedBy(s) ==
    /\ writes[s] = Len(reported[s]) + (IF writer[s] = "idle" THEN 0 ELSE 1)
    /\ off[s] = Len(Sent(s))
    /\ Sent(s) = FlattenSeq(Told(s))
    /\ OffsetsAreLengths(s)

\* It is so for every stream.
Carried == \A s \in Streams : CarriedBy(s)

\* The inductive invariant.
IInv ==
    /\ TypeOK
    /\ Queued
    /\ Readers
    /\ Flow
    /\ DataIsActive
    /\ OneFin
    /\ Packing
    /\ Carried

-----------------------------------------------------------------------------
(***************************************************************************)
(* The queue of active streams.                                            *)
(***************************************************************************)

\* quic_framer_add_active keeps the set and the queue alike.
LEMMA AddActiveQueues ==
    ASSUME TypeOK, Queued, NEW s \in Streams, AddActive(s)
    PROVE  /\ active_set' = active_set \cup {s} /\ active_set' \subseteq Streams
           /\ active_queue' \in Seq(Streams)
           /\ Queued'
<1>t. active_set \subseteq Streams /\ active_queue \in Seq(Streams)
  BY DEF TypeOK
<1>1. CASE s \in active_set
  BY <1>t, <1>1 DEF AddActive, framer, Queued, NoRepetition, ToSet
<1>2. CASE s \notin active_set
  <2>1. active_set' = active_set \cup {s} /\ active_queue' = Append(active_queue, s)
    BY <1>2 DEF AddActive
  <2> DEFINE n == Len(active_queue)
  <2>2. /\ n \in Nat /\ active_queue' \in Seq(Streams) /\ Len(active_queue') = n + 1
        /\ \A i \in 1 .. n : active_queue'[i] = active_queue[i]
        /\ active_queue'[n + 1] = s
        /\ DOMAIN active_queue = 1 .. n /\ DOMAIN active_queue' = 1 .. n + 1
    BY <1>t, <2>1, AppendProperties, LenProperties
  <2> HIDE DEF n
  <2>3. \A i \in 1 .. n : active_queue[i] \in active_set
    BY <2>2 DEF Queued, ToSet
  <2>4. ToSet(active_queue') = active_set'
    <3>1. \A x \in ToSet(active_queue') : x \in active_set'
      BY <2>1, <2>2, <2>3 DEF ToSet
    <3>2. \A x \in active_set : \E i \in 1 .. n : x = active_queue[i]
      BY <2>2 DEF Queued, ToSet
    <3>3. \A x \in active_set' : x \in ToSet(active_queue')
      <4>1. \A i \in 1 .. n : i \in 1 .. n + 1
        BY <2>2
      <4>2. n + 1 \in 1 .. n + 1
        BY <2>2
      <4> QED
        BY <2>1, <2>2, <3>2, <4>1, <4>2 DEF ToSet
    <3> QED
      BY <3>1, <3>3
  <2>5. NoRepetition(active_queue')
    BY <1>2, <2>2, <2>3 DEF Queued, NoRepetition
  <2> QED
    BY <1>t, <2>1, <2>2, <2>4, <2>5 DEF Queued, ToSet, NoRepetition
<1> QED
  BY <1>1, <1>2

\* Taking the stream at the head away, or moving it to the end.
LEMMA HeadAndRequeue ==
    ASSUME TypeOK, Queued, active_queue # <<>>, NEW s, s = Head(active_queue)
    PROVE  /\ s \in Streams /\ s \in active_set
           /\ Tail(active_queue) \in Seq(Streams)
           /\ NoRepetition(Tail(active_queue))
           /\ ToSet(Tail(active_queue)) = active_set \ {s}
           /\ Requeue(s) \in Seq(Streams)
           /\ NoRepetition(Requeue(s))
           /\ ToSet(Requeue(s)) = active_set
<1> DEFINE n == Len(active_queue)
           t == Tail(active_queue)
<1>1. /\ n \in Nat /\ n # 0 /\ DOMAIN active_queue = 1 .. n
      /\ active_queue \in Seq(Streams)
  BY DEF TypeOK
<1>2. /\ t \in Seq(Streams) /\ Len(t) = n - 1 /\ DOMAIN t = 1 .. n - 1
      /\ \A i \in 1 .. n - 1 : t[i] = active_queue[i + 1]
      /\ s = active_queue[1] /\ s \in Streams
  BY <1>1, HeadTailProperties, LenProperties
<1>3. Requeue(s) = Append(t, s)
  BY DEF Requeue
<1> HIDE DEF t, n
<1>4. /\ Requeue(s) \in Seq(Streams) /\ Len(Requeue(s)) = n
      /\ \A i \in 1 .. n - 1 : Requeue(s)[i] = t[i]
      /\ Requeue(s)[n] = s
      /\ DOMAIN Requeue(s) = 1 .. n
  <2>1. /\ Append(t, s) \in Seq(Streams) /\ Len(Append(t, s)) = Len(t) + 1
        /\ \A i \in 1 .. Len(t) : Append(t, s)[i] = t[i]
        /\ Append(t, s)[Len(t) + 1] = s
    BY <1>2, AppendProperties
  <2>2. Len(t) + 1 = n
    BY <1>1, <1>2
  <2> QED
    BY <1>2, <1>3, <2>1, <2>2, LenProperties
<1>5. \A i, j \in 1 .. n : i # j => active_queue[i] # active_queue[j]
  BY <1>1 DEF Queued, NoRepetition
<1>6. \A x : x \in active_set <=> \E i \in 1 .. n : x = active_queue[i]
  BY <1>1 DEF Queued, ToSet
<1>7. \A x : x \in ToSet(t) <=> \E i \in 1 .. n - 1 : x = t[i]
  BY <1>2 DEF ToSet
<1>8. \A x : x \in ToSet(Requeue(s)) <=> \E i \in 1 .. n : x = Requeue(s)[i]
  BY <1>4 DEF ToSet
<1>9. \A i, j \in 1 .. n - 1 : i # j => t[i] # t[j]
  BY <1>1, <1>2, <1>5
<1>10. \A i \in 1 .. n - 1 : t[i] # s /\ t[i] \in active_set
  BY <1>1, <1>2, <1>5, <1>6
<1>11. \A x \in active_set : x = s \/ \E i \in 1 .. n - 1 : x = t[i]
  <2> SUFFICES ASSUME NEW x \in active_set, x # s
               PROVE  \E i \in 1 .. n - 1 : x = t[i]
    OBVIOUS
  <2>1. PICK i \in 1 .. n : x = active_queue[i]
    BY <1>6
  <2>2. i - 1 \in 1 .. n - 1 /\ i - 1 + 1 = i
    BY <1>1, <1>2, <2>1
  <2> QED
    BY <1>2, <2>1, <2>2
<1>12. s \in active_set
  BY <1>1, <1>2, <1>6
<1>13. ToSet(t) = active_set \ {s} /\ NoRepetition(t)
  BY <1>2, <1>7, <1>9, <1>10, <1>11 DEF NoRepetition
<1>14. NoRepetition(Requeue(s))
  BY <1>1, <1>4, <1>9, <1>10 DEF NoRepetition
<1>15. ToSet(Requeue(s)) = active_set
  <2>1. \A x \in ToSet(Requeue(s)) : x \in active_set
    BY <1>1, <1>4, <1>8, <1>10, <1>12
  <2>2. \A x \in active_set : x \in ToSet(Requeue(s))
    <3>1. n \in 1 .. n /\ \A i \in 1 .. n - 1 : i \in 1 .. n
      BY <1>1
    <3> QED
      BY <1>4, <1>8, <1>11, <3>1
  <2> QED
    BY <2>1, <2>2
<1> QED
  BY <1>2, <1>4, <1>12, <1>13, <1>14, <1>15 DEF t

-----------------------------------------------------------------------------
(***************************************************************************)
(* Types.                                                                  *)
(***************************************************************************)

\* A frame carries no more than is left of the write, the window, the packet.
LEMMA PayloadIs ==
    ASSUME TypeOK, Flow, NEW s \in Streams
    PROVE  /\ Payload(s) \in Nat
           /\ Payload(s) <= reader_len[s]
           /\ sent_bytes[s] + Payload(s) <= swnd[s]
<1>1. /\ reader_len[s] \in Nat /\ swnd[s] \in Nat /\ sent_bytes[s] \in Nat
      /\ sent_bytes[s] <= swnd[s]
  BY DEF TypeOK, Flow
<1>c. Capacity \in Nat
  <2>1. max_bytes \in Int /\ HeaderLen \in Nat
    BY SizesAssumption DEF TypeOK, NoPacket
  <2> QED
    BY <2>1 DEF Capacity
<1>2. Window(s) = swnd[s] - sent_bytes[s] /\ Window(s) \in Nat
  BY <1>1 DEF Window
<1> DEFINE M == {reader_len[s], Window(s), Capacity}
<1>3. M \in SUBSET Nat /\ M # {}
  BY <1>1, <1>2, <1>c
<1>4. Min(M) \in M /\ \A y \in M : Min(M) <= y
  BY <1>3, MinOfNats
<1>5. Payload(s) = Min(M)
  BY DEF Payload
<1>6. /\ Payload(s) \in Nat
      /\ Payload(s) <= reader_len[s] /\ Payload(s) <= Window(s)
  BY <1>3, <1>4, <1>5
<1> QED
  BY <1>1, <1>2, <1>6

\* The bytes of a frame are bytes of the current write.
LEMMA DataType ==
    ASSUME TypeOK, Readers, NEW s \in Streams, NEW n \in Nat
    PROVE  Data(s, n) \in Seq(Nat \X Nat) /\ Len(Data(s, n)) = n
<1>1. /\ writes[s] \in Nat /\ len[s] \in Nat /\ reader_len[s] \in Nat
      /\ reader_len[s] <= len[s]
  BY DEF TypeOK, Readers
<1>2. \A i \in 1 .. n : <<writes[s], len[s] - reader_len[s] + i>> \in Nat \X Nat
  BY <1>1
<1> QED
  BY <1>2 DEF Data

\* Who is woken up is where a coroutine can be.
LEMMA NotifyType ==
    ASSUME TypeOK, NEW s \in Streams, Notify(s)
    PROVE  writer' \in [Streams -> {"idle", "joined", "adding", "parking", "waiting",
                                    "selecting", "woken"}]
  BY DEF TypeOK, Notify, Notified

\* What is left of a packet is a uint32_t.
LEMMA LeftOver ==
    ASSUME TypeOK, NEW n \in Nat
    PROVE  (max_bytes - HeaderLen - n) % Word \in Nat
<1>1. /\ max_bytes - HeaderLen - n \in Int
      /\ Word \in Nat /\ Word > 0
  BY SizesAssumption DEF TypeOK, NoPacket
<1> QED
  BY <1>1

\* Generating a frame keeps the types.
LEMMA TypeAppendFrame ==
    ASSUME TypeOK, Queued, Readers, Flow,
           NEW s \in Streams, AppendFrame(s)
    PROVE  TypeOK'
<1> DEFINE n == Payload(s)
<1>1. n \in Nat /\ n <= reader_len[s] /\ Data(s, n) \in Seq(Nat \X Nat)
  BY PayloadIs, DataType
<1>2. Fin(s, n) \in BOOLEAN
  BY DEF Fin
<1> HIDE DEF n
<1>3. [off |-> off[s], data |-> Data(s, n), fin |-> Fin(s, n)] \in Frame
  BY <1>1, <1>2 DEF TypeOK, Frame
<1>4. frames' \in [Streams -> Seq(Frame)]
  <2>1. frames' = [frames EXCEPT ![s] =
                IF n = 0 /\ ~Fin(s, n) THEN frames[s]
                ELSE Append(frames[s], [off |-> off[s], data |-> Data(s, n), fin |-> Fin(s, n)])]
    BY DEF AppendFrame, n
  <2>2. frames \in [Streams -> Seq(Frame)] /\ frames[s] \in Seq(Frame)
    BY DEF TypeOK
  <2>3. Append(frames[s], [off |-> off[s], data |-> Data(s, n), fin |-> Fin(s, n)]) \in Seq(Frame)
    BY <1>3, <2>2, AppendProperties
  <2> QED
    BY <2>1, <2>2, <2>3
<1>5. /\ off' \in [Streams -> Nat] /\ sent_bytes' \in [Streams -> Nat]
      /\ reader_len' \in [Streams -> Nat]
  <2>1. /\ off' = [off EXCEPT ![s] = off[s] + n]
        /\ sent_bytes' = [sent_bytes EXCEPT ![s] = sent_bytes[s] + n]
        /\ reader_len' = [reader_len EXCEPT ![s] = reader_len[s] - n]
    BY DEF AppendFrame, n
  <2>2. /\ off \in [Streams -> Nat] /\ sent_bytes \in [Streams -> Nat]
        /\ reader_len \in [Streams -> Nat]
    BY DEF TypeOK
  <2>3. off[s] \in Nat /\ sent_bytes[s] \in Nat /\ reader_len[s] \in Nat
    BY <2>2
  <2>4. off[s] + n \in Nat /\ sent_bytes[s] + n \in Nat /\ reader_len[s] - n \in Nat
    BY <1>1, <2>3, SMTT(60)
  <2> QED
    BY <2>1, <2>2, <2>4
<1>6. sent_fin' \in [Streams -> BOOLEAN]
  <2>1. sent_fin' = [sent_fin EXCEPT ![s] = sent_fin[s] \/ Fin(s, n)]
    BY DEF AppendFrame, n
  <2> QED
    BY <1>2, <2>1 DEF TypeOK
<1>7. writer' \in [Streams -> {"idle", "joined", "adding", "parking", "waiting",
                               "selecting", "woken"}]
  <2>1. Notify(s) \/ UNCHANGED writer
    BY DEF AppendFrame
  <2> QED
    BY <2>1, NotifyType DEF TypeOK
<1>8. active_queue' \in Seq(Streams) /\ active_set' \subseteq Streams
  <2>1. active_queue # <<>> /\ s = Head(active_queue)
    BY DEF AppendFrame
  <2>2. active_queue' \in {Tail(active_queue), Requeue(s)}
        /\ active_set' \in {active_set, active_set \ {s}}
    BY DEF AppendFrame
  <2> QED
    BY <2>1, <2>2, HeadAndRequeue DEF TypeOK
<1>9. max_bytes' \in Nat
  BY LeftOver, <1>1 DEF AppendFrame, n
<1> QED
  BY <1>4, <1>5, <1>6, <1>7, <1>8, <1>9 DEF AppendFrame, TypeOK

\* So do the other steps.
LEMMA TypeOthers ==
    ASSUME TypeOK, Queued, Readers, NEW s \in Streams,
           \/ \E n \in WriteLens : Write(s, n)
           \/ Start(s) \/ Wait(s) \/ Resume(s) \/ TimerFires(s)
           \/ \E d \in {"none", "set"} : SetDeadline(s, d)
           \/ DeadlinePasses(s)
           \/ CloseMark(s) \/ CloseAdd(s) \/ CloseNotify(s)
           \/ AppendNothing(s)
           \/ \E max_data \in Windows : MaxStreamData(s, max_data)
    PROVE  TypeOK'
<1> USE DEF stream, flowctrl, framer, history
<1>t. TypeOK
  OBVIOUS
<1>1. CASE \E n \in WriteLens : Write(s, n)
  <2> PICK n \in WriteLens : Write(s, n)
    BY <1>1
  <2>1. len' \in [Streams -> Nat] /\ writes' \in [Streams -> Nat]
    BY SizesAssumption, SMTT(60) DEF Write, TypeOK
  <2>2. writer' \in [Streams -> {"idle", "joined", "adding", "parking", "waiting",
                                 "selecting", "woken"}]
    BY DEF Write, TypeOK
  <2> QED
    BY <2>1, <2>2 DEF Write, TypeOK
<1>f. ASSUME NEW pos \in Nat, Finish(s, pos)
      PROVE  /\ writer' \in [Streams -> {"idle", "joined", "adding", "parking", "waiting",
                                         "selecting", "woken"}]
             /\ reader_len' \in [Streams -> Nat]
             /\ reported' \in [Streams -> Seq(Nat)]
  <2>1. reported[s] \in Seq(Nat) /\ Append(reported[s], pos) \in Seq(Nat)
    BY AppendProperties DEF TypeOK
  <2> QED
    BY <1>f, <2>1 DEF Finish, TypeOK
<1>2. CASE Start(s)
  <2>1. CASE GivesUp(s, len[s])
    BY <1>2, <1>f, <2>1 DEF Start, TypeOK
  <2>2. CASE ~ GivesUp(s, len[s])
    <3>1. /\ writer' = [writer EXCEPT ![s] = "adding"]
          /\ reader_len' = [reader_len EXCEPT ![s] = len[s]]
          /\ UNCHANGED reported
      BY <1>2, <2>2 DEF Start
    <3>2. reader_len' \in [Streams -> Nat]
      BY <3>1 DEF TypeOK
    <3>3. writer' \in [Streams -> {"idle", "joined", "adding", "parking", "waiting",
                                   "selecting", "woken"}]
      BY <3>1 DEF TypeOK
    <3> QED
      BY <1>2, <3>1, <3>2, <3>3 DEF Start, TypeOK
  <2> QED
    BY <2>1, <2>2
<1>3. CASE Wait(s)
  <2>1. AddActive(s) \/ UNCHANGED framer
    BY <1>3 DEF Wait
  <2>2. active_queue' \in Seq(Streams) /\ active_set' \subseteq Streams
    BY <2>1, AddActiveQueues DEF TypeOK
  <2> QED
    BY <1>3, <2>2 DEF Wait, TypeOK
<1>4. CASE Resume(s)
  <2>1. Pos(s) \in Nat
    BY DEF Pos, TypeOK, Readers
  <2>2. CASE GivesUp(s, reader_len[s])
    BY <1>4, <1>f, <2>1, <2>2 DEF Resume, TypeOK
  <2>3. CASE ~ GivesUp(s, reader_len[s])
    BY <1>4, <2>3 DEF Resume, TypeOK
  <2> QED
    BY <2>2, <2>3
<1>5. CASE TimerFires(s)
  BY <1>5 DEF TimerFires, TypeOK
<1>6. CASE \E d \in {"none", "set"} : SetDeadline(s, d)
  <2> PICK d \in {"none", "set"} : SetDeadline(s, d)
    BY <1>6
  <2>1. writer' \in [Streams -> {"idle", "joined", "adding", "parking", "waiting",
                                 "selecting", "woken"}]
    BY NotifyType DEF SetDeadline
  <2>2. deadline' \in [Streams -> {"none", "set", "passed"}]
    BY DEF SetDeadline, TypeOK
  <2> QED
    BY <2>1, <2>2 DEF SetDeadline, TypeOK
<1>7. CASE DeadlinePasses(s)
  BY <1>7 DEF DeadlinePasses, TypeOK
<1>8. CASE CloseMark(s)
  BY <1>8 DEF CloseMark, TypeOK
<1>9. CASE CloseAdd(s)
  <2>1. active_queue' \in Seq(Streams) /\ active_set' \subseteq Streams
    BY <1>9, AddActiveQueues DEF CloseAdd
  <2> QED
    BY <1>9, <2>1 DEF CloseAdd, TypeOK
<1>10. CASE CloseNotify(s)
  BY <1>10, NotifyType DEF CloseNotify, TypeOK
<1>11. CASE AppendNothing(s)
  <2> USE <1>11
  <2>1. active_queue' \in Seq(Streams)
    BY HeadAndRequeue DEF AppendNothing
  <2>2. /\ last_blocked_at' \in [Streams -> Nat]
        /\ blocked' \in [Streams -> Seq(Nat)]
    <3>1. blocked[s] \in Seq(Nat) /\ swnd[s] \in Nat /\ Append(blocked[s], swnd[s]) \in Seq(Nat)
      BY AppendProperties DEF TypeOK
    <3>2. CASE NewlyBlocked(s)
      <4>1. /\ last_blocked_at' = [last_blocked_at EXCEPT ![s] = swnd[s]]
            /\ blocked' = [blocked EXCEPT ![s] = Append(blocked[s], swnd[s])]
        BY <3>2 DEF AppendNothing
      <4>2. last_blocked_at \in [Streams -> Nat] /\ blocked \in [Streams -> Seq(Nat)]
        BY DEF TypeOK
      <4> QED
        BY <3>1, <4>1, <4>2
    <3>3. CASE ~ NewlyBlocked(s)
      BY <3>3 DEF AppendNothing, TypeOK
    <3> QED
      BY <3>2, <3>3
  <2> QED
    BY <2>1, <2>2 DEF AppendNothing, TypeOK
<1>12. CASE \E max_data \in Windows : MaxStreamData(s, max_data)
  <2> PICK max_data \in Windows : MaxStreamData(s, max_data)
    BY <1>12
  <2>1. AddActive(s) \/ UNCHANGED framer
    BY DEF MaxStreamData
  <2>2. active_queue' \in Seq(Streams) /\ active_set' \subseteq Streams
    BY <2>1, AddActiveQueues DEF TypeOK
  <2>3. swnd' \in [Streams -> Nat]
    BY SizesAssumption DEF MaxStreamData, TypeOK
  <2> QED
    BY <2>2, <2>3 DEF MaxStreamData, TypeOK
<1> QED
  BY <1>1, <1>2, <1>3, <1>4, <1>5, <1>6, <1>7, <1>8, <1>9, <1>10, <1>11, <1>12

-----------------------------------------------------------------------------
(***************************************************************************)
(* What a step does to the other streams, and to the framer.               *)
(***************************************************************************)

\* The steps of one stream that generate no frame.
QuietStep(s) ==
    \/ \E n \in WriteLens : Write(s, n)
    \/ Start(s) \/ Wait(s) \/ Resume(s) \/ TimerFires(s)
    \/ \E d \in {"none", "set"} : SetDeadline(s, d)
    \/ DeadlinePasses(s)
    \/ CloseMark(s) \/ CloseAdd(s) \/ CloseNotify(s)

\* All steps of one stream.
Step(s) ==
    \/ QuietStep(s)
    \/ AppendNothing(s)
    \/ AppendFrame(s)
    \/ \E max_data \in Windows : MaxStreamData(s, max_data)

\* The steps that only begin and end a packet.
PacketStep == NoneIsActive \/ \E room \in Rooms : PackPacket(room)

\* Every other action is a step of some stream.
LEMMA NextIsStep == Next <=> PacketStep \/ \E s \in Streams : Step(s)
  BY Zenon DEF Next, PacketStep, Step, QuietStep

\* Every step keeps the types.
LEMMA NextType ==
    ASSUME TypeOK, Queued, Readers, Flow, NEW s \in Streams, Step(s)
    PROVE  TypeOK'
<1>1. CASE AppendFrame(s)
  BY <1>1, TypeAppendFrame
<1>2. CASE ~ AppendFrame(s)
  BY <1>2, TypeOthers, Zenon DEF Step, QuietStep
<1> QED
  BY <1>1, <1>2

\* The state of one stream that the invariant is about.
Own(t) == <<writer[t], len[t], reader_len[t], off[t], closed[t], sent_fin[t], swnd[t],
            sent_bytes[t], last_blocked_at[t], writes[t], reported[t], frames[t],
            blocked[t]>>

\* A step of one stream leaves the others alone.
LEMMA OthersKeep ==
    ASSUME TypeOK, NEW s \in Streams, Step(s), NEW t \in Streams, t # s
    PROVE  UNCHANGED Own(t)
<1> USE DEF stream, flowctrl, framer, history, TypeOK, Own
<1>1. ASSUME NEW n \in WriteLens, Write(s, n) PROVE UNCHANGED Own(t)
  BY <1>1 DEF Write
<1>2. CASE Start(s)
  <2>1. CASE GivesUp(s, len[s])
    BY <1>2, <2>1 DEF Start, Finish
  <2>2. CASE ~ GivesUp(s, len[s])
    BY <1>2, <2>2 DEF Start
  <2> QED
    BY <2>1, <2>2
<1>3. CASE Wait(s)
  BY <1>3 DEF Wait
<1>4. CASE Resume(s)
  <2>1. CASE GivesUp(s, reader_len[s])
    BY <1>4, <2>1 DEF Resume, Finish
  <2>2. CASE ~ GivesUp(s, reader_len[s])
    BY <1>4, <2>2 DEF Resume
  <2> QED
    BY <2>1, <2>2
<1>5. CASE TimerFires(s)
  BY <1>5 DEF TimerFires
<1>6. ASSUME NEW d, SetDeadline(s, d) PROVE UNCHANGED Own(t)
  BY <1>6 DEF SetDeadline, Notify
<1>7. CASE DeadlinePasses(s)
  BY <1>7 DEF DeadlinePasses
<1>8. CASE CloseMark(s)
  BY <1>8 DEF CloseMark
<1>9. CASE CloseAdd(s)
  BY <1>9 DEF CloseAdd
<1>10. CASE CloseNotify(s)
  BY <1>10 DEF CloseNotify, Notify
<1>11. ASSUME AppendNothing(s) PROVE UNCHANGED Own(t)
  BY <1>11 DEF AppendNothing
<1>12. ASSUME AppendFrame(s) PROVE UNCHANGED Own(t)
  BY <1>12 DEF AppendFrame, Notify
<1>13. ASSUME NEW max_data \in Windows, MaxStreamData(s, max_data) PROVE UNCHANGED Own(t)
  BY <1>13 DEF MaxStreamData
<1> QED
  BY <1>1, <1>2, <1>3, <1>4, <1>5, <1>6, <1>7, <1>8, <1>9, <1>10, <1>11, <1>12, <1>13
     DEF Step, QuietStep

\* The set and the queue stay alike.  Only a frame takes a stream out of them.
LEMMA FramerStep ==
    ASSUME TypeOK, Queued, Packing, NEW s \in Streams, Step(s)
    PROVE  /\ Queued'
           /\ active_set \ {s} \subseteq active_set'
           /\ s \in active_set /\ s \notin active_set' =>
                AppendFrame(s) /\ Empty(s, Payload(s))
           /\ Wait(s) /\ writer[s] = "adding" => s \in active_set'
<1>1. CASE AddActive(s)
  BY <1>1, AddActiveQueues
<1>2. CASE UNCHANGED framer /\ ~ (Wait(s) /\ writer[s] = "adding")
  BY <1>2 DEF framer, Queued, NoRepetition, ToSet
<1>3. ASSUME AppendNothing(s)
      PROVE  Queued' /\ active_set' = active_set
  <2>1. /\ active_queue # <<>> /\ s = Head(active_queue)
        /\ active_queue' = Requeue(s) /\ active_set' = active_set
    BY <1>3 DEF AppendNothing
  <2> QED
    BY <2>1, HeadAndRequeue DEF Queued, ToSet, NoRepetition
<1>4. ASSUME AppendFrame(s)
      PROVE  /\ Queued' /\ active_set \ {s} \subseteq active_set'
             /\ s \in active_set /\ s \notin active_set' => Empty(s, Payload(s))
  <2>1. active_queue # <<>> /\ s = Head(active_queue)
    BY <1>4 DEF AppendFrame
  <2>2. CASE Empty(s, Payload(s))
    <3>1. active_queue' = Tail(active_queue) /\ active_set' = active_set \ {s}
      BY <1>4, <2>2 DEF AppendFrame
    <3> QED
      BY <2>1, <2>2, <3>1, HeadAndRequeue DEF Queued, ToSet, NoRepetition
  <2>3. CASE ~ Empty(s, Payload(s))
    <3>1. active_queue' = Requeue(s) /\ active_set' = active_set
      BY <1>4, <2>3 DEF AppendFrame
    <3> QED
      BY <2>1, <3>1, HeadAndRequeue DEF Queued, ToSet, NoRepetition
  <2> QED
    BY <2>2, <2>3
<1>5. CASE Wait(s)
  BY <1>1, <1>2, <1>5 DEF Wait
<1>6. CASE \E max_data \in Windows : MaxStreamData(s, max_data)
  <2>1. AddActive(s) \/ UNCHANGED framer
    BY <1>6 DEF MaxStreamData
  <2>2. ~ Wait(s) \/ ~ UNCHANGED framer \/ writer[s] # "adding" \/ AddActive(s)
    BY DEF Wait
  <2> QED
    BY <1>1, <1>2, <2>1, <2>2
<1>7. CASE CloseAdd(s)
  BY <1>1, <1>7 DEF CloseAdd
<1>8. CASE /\ QuietStep(s)
           /\ ~ Wait(s) /\ ~ CloseAdd(s)
  <2>1. UNCHANGED framer
    BY <1>8 DEF QuietStep, Write, Start, Resume, TimerFires, SetDeadline, DeadlinePasses,
                CloseMark, CloseNotify, Finish
  <2> QED
    BY <1>2, <1>8, <2>1
<1>9. CASE AppendNothing(s)
  <2>1. ~ Wait(s) \/ writer[s] # "adding"
    BY <1>9 DEF AppendNothing, Packing
  <2> QED
    BY <1>3, <1>9, <2>1
<1>10. CASE AppendFrame(s)
  <2>1. ~ Wait(s) \/ writer[s] # "adding"
    BY <1>10 DEF AppendFrame, Packing
  <2> QED
    BY <1>4, <1>10, <2>1
<1> QED
  BY <1>5, <1>6, <1>7, <1>8, <1>9, <1>10 DEF Step

-----------------------------------------------------------------------------
(***************************************************************************)
(* Each part of the invariant is kept.                                     *)
(***************************************************************************)

\* Waking a stream's writer starts or ends no write.
LEMMA NotifiedIs ==
    ASSUME TypeOK, NEW s \in Streams, Notify(s) \/ UNCHANGED writer
    PROVE  /\ writer'[s] \in {"idle", "joined", "adding"} <=>
                writer[s] \in {"idle", "joined", "adding"}
           /\ writer'[s] = "idle" <=> writer[s] = "idle"
           /\ writer'[s] = "joined" <=> writer[s] = "joined"
           /\ writer'[s] = "adding" <=> writer[s] = "adding"
  BY DEF TypeOK, Notify, Notified

\* Every step keeps Readers.
LEMMA KeepsReaders ==
    ASSUME TypeOK, Flow, Readers, NEW s \in Streams, Step(s)
    PROVE  Readers'
<1> USE DEF stream, flowctrl, framer, history
<1> SUFFICES ASSUME NEW t \in Streams
             PROVE  /\ reader_len'[t] <= len'[t]
                    /\ writer'[t] \in {"idle", "joined"} => reader_len'[t] = 0
  BY DEF Readers
<1>t. /\ writer \in [Streams -> {"idle", "joined", "adding", "parking", "waiting",
                                 "selecting", "woken"}]
      /\ len \in [Streams -> Nat] /\ reader_len \in [Streams -> Nat]
      /\ reader_len[t] <= len[t]
      /\ writer[t] \in {"idle", "joined"} => reader_len[t] = 0
  BY DEF TypeOK, Readers
<1>1. CASE t # s
  BY <1>1, <1>t, OthersKeep DEF Own
<1>2. CASE t = s
  <2>1. ASSUME NEW n \in WriteLens, Write(s, n)
        PROVE  writer'[s] = "joined" /\ len'[s] \in Nat /\ reader_len'[s] = 0
    BY <1>2, <1>t, <2>1, SizesAssumption DEF Write
  <2>2. CASE Start(s)
    <3>1. CASE GivesUp(s, len[s])
      BY <1>2, <1>t, <2>2, <3>1 DEF Start, Finish
    <3>2. CASE ~ GivesUp(s, len[s])
      BY <1>2, <1>t, <2>2, <3>2 DEF Start
    <3> QED
      BY <3>1, <3>2
  <2>3. CASE Wait(s)
    BY <1>2, <1>t, <2>3 DEF Wait
  <2>4. CASE Resume(s)
    <3>1. CASE GivesUp(s, reader_len[s])
      BY <1>2, <1>t, <2>4, <3>1 DEF Resume, Finish
    <3>2. CASE ~ GivesUp(s, reader_len[s])
      BY <1>2, <1>t, <2>4, <3>2 DEF Resume
    <3> QED
      BY <3>1, <3>2
  <2>5. CASE TimerFires(s)
    BY <1>2, <1>t, <2>5 DEF TimerFires
  <2>6. ASSUME Notify(s) \/ UNCHANGED writer, UNCHANGED <<len, reader_len>>
        PROVE  /\ reader_len'[t] <= len'[t]
               /\ writer'[t] \in {"idle", "joined"} => reader_len'[t] = 0
    BY <1>2, <1>t, <2>6, NotifiedIs
  <2>7. ASSUME AppendFrame(s)
        PROVE  /\ reader_len'[t] <= len'[t]
               /\ writer'[t] \in {"idle", "joined"} => reader_len'[t] = 0
    <3> DEFINE n == Payload(s)
    <3>1. n \in Nat /\ n <= reader_len[s]
      BY PayloadIs
    <3>2. /\ reader_len' = [reader_len EXCEPT ![s] = reader_len[s] - n]
          /\ len' = len /\ (Notify(s) \/ UNCHANGED writer)
      BY <2>7 DEF AppendFrame
    <3> HIDE DEF n
    <3>3. reader_len'[s] = reader_len[s] - n
      BY <1>t, <3>2
    <3> QED
      BY <1>2, <1>t, <3>1, <3>2, <3>3, NotifiedIs
  <2> QED
    BY <1>2, <1>t, <2>1, <2>2, <2>3, <2>4, <2>5, <2>6, <2>7
       DEF Step, QuietStep, SetDeadline, DeadlinePasses, CloseMark, CloseAdd, CloseNotify,
           AppendNothing, MaxStreamData
<1> QED
  BY <1>1, <1>2

\* Every step keeps a stream with data active.
LEMMA KeepsDataActive ==
    ASSUME TypeOK, Queued, Readers, Flow, Packing, DataIsActive, NEW s \in Streams, Step(s)
    PROVE  DataIsActive'
<1> USE DEF stream, flowctrl, framer, history
<1> SUFFICES ASSUME NEW t \in Streams, reader_len'[t] # 0, writer'[t] # "adding", ~closed'[t]
             PROVE  t \in active_set'
  BY DEF DataIsActive
<1>t. /\ writer \in [Streams -> {"idle", "joined", "adding", "parking", "waiting",
                                 "selecting", "woken"}]
      /\ len \in [Streams -> Nat] /\ reader_len \in [Streams -> Nat]
      /\ writer[t] \in {"idle", "joined"} => reader_len[t] = 0
      /\ reader_len[t] # 0 /\ writer[t] # "adding" /\ ~closed[t] => t \in active_set
  BY DEF TypeOK, Readers, DataIsActive
<1>f. /\ active_set \ {s} \subseteq active_set'
      /\ s \in active_set /\ s \notin active_set' =>
                AppendFrame(s) /\ Empty(s, Payload(s))
      /\ Wait(s) /\ writer[s] = "adding" => s \in active_set'
  BY FramerStep
<1>1. CASE t # s
  BY <1>1, <1>t, <1>f, OthersKeep DEF Own
<1>2. ASSUME t = s, AppendFrame(s), Empty(s, Payload(s))
      PROVE  FALSE
  <2> DEFINE n == Payload(s)
  <2>1. n \in Nat /\ n <= reader_len[s]
    BY PayloadIs
  <2>2. /\ reader_len' = [reader_len EXCEPT ![s] = reader_len[s] - n]
        /\ closed' = closed
        /\ n = reader_len[s] \/ closed[s]
    BY <1>2 DEF AppendFrame, Empty, Fin
  <2> HIDE DEF n
  <2>3. reader_len'[s] = reader_len[s] - n
    BY <1>t, <2>2
  <2> QED
    BY <1>2, <1>t, <2>1, <2>2, <2>3
<1>3. CASE t = s /\ Wait(s) /\ writer[s] = "adding"
  BY <1>3, <1>f
<1>4. CASE /\ t = s /\ ~ (Wait(s) /\ writer[s] = "adding")
  <2> SUFFICES s \in active_set
    BY <1>2, <1>4, <1>f
  <2>1. reader_len[s] # 0 /\ writer[s] # "adding"
    <3>1. ASSUME NEW n \in WriteLens, Write(s, n) PROVE FALSE
      BY <1>t, <1>4, <3>1 DEF Write
    <3>2. ASSUME Start(s) PROVE FALSE
      <4>1. CASE GivesUp(s, len[s])
        BY <1>4, <1>t, <3>2, <4>1 DEF Start, Finish
      <4>2. CASE ~ GivesUp(s, len[s])
        BY <1>4, <1>t, <3>2, <4>2 DEF Start
      <4> QED
        BY <4>1, <4>2
    <3>3. CASE Wait(s)
      BY <1>4, <1>t, <3>3 DEF Wait
    <3>4. CASE Resume(s)
      <4>1. CASE GivesUp(s, reader_len[s])
        BY <1>4, <1>t, <3>4, <4>1 DEF Resume, Finish
      <4>2. CASE ~ GivesUp(s, reader_len[s])
        BY <1>4, <1>t, <3>4, <4>2 DEF Resume
      <4> QED
        BY <4>1, <4>2
    <3>5. CASE TimerFires(s)
      BY <1>4, <1>t, <3>5 DEF TimerFires
    <3>6. ASSUME Notify(s) \/ UNCHANGED writer, UNCHANGED <<reader_len>>
          PROVE  reader_len[s] # 0 /\ writer[s] # "adding"
      BY <1>4, <1>t, <3>6, NotifiedIs
    <3>7. ASSUME AppendFrame(s)
          PROVE  reader_len[s] # 0 /\ writer[s] # "adding"
      <4> DEFINE n == Payload(s)
      <4>1. n \in Nat /\ n <= reader_len[s]
        BY PayloadIs
      <4>2. /\ reader_len' = [reader_len EXCEPT ![s] = reader_len[s] - n]
            /\ (Notify(s) \/ UNCHANGED writer)
        BY <3>7 DEF AppendFrame
      <4> HIDE DEF n
      <4>3. reader_len'[s] = reader_len[s] - n
        BY <1>t, <4>2
      <4> QED
        BY <1>4, <1>t, <4>1, <4>2, <4>3, NotifiedIs
    <3> QED
      BY <1>4, <3>1, <3>2, <3>3, <3>4, <3>5, <3>6, <3>7
         DEF Step, QuietStep, SetDeadline, DeadlinePasses, CloseMark, CloseAdd, CloseNotify,
             AppendNothing, MaxStreamData
  <2>2. ~closed[s]
    <3>1. CASE CloseMark(s)
      BY <1>4, <3>1 DEF CloseMark, TypeOK
    <3>2. CASE UNCHANGED closed
      BY <1>4, <3>2
    <3> QED
      BY <3>1, <3>2
         DEF Step, QuietStep, Write, Start, Wait, Resume, TimerFires, SetDeadline,
             DeadlinePasses, CloseAdd, CloseNotify, AppendNothing, AppendFrame, MaxStreamData
  <2> QED
    BY <1>4, <1>t, <2>1, <2>2
<1> QED
  BY <1>1, <1>3, <1>4

\* Only frames and limits move the window and what is reported of it.
LEMMA QuietKeeps ==
    ASSUME NEW s, QuietStep(s)
    PROVE  UNCHANGED <<off, sent_fin, flowctrl, frames, blocked>>
  BY DEF QuietStep, Write, Start, Wait, Resume, TimerFires, SetDeadline, DeadlinePasses,
         CloseMark, CloseAdd, CloseNotify, Finish, stream, history, flowctrl

\* Every step keeps Flow.
LEMMA KeepsFlow ==
    ASSUME TypeOK, Readers, Flow, NEW s \in Streams, Step(s)
    PROVE  Flow'
<1> USE DEF stream, flowctrl, framer, history
<1> SUFFICES ASSUME NEW t \in Streams
             PROVE  /\ off'[t] = sent_bytes'[t]
                    /\ off'[t] <= swnd'[t]
                    /\ last_blocked_at'[t] <= swnd'[t]
                    /\ \A i \in DOMAIN blocked'[t] : blocked'[t][i] <= last_blocked_at'[t]
                    /\ \A i, j \in DOMAIN blocked'[t] :
                            i < j => blocked'[t][i] < blocked'[t][j]
  BY DEF Flow
<1>t. /\ off \in [Streams -> Nat] /\ sent_bytes \in [Streams -> Nat]
      /\ swnd \in [Streams -> Nat] /\ last_blocked_at \in [Streams -> Nat]
      /\ blocked \in [Streams -> Seq(Nat)]
  BY DEF TypeOK
<1>i. /\ off[t] = sent_bytes[t]
      /\ off[t] <= swnd[t]
      /\ last_blocked_at[t] <= swnd[t]
      /\ \A i \in DOMAIN blocked[t] : blocked[t][i] <= last_blocked_at[t]
      /\ \A i, j \in DOMAIN blocked[t] : i < j => blocked[t][i] < blocked[t][j]
  BY DEF Flow
<1>1. CASE t # s
  BY <1>1, <1>i, OthersKeep DEF Own
<1>2. CASE QuietStep(s)
  BY <1>2, <1>i, QuietKeeps
<1>3. ASSUME t = s, AppendNothing(s)
      PROVE  /\ off'[t] = sent_bytes'[t]
             /\ off'[t] <= swnd'[t]
             /\ last_blocked_at'[t] <= swnd'[t]
             /\ \A i \in DOMAIN blocked'[t] : blocked'[t][i] <= last_blocked_at'[t]
             /\ \A i, j \in DOMAIN blocked'[t] :
                     i < j => blocked'[t][i] < blocked'[t][j]
  <2>1. CASE ~ NewlyBlocked(s)
    BY <1>3, <1>i, <2>1 DEF AppendNothing
  <2>2. CASE NewlyBlocked(s)
    <3> DEFINE b == blocked[s]
               c == blocked'[s]
               m == Len(b)
    <3>1. /\ last_blocked_at'[s] = swnd[s] /\ c = Append(b, swnd[s])
          /\ off' = off /\ sent_bytes' = sent_bytes /\ swnd' = swnd
      BY <1>3, <1>t, <2>2 DEF AppendNothing
    <3>2. swnd[s] \in Nat /\ last_blocked_at[s] \in Nat /\ last_blocked_at[s] < swnd[s]
      BY <1>3, <1>t, <1>i, <2>2 DEF NewlyBlocked
    <3>3. /\ b \in Seq(Nat) /\ m \in Nat /\ DOMAIN b = 1 .. m
          /\ c \in Seq(Nat) /\ DOMAIN c = 1 .. m + 1
          /\ \A i \in 1 .. m : c[i] = b[i]
          /\ c[m + 1] = swnd[s]
      <4>1. b \in Seq(Nat)
        BY <1>t
      <4>2. /\ Append(b, swnd[s]) \in Seq(Nat)
            /\ Len(Append(b, swnd[s])) = m + 1
            /\ \A i \in 1 .. m : Append(b, swnd[s])[i] = b[i]
            /\ Append(b, swnd[s])[m + 1] = swnd[s]
        BY <3>2, <4>1, AppendProperties
      <4> QED
        BY <3>1, <4>1, <4>2, LenProperties
    <3>4. \A i \in 1 .. m : b[i] \in Nat /\ b[i] <= last_blocked_at[s]
      <4>1. \A i \in 1 .. m : b[i] \in Nat
        BY <3>3, ElementOfSeq
      <4>2. \A i \in 1 .. m : b[i] <= last_blocked_at[s]
        BY <1>3, <1>i, <3>3
      <4> QED
        BY <4>1, <4>2
    <3>5. \A i, j \in 1 .. m : i < j => b[i] < b[j]
      BY <1>3, <1>i, <3>3
    <3> HIDE DEF b, c, m
    <3>6. \A i \in 1 .. m + 1 : c[i] <= swnd[s]
      BY <3>2, <3>3, <3>4, SMTT(60)
    <3>7. \A i, j \in 1 .. m + 1 : i < j => c[i] < c[j]
      <4> SUFFICES ASSUME NEW i \in 1 .. m + 1, NEW j \in 1 .. m + 1, i < j
                   PROVE  c[i] < c[j]
        OBVIOUS
      <4>1. i \in 1 .. m /\ c[i] = b[i] /\ b[i] \in Nat /\ b[i] <= last_blocked_at[s]
        BY <3>3, <3>4
      <4>2. CASE j = m + 1
        BY <3>2, <3>3, <4>1, <4>2
      <4>3. CASE j # m + 1
        <5>1. j \in 1 .. m
          BY <3>3, <4>3
        <5> QED
          BY <3>3, <3>5, <4>1, <5>1
      <4> QED
        BY <4>2, <4>3
    <3>8. \A i \in DOMAIN blocked'[s] : blocked'[s][i] <= swnd[s]
      BY <3>3, <3>6 DEF c
    <3>9. \A i, j \in DOMAIN blocked'[s] : i < j => blocked'[s][i] < blocked'[s][j]
      BY <3>3, <3>7 DEF c
    <3> QED
      BY <1>3, <1>i, <3>1, <3>2, <3>8, <3>9
  <2> QED
    BY <2>1, <2>2
<1>4. ASSUME t = s, AppendFrame(s)
      PROVE  /\ off'[t] = sent_bytes'[t]
             /\ off'[t] <= swnd'[t]
             /\ UNCHANGED <<last_blocked_at, blocked, swnd>>
  <2> DEFINE n == Payload(s)
  <2>1. n \in Nat /\ sent_bytes[s] + n <= swnd[s]
    BY PayloadIs
  <2>2. /\ off' = [off EXCEPT ![s] = off[s] + n]
        /\ sent_bytes' = [sent_bytes EXCEPT ![s] = sent_bytes[s] + n]
        /\ UNCHANGED <<last_blocked_at, blocked, swnd>>
    BY <1>4 DEF AppendFrame
  <2> HIDE DEF n
  <2>3. off'[s] = off[s] + n /\ sent_bytes'[s] = sent_bytes[s] + n
    BY <1>t, <2>2
  <2> QED
    BY <1>4, <1>i, <2>1, <2>2, <2>3
<1>5. ASSUME t = s, NEW max_data \in Windows, MaxStreamData(s, max_data)
      PROVE  /\ swnd[s] <= swnd'[s] /\ swnd'[s] \in Nat
             /\ UNCHANGED <<off, sent_bytes, last_blocked_at, blocked>>
  <2>1. swnd'[s] = IF max_data > swnd[s] THEN max_data ELSE swnd[s]
    BY <1>5, <1>t DEF MaxStreamData
  <2>2. swnd[s] \in Nat /\ max_data \in Nat
    BY <1>t, SizesAssumption
  <2> QED
    BY <1>5, <2>1, <2>2 DEF MaxStreamData
<1>6. off[t] \in Nat /\ swnd[t] \in Nat /\ last_blocked_at[t] \in Nat
  BY <1>t
<1>7. CASE t = s /\ AppendFrame(s)
  BY <1>4, <1>7, <1>i
<1>8. CASE t = s /\ \E max_data \in Windows : MaxStreamData(s, max_data)
  BY <1>5, <1>6, <1>8, <1>i
<1> QED
  BY <1>1, <1>2, <1>3, <1>7, <1>8 DEF Step

\* Every step keeps FIN in at most one frame, where sent_fin says so.
LEMMA KeepsOneFin ==
    ASSUME TypeOK, Readers, Flow, OneFin, NEW s \in Streams, Step(s)
    PROVE  OneFin'
<1> USE DEF stream, flowctrl, framer, history
<1> DEFINE Fins(fs) == {i \in DOMAIN fs : fs[i].fin}
<1> SUFFICES ASSUME NEW t \in Streams
             PROVE  /\ \A i, j \in Fins(frames'[t]) : i = j
                    /\ Fins(frames'[t]) # {} <=> sent_fin'[t]
                    /\ sent_fin'[t] => closed'[t]
  BY DEF OneFin
<1>i. /\ \A i, j \in Fins(frames[t]) : i = j
      /\ Fins(frames[t]) # {} <=> sent_fin[t]
      /\ sent_fin[t] => closed[t]
  BY DEF OneFin
<1>1. CASE t # s
  BY <1>1, <1>i, OthersKeep DEF Own
<1>2. closed[t] => closed'[t]
  <2>1. CASE CloseMark(s)
    BY <2>1 DEF CloseMark, TypeOK
  <2>2. CASE UNCHANGED closed
    BY <2>2
  <2> QED
    BY <2>1, <2>2
       DEF Step, QuietStep, Write, Start, Wait, Resume, TimerFires, SetDeadline,
           DeadlinePasses, CloseAdd, CloseNotify, AppendNothing, AppendFrame, MaxStreamData
<1>3. CASE UNCHANGED <<frames, sent_fin>>
  BY <1>2, <1>3, <1>i
<1>4. ASSUME t = s, AppendFrame(s)
      PROVE  /\ \A i, j \in Fins(frames'[t]) : i = j
             /\ Fins(frames'[t]) # {} <=> sent_fin'[t]
             /\ sent_fin'[t] => closed'[t]
  <2> DEFINE n == Payload(s)
             new == [off |-> off[s], data |-> Data(s, n), fin |-> Fin(s, n)]
             fs == frames[s]
             gs == frames'[s]
             m == Len(fs)
  <2>1. /\ gs = IF n = 0 /\ ~Fin(s, n) THEN fs ELSE Append(fs, new)
        /\ sent_fin'[s] <=> (sent_fin[s] \/ Fin(s, n))
        /\ closed' = closed
    <3>1. sent_fin' = [sent_fin EXCEPT ![s] = sent_fin[s] \/ Fin(s, n)]
      BY <1>4 DEF AppendFrame
    <3>2. sent_fin \in [Streams -> BOOLEAN] /\ frames \in [Streams -> Seq(Frame)]
      BY DEF TypeOK
    <3> QED
      BY <1>4, <3>1, <3>2 DEF AppendFrame
  <2>2. Fin(s, n) => closed[s] /\ ~sent_fin[s]
    BY DEF Fin
  <2>3. CASE n = 0 /\ ~Fin(s, n)
    BY <1>4, <1>i, <2>1, <2>3
  <2>4. CASE ~ (n = 0 /\ ~Fin(s, n))
    <3>1. fs \in Seq(Frame) /\ n \in Nat /\ Fin(s, n) \in BOOLEAN
      BY PayloadIs DEF TypeOK, Fin
    <3>2. new \in Frame
      BY <3>1, DataType DEF Frame, TypeOK
    <3>3. new.fin = Fin(s, n)
      OBVIOUS
    <3> HIDE DEF new, n
    <3>4. /\ m \in Nat /\ DOMAIN fs = 1 .. m /\ DOMAIN gs = 1 .. m + 1
          /\ \A i \in 1 .. m : gs[i] = fs[i]
          /\ gs[m + 1] = new
      <4>1. /\ Append(fs, new) \in Seq(Frame)
            /\ Len(Append(fs, new)) = m + 1
            /\ \A i \in 1 .. m : Append(fs, new)[i] = fs[i]
            /\ Append(fs, new)[m + 1] = new
        BY <3>1, <3>2, AppendProperties
      <4> QED
        BY <2>1, <2>4, <3>1, <4>1, LenProperties
    <3> HIDE DEF fs, gs, m
    <3>5. Fins(gs) = Fins(fs) \cup (IF Fin(s, n) THEN {m + 1} ELSE {})
      <4>1. \A i \in 1 .. m : i \in 1 .. m + 1
        BY <3>4
      <4>2. m + 1 \in 1 .. m + 1 /\ m + 1 \notin 1 .. m
        BY <3>4
      <4>3. \A i \in 1 .. m + 1 : i \in 1 .. m \/ i = m + 1
        BY <3>4
      <4>4. \A i : i \in Fins(gs) <=> i \in Fins(fs) \/ (Fin(s, n) /\ i = m + 1)
        BY <3>3, <3>4, <4>1, <4>2, <4>3
      <4> QED
        BY <4>4
    <3>6. Fin(s, n) => Fins(fs) = {}
      BY <1>4, <1>i, <2>2 DEF fs
    <3>7. /\ \A i, j \in Fins(fs) : i = j
          /\ Fins(fs) # {} <=> sent_fin[s]
          /\ sent_fin[s] => closed[s]
      BY <1>4, <1>i DEF fs
    <3>8. \A i, j \in Fins(gs) : i = j
      BY <3>5, <3>6, <3>7
    <3>9. Fins(gs) # {} <=> sent_fin'[s]
      BY <2>1, <3>5, <3>7
    <3>10. sent_fin'[s] => closed'[s]
      BY <2>1, <2>2, <3>7
    <3> QED
      BY <1>4, <3>8, <3>9, <3>10 DEF gs
  <2> QED
    BY <2>3, <2>4
<1> QED
  BY <1>1, <1>3, <1>4, QuietKeeps DEF Step, AppendNothing, MaxStreamData

-----------------------------------------------------------------------------
(***************************************************************************)
(* What the frames carry.                                                  *)
(***************************************************************************)
\* A byte is the number of its write and its place in it.
Byte == Nat \X Nat

\* A longer prefix of a write is the shorter one and the bytes that follow it.
LEMMA PrefixGrows ==
    ASSUME NEW w \in Nat, NEW p \in Nat, NEW n \in Nat
    PROVE  /\ Prefix(w, p) \in Seq(Byte) /\ Len(Prefix(w, p)) = p
           /\ Prefix(w, p + n) = Prefix(w, p) \o [i \in 1 .. n |-> <<w, p + i>>]
<1> DEFINE a == Prefix(w, p)
           b == [i \in 1 .. n |-> <<w, p + i>>]
           c == Prefix(w, p + n)
<1>1. a \in Seq(Byte) /\ Len(a) = p /\ \A i \in 1 .. p : a[i] = <<w, i>>
  BY DEF Prefix, Byte
<1>2. b \in Seq(Byte) /\ Len(b) = n /\ \A i \in 1 .. n : b[i] = <<w, p + i>>
  <2>1. \A i \in 1 .. n : <<w, p + i>> \in Byte
    BY DEF Byte
  <2> QED
    BY <2>1
<1>3. c \in Seq(Byte) /\ Len(c) = p + n /\ \A i \in 1 .. p + n : c[i] = <<w, i>>
  BY DEF Prefix, Byte
<1> HIDE DEF a, b, c
<1>4. /\ a \o b \in Seq(Byte) /\ Len(a \o b) = p + n
      /\ \A i \in 1 .. p + n : (a \o b)[i] = IF i <= p THEN a[i] ELSE b[i - p]
  BY <1>1, <1>2, ConcatProperties
<1>5. ASSUME NEW i \in 1 .. p + n PROVE c[i] = (a \o b)[i]
  <2>1. CASE i <= p
    <3>1. i \in 1 .. p
      BY <2>1
    <3> QED
      BY <1>1, <1>3, <1>4, <2>1, <3>1
  <2>2. CASE ~ (i <= p)
    <3>1. i - p \in 1 .. n /\ p + (i - p) = i
      BY <2>2
    <3> QED
      BY <1>2, <1>3, <1>4, <2>2, <3>1
  <2> QED
    BY <2>1, <2>2
<1>6. c = a \o b
  BY <1>3, <1>4, <1>5, SeqEqual
<1> QED
  BY <1>1, <1>6 DEF a, b, c

\* How far a write got is a number.
LEMMA ProgressType ==
    ASSUME TypeOK, Readers, NEW s \in Streams, NEW w \in 1 .. writes[s]
    PROVE  w \in Nat /\ Progress(s, w) \in Nat
<1>1. /\ writes[s] \in Nat /\ len[s] \in Nat /\ reader_len[s] \in Nat
      /\ reader_len[s] <= len[s] /\ reported[s] \in Seq(Nat)
  BY DEF TypeOK, Readers
<1>2. Pos(s) \in Nat
  BY <1>1 DEF Pos
<1> QED
  BY <1>1, <1>2, SMTT(60) DEF Progress

\* There is one list of bytes for each write.
LEMMA ToldType ==
    ASSUME TypeOK, Readers, NEW s \in Streams
    PROVE  Told(s) \in Seq(Seq(Byte)) /\ Len(Told(s)) = writes[s]
<1>1. writes[s] \in Nat
  BY DEF TypeOK
<1>2. \A w \in 1 .. writes[s] : Prefix(w, Progress(s, w)) \in Seq(Byte)
  BY ProgressType, PrefixGrows
<1> QED
  BY <1>1, <1>2 DEF Told

\* The data of a list of frames.
Datas(fs) == [i \in DOMAIN fs |-> fs[i].data]

\* There is one list of bytes for each frame.
LEMMA DatasType ==
    ASSUME NEW fs \in Seq(Frame)
    PROVE  /\ Datas(fs) \in Seq(Seq(Byte)) /\ Len(Datas(fs)) = Len(fs)
           /\ FlattenSeq(Datas(fs)) \in Seq(Byte)
<1>1. Len(fs) \in Nat /\ DOMAIN fs = 1 .. Len(fs)
  OBVIOUS
<1>2. \A i \in 1 .. Len(fs) : fs[i] \in Frame
  BY ElementOfSeq
<1>3. \A i \in 1 .. Len(fs) : fs[i].data \in Seq(Byte)
  BY <1>2 DEF Frame, Byte
<1>4. Datas(fs) \in Seq(Seq(Byte)) /\ Len(Datas(fs)) = Len(fs)
  BY <1>1, <1>3 DEF Datas
<1> QED
  BY <1>4, FlattenType

\* One more frame is one more list of bytes.
LEMMA DatasAppend ==
    ASSUME NEW fs \in Seq(Frame), NEW f \in Frame
    PROVE  Datas(Append(fs, f)) = Append(Datas(fs), f.data)
<1> DEFINE n == Len(fs)
           gs == Append(fs, f)
<1>1. /\ n \in Nat /\ DOMAIN fs = 1 .. n /\ gs \in Seq(Frame) /\ Len(gs) = n + 1
      /\ DOMAIN gs = 1 .. n + 1
      /\ \A i \in 1 .. n : gs[i] = fs[i]
      /\ gs[n + 1] = f
  BY AppendProperties, LenProperties
<1> HIDE DEF gs, n
<1>2. f.data \in Seq(Byte)
  BY DEF Frame, Byte
<1>3. /\ Datas(fs) \in Seq(Seq(Byte)) /\ Len(Datas(fs)) = n
      /\ \A i \in 1 .. n : Datas(fs)[i] = fs[i].data
  BY <1>1, DatasType DEF Datas, n
<1>4. /\ Datas(gs) \in Seq(Seq(Byte)) /\ Len(Datas(gs)) = n + 1
      /\ \A i \in 1 .. n + 1 : Datas(gs)[i] = gs[i].data
  BY <1>1, DatasType DEF Datas
<1> DEFINE d == Append(Datas(fs), f.data)
<1>5. /\ d \in Seq(Seq(Byte)) /\ Len(d) = n + 1
      /\ \A i \in 1 .. n : d[i] = Datas(fs)[i]
      /\ d[n + 1] = f.data
  BY <1>2, <1>3, AppendProperties
<1> HIDE DEF d
<1>6. ASSUME NEW i \in 1 .. n + 1 PROVE Datas(gs)[i] = d[i]
  <2>1. CASE i = n + 1
    BY <1>1, <1>4, <1>5, <2>1
  <2>2. CASE i # n + 1
    <3>1. i \in 1 .. n
      BY <1>1, <2>2
    <3> QED
      BY <1>1, <1>3, <1>4, <1>5, <3>1, ZenonT(90)
  <2> QED
    BY <2>1, <2>2
<1>7. Datas(gs) = d
  BY <1>4, <1>5, <1>6, SeqEqual
<1> QED
  BY <1>7 DEF gs, d

\* What the writes are told depends on their number and progress alone.
LEMMA SameTold ==
    ASSUME NEW s \in Streams, writes'[s] = writes[s],
           \A w \in 1 .. writes[s] : Progress(s, w)' = Progress(s, w)
    PROVE  Told(s)' = Told(s)
  BY DEF Told, Prefix

\* Steps that generate no frame and tell a write what it was shown already.
LEMMA NothingSent ==
    ASSUME NEW s \in Streams, CarriedBy(s), frames'[s] = frames[s], off'[s] = off[s],
           FlattenSeq(Told(s)') = FlattenSeq(Told(s)),
           writes'[s] = Len(reported'[s]) + (IF writer'[s] = "idle" THEN 0 ELSE 1)
    PROVE  CarriedBy(s)'
<1>1. Sent(s)' = Sent(s) /\ (OffsetsAreLengths(s)' <=> OffsetsAreLengths(s))
  BY DEF Sent, OffsetsAreLengths
<1>2. FlattenSeq(Told(s))' = FlattenSeq(Told(s)')
  BY DEF FlattenSeq
<1> QED
  BY <1>1, <1>2 DEF CarriedBy

\* The list of the prefixes of W writes, P[w] bytes of the w-th.
PrefixList(W, P) == [w \in 1 .. W |-> Prefix(w, P[w])]

\* The progress of one more write appends its prefix.
LEMMA LastPrefix ==
    ASSUME NEW W \in Nat, NEW P \in [1 .. W + 1 -> Nat], NEW Q \in [1 .. W -> Nat],
           \A w \in 1 .. W : P[w] = Q[w]
    PROVE  /\ PrefixList(W, Q) \in Seq(Seq(Byte))
           /\ Prefix(W + 1, P[W + 1]) \in Seq(Byte)
           /\ PrefixList(W + 1, P) = Append(PrefixList(W, Q), Prefix(W + 1, P[W + 1]))
<1> DEFINE a == PrefixList(W, Q)
           x == Prefix(W + 1, P[W + 1])
           b == Append(a, x)
           c == PrefixList(W + 1, P)
<1>1. \A w \in 1 .. W + 1 : w \in Nat /\ P[w] \in Nat /\ Prefix(w, P[w]) \in Seq(Byte)
  <2>1. \A w \in 1 .. W + 1 : w \in Nat /\ P[w] \in Nat
    OBVIOUS
  <2> QED
    BY <2>1, PrefixGrows
<1>2. W + 1 \in 1 .. W + 1 /\ \A w \in 1 .. W : w \in 1 .. W + 1
  OBVIOUS
<1>3. x \in Seq(Byte)
  BY <1>1, <1>2
<1>4. a \in Seq(Seq(Byte)) /\ Len(a) = W /\ \A w \in 1 .. W : a[w] = Prefix(w, P[w])
  <2>1. \A w \in 1 .. W : Prefix(w, Q[w]) \in Seq(Byte)
    BY <1>1, <1>2
  <2> QED
    BY <2>1 DEF PrefixList
<1>5. /\ c \in Seq(Seq(Byte)) /\ Len(c) = W + 1
      /\ \A w \in 1 .. W + 1 : c[w] = Prefix(w, P[w])
  BY <1>1 DEF PrefixList
<1> HIDE DEF a, c
<1>6. /\ b \in Seq(Seq(Byte)) /\ Len(b) = W + 1
      /\ \A w \in 1 .. W : b[w] = a[w]
      /\ b[W + 1] = x
  BY <1>3, <1>4, AppendProperties
<1> HIDE DEF b
<1>7. ASSUME NEW w \in 1 .. W + 1 PROVE c[w] = b[w]
  <2>1. CASE w = W + 1
    BY <1>5, <1>6, <2>1
  <2>2. CASE w # W + 1
    <3>1. w \in 1 .. W
      BY <2>2
    <3> QED
      BY <1>4, <1>5, <1>6, <3>1
  <2> QED
    BY <2>1, <2>2
<1>8. c = b
  BY <1>5, <1>6, <1>7, SeqEqual
<1> QED
  BY <1>3, <1>4, <1>8 DEF a, b, c

\* The first no bytes of a write.
LEMMA EmptyPrefix == ASSUME NEW w \in Nat PROVE Prefix(w, 0) = <<>>
  BY PrefixGrows, EmptySeq

\* A write that begins has sent nothing.
LEMMA CarriedWrite ==
    ASSUME TypeOK, Readers, NEW s \in Streams, CarriedBy(s), NEW n \in WriteLens, Write(s, n)
    PROVE  CarriedBy(s)'
<1> DEFINE W == writes[s]
           Q == [w \in 1 .. W |-> Progress(s, w)]
           P == [w \in 1 .. W + 1 |-> IF w = W + 1 THEN 0 ELSE Progress(s, w)]
<1>1. /\ W \in Nat /\ writes'[s] = W + 1 /\ writer[s] = "idle" /\ writer'[s] = "joined"
      /\ reported' = reported /\ frames' = frames /\ off' = off
      /\ reported[s] \in Seq(Nat) /\ Len(reported[s]) = W
  BY DEF Write, TypeOK, CarriedBy, history, stream
<1>2. \A w \in 1 .. W : Progress(s, w) \in Nat
  BY ProgressType
<1>3. \A w \in 1 .. W + 1 : Progress(s, w)' = P[w]
  BY <1>1 DEF Progress
<1>4. Told(s) = PrefixList(W, Q)
  BY DEF Told, PrefixList
<1>5. Told(s)' = PrefixList(W + 1, P)
  BY <1>1, <1>3 DEF Told, PrefixList, Prefix
<1>6. P \in [1 .. W + 1 -> Nat] /\ Q \in [1 .. W -> Nat] /\ P[W + 1] = 0
  BY <1>1, <1>2
<1>7. \A w \in 1 .. W : P[w] = Q[w]
  BY <1>1
<1> HIDE DEF P, Q, W
<1>8. /\ PrefixList(W, Q) \in Seq(Seq(Byte))
      /\ PrefixList(W + 1, P) = Append(PrefixList(W, Q), <<>>)
  <2>1. /\ PrefixList(W, Q) \in Seq(Seq(Byte))
        /\ PrefixList(W + 1, P) = Append(PrefixList(W, Q), Prefix(W + 1, P[W + 1]))
    BY <1>1, <1>6, <1>7, LastPrefix
  <2>2. Prefix(W + 1, 0) = <<>>
    BY <1>1, EmptyPrefix
  <2> QED
    BY <1>6, <2>1, <2>2
<1>9. FlattenSeq(PrefixList(W + 1, P)) = FlattenSeq(PrefixList(W, Q))
  <2>1. <<>> \in Seq(Byte)
    BY EmptySeq
  <2>2. FlattenSeq(PrefixList(W + 1, P)) = FlattenSeq(PrefixList(W, Q)) \o <<>>
    BY <1>8, <2>1, FlattenAppend
  <2> QED
    BY <1>8, <2>2, FlattenType, ConcatEmptySeq
<1>10. FlattenSeq(Told(s)') = FlattenSeq(Told(s))
  BY <1>4, <1>5, <1>9
<1> QED
  BY <1>1, <1>10, NothingSent DEF W

\* A step that moves neither frames nor progress keeps what they carry.
LEMMA SameProgress ==
    ASSUME NEW s \in Streams, CarriedBy(s), frames'[s] = frames[s], off'[s] = off[s],
           writes'[s] = writes[s],
           \A w \in 1 .. writes[s] : Progress(s, w)' = Progress(s, w),
           writes'[s] = Len(reported'[s]) + (IF writer'[s] = "idle" THEN 0 ELSE 1)
    PROVE  CarriedBy(s)'
<1>1. Told(s)' = Told(s)
  BY SameTold
<1> QED
  BY <1>1, NothingSent

\* A write that ends is told what was shown of it, and counted as over.
LEMMA CarriedFinish ==
    ASSUME TypeOK, Readers, NEW s \in Streams, CarriedBy(s), NEW pos \in Nat, Finish(s, pos),
           writer[s] # "idle", pos = Progress(s, writes[s]),
           UNCHANGED <<len, off, frames, writes>>
    PROVE  CarriedBy(s)'
<1> DEFINE m == Len(reported[s])
<1>1. /\ m \in Nat /\ writes[s] = m + 1 /\ reported[s] \in Seq(Nat)
      /\ reported'[s] = Append(reported[s], pos) /\ writer'[s] = "idle"
  <2>1. writes[s] = m + 1
    <3>1. writes[s] = Len(reported[s]) + (IF writer[s] = "idle" THEN 0 ELSE 1)
      BY DEF CarriedBy
    <3> QED
      BY <3>1
  <2>2. reported[s] \in Seq(Nat) /\ m \in Nat
    BY LenProperties DEF TypeOK
  <2>3. reported'[s] = Append(reported[s], pos) /\ writer'[s] = "idle"
    BY DEF TypeOK, Finish
  <2> QED
    BY <2>1, <2>2, <2>3
<1>2. /\ Len(reported'[s]) = m + 1
      /\ \A i \in 1 .. m : reported'[s][i] = reported[s][i]
      /\ reported'[s][m + 1] = pos
  BY <1>1, AppendProperties
<1> HIDE DEF m
<1>3. ASSUME NEW w \in 1 .. writes[s] PROVE Progress(s, w)' = Progress(s, w)
  <2>1. w \in Nat /\ w <= m + 1 /\ Progress(s, w)' = reported'[s][w]
    BY <1>1, <1>2, <1>3 DEF Progress
  <2>2. CASE w = m + 1
    BY <1>1, <1>2, <2>1, <2>2
  <2>3. CASE w # m + 1
    <3>1. w \in 1 .. m /\ w <= m
      BY <1>1, <1>3, <2>1, <2>3
    <3>2. Progress(s, w) = reported[s][w]
      BY <3>1 DEF Progress, m
    <3> QED
      BY <1>2, <2>1, <3>1, <3>2
  <2> QED
    BY <2>2, <2>3
<1>4. writes'[s] = Len(reported'[s]) + (IF writer'[s] = "idle" THEN 0 ELSE 1)
  BY <1>1, <1>2
<1> QED
  BY <1>3, <1>4, SameProgress

\* A step that ends no write and begins none leaves what is told alone.
LEMMA CarriedUntold ==
    ASSUME TypeOK, Readers, NEW s \in Streams, CarriedBy(s),
           UNCHANGED <<off, frames, writes, reported, len>>,
           writer'[s] = "idle" <=> writer[s] = "idle",
           \/ /\ writer'[s] = "joined" <=> writer[s] = "joined"
              /\ reader_len' = reader_len
           \/ /\ writer[s] = "joined" /\ writer'[s] # "joined"
              /\ reader_len'[s] = len[s]
    PROVE  CarriedBy(s)'
<1>1. ASSUME NEW w \in 1 .. writes[s] PROVE Progress(s, w)' = Progress(s, w)
  <2>1. len[s] \in Nat
    BY DEF TypeOK
  <2> QED
    BY <2>1 DEF Progress, Pos
<1>2. writes'[s] = Len(reported'[s]) + (IF writer'[s] = "idle" THEN 0 ELSE 1)
  BY DEF CarriedBy
<1> QED
  BY <1>1, <1>2, SameProgress

\* Every step but the generation of a frame keeps what the frames carry.
LEMMA CarriedQuiet ==
    ASSUME TypeOK, Queued, Readers, NEW s \in Streams, CarriedBy(s), Step(s),
           ~ AppendFrame(s)
    PROVE  CarriedBy(s)'
<1> USE DEF stream, flowctrl, framer, history
<1>t. /\ writer \in [Streams -> {"idle", "joined", "adding", "parking", "waiting",
                                 "selecting", "woken"}]
      /\ len \in [Streams -> Nat] /\ reader_len \in [Streams -> Nat]
      /\ reader_len[s] <= len[s]
  BY DEF TypeOK, Readers
<1>w. /\ writes[s] \in Nat /\ writes[s] = Len(reported[s]) + (IF writer[s] = "idle" THEN 0 ELSE 1)
      /\ Len(reported[s]) \in Nat
  BY DEF TypeOK, CarriedBy
<1>1. CASE \E n \in WriteLens : Write(s, n)
  BY <1>1, CarriedWrite
<1>2. CASE Start(s)
  <2>1. CASE GivesUp(s, len[s])
    <3>1. /\ Finish(s, 0) /\ writer[s] = "joined"
          /\ UNCHANGED <<len, off, frames, writes>>
      BY <1>2, <2>1 DEF Start
    <3>2. Progress(s, writes[s]) = 0
      BY <1>w, <3>1 DEF Progress
    <3> QED
      BY <3>1, <3>2, CarriedFinish
  <2>2. CASE ~ GivesUp(s, len[s])
    <3>1. /\ writer[s] = "joined" /\ writer'[s] = "adding" /\ reader_len'[s] = len[s]
          /\ UNCHANGED <<off, frames, writes, reported, len>>
      BY <1>2, <1>t, <2>2 DEF Start
    <3> QED
      BY <3>1, CarriedUntold
  <2> QED
    BY <2>1, <2>2
<1>3. CASE Wait(s)
  <2>1. /\ writer[s] \notin {"idle", "joined"} /\ writer'[s] \notin {"idle", "joined"}
        /\ UNCHANGED <<off, frames, writes, reported, len, reader_len>>
    BY <1>3, <1>t DEF Wait
  <2> QED
    BY <2>1, CarriedUntold
<1>4. CASE Resume(s)
  <2>1. CASE GivesUp(s, reader_len[s])
    <3>1. /\ Finish(s, Pos(s)) /\ writer[s] = "woken"
          /\ UNCHANGED <<len, off, frames, writes>>
      BY <1>4, <2>1 DEF Resume
    <3>2. Progress(s, writes[s]) = Pos(s)
      BY <1>w, <3>1 DEF Progress
    <3>3. Pos(s) \in Nat
      BY <1>t DEF Pos
    <3> QED
      BY <3>1, <3>2, <3>3, CarriedFinish
  <2>2. CASE ~ GivesUp(s, reader_len[s])
    <3>1. /\ writer[s] = "woken" /\ writer'[s] = "parking"
          /\ UNCHANGED <<off, frames, writes, reported, len, reader_len>>
      BY <1>4, <1>t, <2>2 DEF Resume
    <3> QED
      BY <3>1, CarriedUntold
  <2> QED
    BY <2>1, <2>2
<1>5. CASE TimerFires(s)
  <2>1. /\ writer[s] = "selecting" /\ writer'[s] = "woken"
        /\ UNCHANGED <<off, frames, writes, reported, len, reader_len>>
    BY <1>5, <1>t DEF TimerFires
  <2> QED
    BY <2>1, CarriedUntold
<1>6. CASE /\ Notify(s) \/ UNCHANGED writer
           /\ UNCHANGED <<off, frames, writes, reported, len, reader_len>>
  <2>1. /\ writer'[s] = "idle" <=> writer[s] = "idle"
        /\ writer'[s] = "joined" <=> writer[s] = "joined"
    BY <1>6, NotifiedIs
  <2> QED
    BY <1>6, <2>1, CarriedUntold
<1> QED
  BY <1>1, <1>2, <1>3, <1>4, <1>5, <1>6
     DEF Step, QuietStep, SetDeadline, DeadlinePasses, CloseMark, CloseAdd, CloseNotify,
         AppendNothing, MaxStreamData

\* A frame shows the write of its stream the bytes it carries.
LEMMA ToldOfFrame ==
    ASSUME TypeOK, Readers, Flow, NEW s \in Streams, CarriedBy(s),
           NEW n \in Nat, n <= reader_len[s],
           reader_len' = [reader_len EXCEPT ![s] = reader_len[s] - n],
           Notify(s) \/ UNCHANGED writer,
           UNCHANGED <<len, writes, reported>>
    PROVE  FlattenSeq(Told(s)') = FlattenSeq(Told(s)) \o Data(s, n)
<1>t. /\ len[s] \in Nat /\ reader_len[s] \in Nat /\ reader_len[s] <= len[s]
      /\ reader_len'[s] = reader_len[s] - n
      /\ reported[s] \in Seq(Nat) /\ Len(reported[s]) \in Nat
      /\ writes[s] \in Nat
      /\ writer[s] \in {"idle", "joined"} => reader_len[s] = 0
  BY DEF TypeOK, Readers
<1>w. writes[s] = Len(reported[s]) + (IF writer[s] = "idle" THEN 0 ELSE 1)
  BY DEF CarriedBy
<1>n. /\ writer'[s] = "idle" <=> writer[s] = "idle"
      /\ writer'[s] = "joined" <=> writer[s] = "joined"
  BY NotifiedIs
<1>1. CASE writer[s] \in {"idle", "joined"}
  <2>1. n = 0
    BY <1>t, <1>1
  <2>2. ASSUME NEW w \in 1 .. writes[s] PROVE Progress(s, w)' = Progress(s, w)
    BY <1>t, <1>w, <1>n, <1>1, <2>1 DEF Progress, Pos
  <2>3. Told(s)' = Told(s)
    BY <2>2, SameTold
  <2>4. Data(s, n) = <<>>
    BY <2>1, DataType, EmptySeq
  <2>5. FlattenSeq(Told(s)) \in Seq(Byte)
    BY ToldType, FlattenType
  <2> QED
    BY <2>3, <2>4, <2>5, ConcatEmptySeq
<1>2. CASE writer[s] \notin {"idle", "joined"}
  <2> DEFINE m == Len(reported[s])
             p == Pos(s)
             Q == [w \in 1 .. m |-> reported[s][w]]
             P == [w \in 1 .. m + 1 |-> Progress(s, w)]
             R == [w \in 1 .. m + 1 |-> IF w = m + 1 THEN p + n ELSE reported[s][w]]
  <2>1. /\ m \in Nat /\ writes[s] = m + 1
        /\ p \in Nat /\ p + n \in Nat /\ p = len[s] - reader_len[s]
    <3>1. m \in Nat /\ writes[s] = m + 1
      BY <1>t, <1>w, <1>2
    <3>2. p = len[s] - reader_len[s]
      BY DEF Pos
    <3> HIDE DEF p
    <3>3. p \in Nat /\ p + n \in Nat
      BY <1>t, <3>2
    <3> QED
      BY <3>1, <3>2, <3>3
  <2>2. \A w \in 1 .. m : reported[s][w] \in Nat
    BY <1>t, ElementOfSeq
  <2>3. Progress(s, m + 1) = p
    BY <1>2, <2>1 DEF Progress
  <2>4. \A w \in 1 .. m : Progress(s, w) = reported[s][w]
    BY <2>1 DEF Progress
  <2>5. ASSUME NEW w \in 1 .. m + 1 PROVE Progress(s, w)' = R[w]
    <3>1. CASE w = m + 1
      <4>1. Progress(s, w)' = Pos(s)'
        BY <1>n, <1>2, <2>1, <3>1 DEF Progress
      <4>2. Pos(s)' = p + n
        BY <1>t, <2>1 DEF Pos
      <4> QED
        BY <3>1, <4>1, <4>2
    <3>2. CASE w # m + 1
      BY <2>1, <3>2, SMTT(60) DEF Progress
    <3> QED
      BY <3>1, <3>2
  <2>6. Told(s) = PrefixList(m + 1, P)
    BY <2>1 DEF Told, PrefixList
  <2>7. Told(s)' = PrefixList(m + 1, R)
    BY <2>1, <2>5 DEF Told, PrefixList, Prefix
  <2>8. /\ Q \in [1 .. m -> Nat] /\ P \in [1 .. m + 1 -> Nat] /\ R \in [1 .. m + 1 -> Nat]
        /\ P[m + 1] = p /\ R[m + 1] = p + n
        /\ \A w \in 1 .. m : P[w] = Q[w] /\ R[w] = Q[w]
    <3>1. \A w \in 1 .. m + 1 : w = m + 1 \/ w \in 1 .. m
      BY <2>1
    <3>2. \A w \in 1 .. m : w \in 1 .. m + 1 /\ w # m + 1
      BY <2>1
    <3>3. m + 1 \in 1 .. m + 1
      BY <2>1
    <3> QED
      BY <2>1, <2>2, <2>3, <2>4, <3>1, <3>2, <3>3
  <2>9. Data(s, n) = [i \in 1 .. n |-> <<m + 1, p + i>>]
    BY <2>1 DEF Data
  <2> HIDE DEF m, p, P, Q, R
  <2>10. /\ PrefixList(m, Q) \in Seq(Seq(Byte))
         /\ Prefix(m + 1, p) \in Seq(Byte)
         /\ PrefixList(m + 1, P) = Append(PrefixList(m, Q), Prefix(m + 1, p))
    BY <2>1, <2>8, LastPrefix
  <2>11. /\ Prefix(m + 1, p + n) \in Seq(Byte)
         /\ PrefixList(m + 1, R) = Append(PrefixList(m, Q), Prefix(m + 1, p + n))
    BY <2>1, <2>8, LastPrefix
  <2>12. Prefix(m + 1, p + n) = Prefix(m + 1, p) \o Data(s, n)
    <3>1. PICK w \in Nat : w = m + 1
      BY <2>1
    <3>2. Prefix(w, p + n) = Prefix(w, p) \o [i \in 1 .. n |-> <<w, p + i>>]
      BY <2>1, PrefixGrows, ZenonT(60)
    <3>3. Data(s, n) = [i \in 1 .. n |-> <<w, p + i>>]
      BY <2>9, <3>1
    <3> QED
      BY <3>1, <3>2, <3>3
  <2> DEFINE a == FlattenSeq(PrefixList(m, Q))
  <2>13. a \in Seq(Byte) /\ Data(s, n) \in Seq(Byte)
    BY <2>10, FlattenType, DataType DEF Byte
  <2>14. /\ FlattenSeq(Told(s)) = a \o Prefix(m + 1, p)
         /\ FlattenSeq(Told(s)') = a \o Prefix(m + 1, p + n)
    BY <2>6, <2>7, <2>10, <2>11, FlattenAppend
  <2> HIDE DEF a
  <2>15. a \o (Prefix(m + 1, p) \o Data(s, n)) = (a \o Prefix(m + 1, p)) \o Data(s, n)
    BY <2>10, <2>13, ConcatAssociative, SMTT(60)
  <2> QED
    BY <2>12, <2>14, <2>15
<1> QED
  BY <1>1, <1>2

\* A generated frame carries what the write in progress advances by.
LEMMA CarriedFrame ==
    ASSUME TypeOK, Readers, Flow, NEW s \in Streams, CarriedBy(s),
           AppendFrame(s)
    PROVE  CarriedBy(s)'
<1> DEFINE n == Payload(s)
           d == Data(s, n)
           new == [off |-> off[s], data |-> d, fin |-> Fin(s, n)]
           fs == frames[s]
           gs == frames'[s]
           m == Len(fs)
<1>t. /\ fs \in Seq(Frame) /\ m \in Nat /\ DOMAIN fs = 1 .. m
      /\ off[s] \in Nat
      /\ n \in Nat /\ n <= reader_len[s]
      /\ d \in Seq(Byte) /\ Len(d) = n
  BY PayloadIs, DataType, LenProperties DEF TypeOK, Byte
<1>1. /\ gs = IF n = 0 /\ ~Fin(s, n) THEN fs ELSE Append(fs, new)
      /\ off'[s] = off[s] + n
      /\ reader_len' = [reader_len EXCEPT ![s] = reader_len[s] - n]
      /\ Notify(s) \/ UNCHANGED writer
      /\ UNCHANGED <<len, writes, reported>>
  BY DEF AppendFrame, TypeOK
<1>2. new \in Frame /\ new.data = d /\ new.off = off[s]
  <2>1. Fin(s, n) \in BOOLEAN
    BY DEF Fin
  <2> QED
    BY <1>t, <2>1 DEF Frame, Byte
<1>3. FlattenSeq(Told(s)') = FlattenSeq(Told(s)) \o d
  BY <1>t, <1>1, ToldOfFrame
<1>4. /\ off[s] = Len(Sent(s)) /\ Sent(s) = FlattenSeq(Told(s)) /\ OffsetsAreLengths(s)
      /\ writes[s] = Len(reported[s]) + (IF writer[s] = "idle" THEN 0 ELSE 1)
  BY DEF CarriedBy
<1>5. Sent(s) = FlattenSeq(Datas(fs)) /\ Sent(s)' = FlattenSeq(Datas(gs))
  BY DEF Sent, Datas
<1> HIDE DEF n, d, new, fs, gs
<1>6. FlattenSeq(Datas(gs)) = FlattenSeq(Datas(fs)) \o d
  <2>1. Datas(fs) \in Seq(Seq(Byte)) /\ FlattenSeq(Datas(fs)) \in Seq(Byte)
    BY <1>t, DatasType
  <2>2. CASE n = 0 /\ ~Fin(s, n)
    <3>1. gs = fs /\ d = <<>>
      BY <1>t, <1>1, <2>2, EmptySeq
    <3> QED
      BY <2>1, <3>1, ConcatEmptySeq
  <2>3. CASE ~ (n = 0 /\ ~Fin(s, n))
    <3>1. Datas(gs) = Append(Datas(fs), d)
      BY <1>t, <1>1, <1>2, <2>3, DatasAppend
    <3> QED
      BY <1>t, <2>1, <3>1, FlattenAppend
  <2> QED
    BY <2>2, <2>3
<1>7. Len(FlattenSeq(Datas(gs))) = off[s] + n
  <2> DEFINE a == FlattenSeq(Datas(fs))
  <2>1. a \in Seq(Byte) /\ Len(a) = off[s]
    BY <1>t, <1>4, <1>5, DatasType
  <2> HIDE DEF a
  <2>2. Len(a \o d) = Len(a) + Len(d)
    BY <1>t, <2>1, ConcatProperties
  <2>3. FlattenSeq(Datas(gs)) = a \o d
    BY <1>6 DEF a
  <2> QED
    BY <1>t, <2>1, <2>2, <2>3
<1>8. \A i \in 1 .. m : fs[i].off = Len(FlattenSeq([j \in 1 .. i - 1 |-> fs[j].data]))
  BY <1>t, <1>4 DEF OffsetsAreLengths, fs
<1>9. \A i \in DOMAIN gs : gs[i].off = Len(FlattenSeq([j \in 1 .. i - 1 |-> gs[j].data]))
  <2>1. CASE n = 0 /\ ~Fin(s, n)
    BY <1>t, <1>1, <1>8, <2>1
  <2>2. CASE ~ (n = 0 /\ ~Fin(s, n))
    <3>1. /\ DOMAIN gs = 1 .. m + 1
          /\ \A i \in 1 .. m : gs[i] = fs[i]
          /\ gs[m + 1] = new
      <4>1. /\ Append(fs, new) \in Seq(Frame) /\ Len(Append(fs, new)) = m + 1
            /\ \A i \in 1 .. m : Append(fs, new)[i] = fs[i]
            /\ Append(fs, new)[m + 1] = new
        BY <1>t, <1>2, AppendProperties
      <4> QED
        BY <1>1, <2>2, <4>1, LenProperties
    <3> HIDE DEF m
    <3>2. ASSUME NEW i \in 1 .. m + 1
          PROVE  [j \in 1 .. i - 1 |-> gs[j].data] = [j \in 1 .. i - 1 |-> fs[j].data]
      <4>1. \A j \in 1 .. i - 1 : j \in 1 .. m
        BY <1>t, <3>2
      <4> QED
        BY <3>1, <4>1
    <3>3. ASSUME NEW i \in 1 .. m + 1
          PROVE  gs[i].off = Len(FlattenSeq([j \in 1 .. i - 1 |-> fs[j].data]))
      <4>1. CASE i = m + 1
        <5>1. i - 1 = m
          BY <1>t, <4>1
        <5>2. [j \in 1 .. i - 1 |-> fs[j].data] = Datas(fs)
          BY <1>t, <5>1 DEF Datas
        <5> QED
          BY <1>2, <1>4, <1>5, <3>1, <4>1, <5>2
      <4>2. CASE i # m + 1
        <5>1. i \in 1 .. m
          BY <1>t, <4>2
        <5> QED
          BY <1>8, <3>1, <5>1
      <4> QED
        BY <4>1, <4>2
    <3>4. ASSUME NEW i \in 1 .. m + 1
          PROVE  gs[i].off = Len(FlattenSeq([j \in 1 .. i - 1 |-> gs[j].data]))
      BY <3>2, <3>3
    <3> QED
      BY <3>1, <3>4
  <2> QED
    BY <2>1, <2>2
<1>10. OffsetsAreLengths(s)'
  BY <1>9 DEF OffsetsAreLengths, gs
<1>11. off'[s] = Len(Sent(s)') /\ Sent(s)' = FlattenSeq(Told(s)')
  BY <1>1, <1>3, <1>4, <1>5, <1>6, <1>7
<1>12. FlattenSeq(Told(s))' = FlattenSeq(Told(s)') /\ Len(Sent(s))' = Len(Sent(s)')
  BY DEF FlattenSeq
<1>13. writes'[s] = Len(reported'[s]) + (IF writer'[s] = "idle" THEN 0 ELSE 1)
  BY <1>1, <1>4, NotifiedIs
<1> QED
  BY <1>10, <1>11, <1>12, <1>13 DEF CarriedBy

\* Every step keeps the frames carrying what is reported.
LEMMA KeepsCarried ==
    ASSUME TypeOK, Queued, Readers, Flow, Carried, NEW s \in Streams, Step(s)
    PROVE  Carried'
<1> SUFFICES ASSUME NEW t \in Streams PROVE CarriedBy(t)'
  BY DEF Carried
<1>1. CarriedBy(t)
  BY DEF Carried
<1>2. CASE t # s
  <2>1. UNCHANGED Own(t)
    BY <1>2, OthersKeep
  <2>2. \A w \in 1 .. writes[t] : Progress(t, w)' = Progress(t, w)
    BY <2>1 DEF Own, Progress, Pos
  <2> QED
    BY <1>1, <2>1, <2>2, SameProgress DEF Own, CarriedBy
<1>3. CASE t = s /\ AppendFrame(s)
  BY <1>1, <1>3, CarriedFrame
<1>4. CASE t = s /\ ~ AppendFrame(s)
  BY <1>1, <1>4, CarriedQuiet
<1> QED
  BY <1>2, <1>3, <1>4

\* Every step of a stream keeps the coroutines out of the packing.
LEMMA KeepsPacking ==
    ASSUME TypeOK, Packing, NEW s \in Streams, Step(s)
    PROVE  Packing'
<1> SUFFICES ASSUME max_bytes' # NoPacket, NEW t \in Streams
             PROVE  writer'[t] \notin {"adding", "parking"}
  BY DEF Packing
<1>t. writer \in [Streams -> {"idle", "joined", "adding", "parking", "waiting",
                              "selecting", "woken"}]
  BY DEF TypeOK
<1>1. CASE Start(s) \/ Resume(s)
  BY <1>1 DEF Start, Resume, LoopIsFree
<1>2. CASE AppendNothing(s)
  BY <1>2 DEF AppendNothing
<1>3. CASE Notify(s) \/ UNCHANGED writer
  <2>1. \A u \in Streams : writer'[u] \in {writer[u], "woken"}
    BY <1>t, <1>3 DEF Notify, Notified
  <2>2. max_bytes # NoPacket \/ ~ AppendFrame(s)
    BY DEF AppendFrame
  <2>3. CASE max_bytes # NoPacket
    BY <2>1, <2>3 DEF Packing
  <2>4. CASE ~ Start(s) /\ ~ Resume(s) /\ ~ AppendNothing(s) /\ ~ AppendFrame(s)
    BY <2>1, <2>4 DEF Packing, Step, QuietStep, Write, Wait, TimerFires, SetDeadline,
                      DeadlinePasses, CloseMark, CloseAdd, CloseNotify, MaxStreamData
  <2> QED
    BY <1>1, <1>2, <2>2, <2>3, <2>4
<1>4. CASE \/ \E n \in WriteLens : Write(s, n)
           \/ Wait(s) \/ TimerFires(s)
  <2>1. /\ max_bytes' = max_bytes
        /\ \A u \in Streams : writer'[u] \in {writer[u], "joined", "waiting", "selecting", "woken"}
    BY <1>t, <1>4 DEF Write, Wait, TimerFires
  <2> QED
    BY <2>1 DEF Packing
<1> QED
  BY <1>1, <1>2, <1>3, <1>4 DEF Step, QuietStep, SetDeadline, DeadlinePasses, CloseMark,
                                CloseAdd, CloseNotify, AppendFrame, MaxStreamData

-----------------------------------------------------------------------------
(***************************************************************************)
(* The inductive invariant.                                                *)
(***************************************************************************)

\* The initial state has the invariant.
LEMMA InitIInv == Init => IInv
<1> SUFFICES ASSUME Init PROVE IInv
  OBVIOUS
<1> USE DEF Init
<1>1. TypeOK
  BY SizesAssumption DEF TypeOK
<1>2. Queued
  BY DEF Queued, NoRepetition, ToSet
<1>3. Readers
  BY DEF Readers
<1>4. Flow
  BY SizesAssumption DEF Flow
<1>5. DataIsActive
  BY DEF DataIsActive
<1>6. OneFin
  BY DEF OneFin
<1>7. Carried
  <2> SUFFICES ASSUME NEW s \in Streams PROVE CarriedBy(s)
    BY DEF Carried
  <2>1. Sent(s) = FlattenSeq(<<>>) /\ Told(s) = <<>>
    BY DEF Sent, Told
  <2>2. FlattenSeq(<<>>) = <<>>
    BY DEF FlattenSeq
  <2> QED
    BY <2>1, <2>2 DEF CarriedBy, OffsetsAreLengths
<1>8. Packing
  BY DEF Packing
<1> QED
  BY <1>1, <1>2, <1>3, <1>4, <1>5, <1>6, <1>7, <1>8 DEF IInv

\* Every step keeps it.
LEMMA NextIInv == IInv /\ [Next]_vars => IInv'
<1> SUFFICES ASSUME IInv, [Next]_vars PROVE IInv'
  OBVIOUS
<1> USE DEF IInv
<1>1. CASE \E s \in Streams : Step(s)
  <2>1. PICK s \in Streams : Step(s)
    BY <1>1
  <2>2. TypeOK' /\ Queued'
    BY <2>1, NextType, FramerStep
  <2>3. Readers' /\ Flow'
    BY <2>1, KeepsReaders, KeepsFlow
  <2>4. DataIsActive' /\ OneFin'
    BY <2>1, KeepsDataActive, KeepsOneFin
  <2>5. Carried' /\ Packing'
    BY <2>1, KeepsCarried, KeepsPacking
  <2> QED
    BY <2>2, <2>3, <2>4, <2>5
<1>2. CASE PacketStep \/ UNCHANGED vars
  <2>1. UNCHANGED <<writer, closer, stream, flowctrl, framer, history>>
    BY <1>2 DEF PacketStep, PackPacket, NoneIsActive, vars
  <2>a. max_bytes' \in Nat \cup {NoPacket} /\ Packing'
    <3>1. CASE \E room \in Rooms : PackPacket(room)
      BY <2>1, <3>1, SizesAssumption DEF PackPacket, LoopIsFree, Packing
    <3>2. CASE NoneIsActive
      BY <3>2 DEF NoneIsActive, Packing
    <3>3. CASE UNCHANGED vars
      BY <3>3 DEF vars, TypeOK, Packing
    <3> QED
      BY <1>2, <3>1, <3>2, <3>3 DEF PacketStep
  <2> USE <2>1 DEF stream, flowctrl, framer, history
  <2>2. TypeOK' /\ Queued' /\ Readers' /\ Flow'
    BY <2>a, ZenonT(60) DEF TypeOK, Queued, NoRepetition, ToSet, Readers, Flow
  <2>3. DataIsActive' /\ OneFin'
    BY DEF DataIsActive, OneFin
  <2>4. Carried'
    BY ZenonT(60) DEF Carried, CarriedBy, Sent, Told, Progress, Pos, Prefix, OffsetsAreLengths
  <2> QED
    BY <2>a, <2>2, <2>3, <2>4
<1> QED
  BY <1>1, <1>2, NextIsStep

\* So it always holds.
LEMMA Invariance == Spec => []IInv
  BY InitIInv, NextIInv, PTL DEF Spec

-----------------------------------------------------------------------------
(***************************************************************************)
(* The theorems.                                                           *)
(***************************************************************************)

\* The framer's set and its queue hold the same streams, each once, though the
\* event loop and the application's thread change them.
THEOREM QueueStaysTheSet == Spec => []QueueIsTheSet
<1>1. IInv => QueueIsTheSet
  BY DEF IInv, Queued, NoRepetition, QueueIsTheSet
<1> QED
  BY <1>1, Invariance, PTL

\* The frames of a stream carry its writes contiguously, in order, without
\* repetition, and of each exactly what its callback is told.
THEOREM FramesCarryTheWrites == Spec => []FramesCarryWhatIsReported
<1>1. IInv => FramesCarryWhatIsReported
  BY DEF IInv, Carried, CarriedBy, OffsetsAreLengths, Told, Prefix, FramesCarryWhatIsReported
<1> QED
  BY <1>1, Invariance, PTL

\* No frame goes past the limit in force, and no limit is reported twice.
THEOREM WindowIsRespected == Spec => []WithinWindow
<1>1. IInv => WithinWindow
  BY DEF IInv, Flow, WithinWindow
<1> QED
  BY <1>1, Invariance, PTL

\* A stream ends once, and not before it is closed.
THEOREM FinIsSentOnce == Spec => []OneFin
<1>1. IInv => OneFin
  BY DEF IInv
<1> QED
  BY <1>1, Invariance, PTL

\* A stream with data to send stays in the sender's sight.
THEOREM DataStaysActive == Spec => []DataIsActive
<1>1. IInv => DataIsActive
  BY DEF IInv
<1> QED
  BY <1>1, Invariance, PTL
=============================================================================
