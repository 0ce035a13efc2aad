-------------------------- MODULE AckExchangeProofs --------------------------
(***************************************************************************)
(* Proofs about Retransmission and about AckExchange, which extends it:    *)
(*                                                                         *)
(*  - the sender's half alone, for every set of frames, every set of ACK   *)
(*    frames none of whose blocks wraps, and every bound; IInv is its      *)
(*    inductive invariant, and each action has one lemma per part of it    *)
(*    the action can disturb;                                              *)
(*  - the two endpoints: a frame reported acknowledged was processed,      *)
(*    nothing is lost, and the exchange implements Delivery, for every set *)
(*    of frames and every loss, repetition and reordering.  The invariants *)
(*    of the two parts are taken over whole: IInv, and GP!IInv from        *)
(*    AckGeneratorProofs.                                                  *)
(***************************************************************************)
EXTENDS AckExchange, DataLemmas


-----------------------------------------------------------------------------
(***************************************************************************)
(* The operators the actions are built from.                               *)
(***************************************************************************)

\* The session's deadline and the alarm are times.
LEMMA EarlierType ==
    ASSUME NEW d \in Nat, NEW t \in Nat
    PROVE  /\ Earlier(d, t) \in Nat
           /\ t # 0 => Earlier(d, t) # 0 /\ Earlier(d, t) <= t
           /\ d # 0 => Earlier(d, t) # 0 /\ Earlier(d, t) <= d
  BY DEF Earlier

\* The loss alarm set from a send time, a timeout and a backoff is a time
\* (retransmission.h, the alarm helpers), and it is zero only with nothing in flight.
LEMMA AlarmType ==
    ASSUME NEW bytes, NEW sent \in Nat, NEW pto \in Nat \ {0}, NEW backoff \in Nat \ {0}
    PROVE  /\ AlarmAt(bytes, sent, pto, backoff) \in Nat
           /\ bytes # 0 => AlarmAt(bytes, sent, pto, backoff) # 0
<1>1. pto * backoff \in Nat /\ pto * backoff # 0
  BY SMT
<1> DEFINE wait == pto * backoff
<1>2. wait \in Nat /\ wait # 0
  BY <1>1
<1> HIDE DEF wait
<1>3. AlarmAt(bytes, sent, pto, backoff) = IF bytes = 0 THEN 0 ELSE sent + wait
  BY DEF AlarmAt, wait
<1> QED
  BY <1>2, <1>3

\* What find_newly_lost leaves in loss_time belongs to the oldest packet it kept.
LEMMA LossTimeType ==
    ASSUME TypeOK, NEW S \in SUBSET InFlight, NEW delay \in LostDelays
    PROVE  /\ LossTime(S, delay) \in Nat
           /\ LossTime(S, delay) # 0
                => \E n \in S : /\ LossTime(S, delay) = sent_mem[n].sent_time + delay
                                /\ \A m \in S : sent_mem[n].sent_time <= sent_mem[m].sent_time
<1>0. delay \in Nat \ {0}
  BY NumbersAssumption
<1>1. CASE S = {}
  BY <1>1 DEF LossTime
<1>2. CASE S # {}
  <2> DEFINE T == {sent_mem[n].sent_time + delay : n \in S}
  <2>1. \A n \in S : sent_mem[n].sent_time \in Nat
    BY DEF TypeOK, SentPacket
  <2>2. T \in SUBSET Nat /\ T # {}
    BY <1>0, <1>2, <2>1
  <2>3. Min(T) \in T /\ \A y \in T : Min(T) <= y
    BY <2>2, MinOfNats
  <2>4. PICK n \in S : Min(T) = sent_mem[n].sent_time + delay
    BY <2>3
  <2>5. LossTime(S, delay) = sent_mem[n].sent_time + delay
    BY <1>2, <2>4 DEF LossTime
  <2>6. \A m \in S : sent_mem[n].sent_time <= sent_mem[m].sent_time
    <3> TAKE m \in S
    <3>1. sent_mem[n].sent_time + delay <= sent_mem[m].sent_time + delay
      BY <2>3, <2>4
    <3> QED
      BY <1>0, <2>1, <3>1
  <2>7. LossTime(S, delay) \in Nat
    BY <1>0, <2>1, <2>5
  <2> QED
    BY <2>5, <2>6, <2>7
<1> QED
  BY <1>1, <1>2

\* So it is the deadline of a packet in flight when the others are gone.
LEMMA LossTimeOfKept ==
    ASSUME TypeOK, NEW S \in SUBSET InFlight, NEW delay \in LostDelays,
           sent_mem' = [n \in S |-> sent_mem[n]], loss_time' = LossTime(S, delay)
    PROVE  LossTimeIsOfAPacketInFlight'
<1>1. InFlight' = S /\ \A n \in S : sent_mem'[n] = sent_mem[n]
  BY DEF InFlight
<1>2. CASE loss_time' # 0
  <2>1. PICK n \in S : /\ loss_time' = sent_mem[n].sent_time + delay
                       /\ \A m \in S : sent_mem[n].sent_time <= sent_mem[m].sent_time
    BY <1>2, LossTimeType
  <2>2. IsOldest(n)'
    BY <1>1, <2>1 DEF IsOldest
  <2> QED
    BY <1>1, <2>1, <2>2 DEF LossTimeIsOfAPacketInFlight
<1> QED
  BY <1>2 DEF LossTimeIsOfAPacketInFlight

\* sent_mem holds finitely many packets.
LEMMA InFlightFinite ==
    ASSUME TypeOK
    PROVE  IsFiniteSet(InFlight)
<1>1. next \in Nat /\ InFlight \subseteq 0 .. next - 1
  BY DEF TypeOK
<1>2. IsFiniteSet(0 .. next - 1)
  BY <1>1, FS_Interval
<1> QED
  BY <1>1, <1>2, FS_Subset

-----------------------------------------------------------------------------
(***************************************************************************)
(* Type correctness.                                                       *)
(***************************************************************************)

\* Some of the packets in flight, unchanged, are packets in flight.
LEMMA KeptType ==
    ASSUME TypeOK, NEW kept \in SUBSET InFlight, sent_mem' = [n \in kept |-> sent_mem[n]]
    PROVE  /\ InFlight' = kept
           /\ InFlight' \subseteq 0 .. next - 1
           /\ sent_mem' \in [kept -> SentPacket]
<1>1. InFlight' = kept
  BY DEF InFlight
<1>2. \A n \in kept : sent_mem[n] \in SentPacket
  BY DEF TypeOK
<1> QED
  BY <1>1, <1>2 DEF TypeOK

\* The frames of a set of packets in flight are frames.
LEMMA FramesOfType ==
    ASSUME TypeOK, NEW S \in SUBSET InFlight
    PROVE  FramesOf(S) \subseteq Frames
<1>1. \A n \in S : sent_mem[n].frames \subseteq Frames
  BY DEF TypeOK, SentPacket
<1> QED
  BY <1>1 DEF FramesOf

\* Recording a sent packet keeps the type of the record.
LEMMA TypeSend ==
    ASSUME TypeOK, NEW fs \in SUBSET Frames, NEW len \in PktLens, NEW pto \in Ptos,
           Send(fs, len, pto)
    PROVE  TypeOK' /\ InFlight' = InFlight \cup {next} /\ next \notin InFlight
<1>1. next' = next + 1 /\ next \in Nat /\ now \in Nat
  BY DEF Send, NextNumber, TypeOK
<1>2. InFlight' = InFlight \cup {next}
  BY DEF Send, InFlight
<1>3. next \notin InFlight /\ InFlight' \subseteq 0 .. next' - 1
  BY <1>1, <1>2 DEF TypeOK
<1>4. sent_mem' \in [InFlight' -> SentPacket]
  <2>1. \A n \in InFlight : sent_mem[n] \in SentPacket
    BY DEF TypeOK
  <2>2. [ sent_time |-> now, pkt_len |-> len,
          included_unacked |-> fs \cap Eliciting # {}, frames |-> fs ] \in SentPacket
    BY <1>1 DEF SentPacket
  <2> QED
    BY <1>2, <2>1, <2>2 DEF Send
<1>5. /\ last_sent_ack_time' \in Nat
      /\ alarm' \in Nat
      /\ loop_deadline' \in Nat
  <2>1. pto \in Nat \ {0} /\ pto_backoff \in Nat \ {0}
    BY NumbersAssumption DEF TypeOK
  <2>2. AlarmAt(unacked_len', now, pto, pto_backoff) \in Nat
    BY <1>1, <2>1, AlarmType
  <2>3. CASE fs \cap Eliciting # {}
    BY <1>1, <2>2, <2>3, EarlierType DEF Send, TypeOK
  <2>4. CASE fs \cap Eliciting = {}
    BY <2>4 DEF Send, TypeOK
  <2> QED
    BY <2>3, <2>4
<1>6. sent_pkt_count' \in Nat
  BY DEF Send, TypeOK
<1>7. /\ todo' \subseteq Loops
      /\ retransmission_queue' \subseteq Frames
      /\ fresh' \subseteq Frames
      /\ UNCHANGED <<now, loss_time, pto_backoff, dropped, acked, freed>>
  BY DEF Send, TypeOK
<1> QED
  BY <1>1, <1>2, <1>3, <1>4, <1>5, <1>6, <1>7 DEF TypeOK

\* Taking packets out of sent_mem one by one, acked and lost, leaves their count.
LEMMA CountAfterRemoval ==
    ASSUME TypeOK, CountExact, NEW A \in SUBSET InFlight, NEW L \in SUBSET (InFlight \ A)
    PROVE  /\ sent_pkt_count - Cardinality(A) - Cardinality(L)
                = Cardinality((InFlight \ A) \ L)
           /\ Cardinality((InFlight \ A) \ L) \in Nat
<1>1. IsFiniteSet(InFlight)
  BY InFlightFinite
<1>2. /\ IsFiniteSet(InFlight \ A)
      /\ Cardinality(InFlight \ A) = Cardinality(InFlight) - Cardinality(A)
  <2>1. /\ IsFiniteSet(InFlight \ A)
        /\ Cardinality(InFlight \ A) = Cardinality(InFlight) - Cardinality(InFlight \cap A)
    BY <1>1, FS_Difference, Zenon
  <2>2. InFlight \cap A = A
    BY Zenon
  <2> QED
    BY <2>1, <2>2, Zenon
<1>3. /\ IsFiniteSet((InFlight \ A) \ L)
      /\ Cardinality((InFlight \ A) \ L) = Cardinality(InFlight \ A) - Cardinality(L)
  <2>1. /\ IsFiniteSet((InFlight \ A) \ L)
        /\ Cardinality((InFlight \ A) \ L)
                = Cardinality(InFlight \ A) - Cardinality((InFlight \ A) \cap L)
    BY <1>2, FS_Difference, Zenon
  <2>2. (InFlight \ A) \cap L = L
    BY Zenon
  <2> QED
    BY <2>1, <2>2, Zenon
<1>4. /\ Cardinality(InFlight) \in Nat
      /\ Cardinality((InFlight \ A) \ L) \in Nat
  BY <1>1, <1>3, FS_CardinalityType
<1>5. IsFiniteSet(A) /\ IsFiniteSet(L)
  BY <1>1, <1>2, FS_Subset
<1>6. Cardinality(A) \in Nat /\ Cardinality(L) \in Nat
  BY <1>5, FS_CardinalityType
<1> QED
  BY <1>2, <1>3, <1>4, <1>6 DEF CountExact

\* An ACK keeps the type: what is taken off the bytes in flight was in them.
LEMMA TypeHandleAck ==
    ASSUME TypeOK, CountExact,
           NEW frame, NEW delay \in LostDelays, NEW pto \in Ptos,
           HandleAck(frame, delay, pto)
    PROVE  TypeOK' /\ CountExact' /\ LossTimeIsOfAPacketInFlight'
<1> DEFINE newly_acked == InFlight \cap AckedBy(frame)
           rest        == InFlight \ newly_acked
           newly_lost  == Lost(rest, delay)
           kept        == rest \ newly_lost
<1>1. /\ newly_acked \in SUBSET InFlight
      /\ newly_lost \in SUBSET rest
      /\ kept \in SUBSET InFlight
  BY DEF Lost
<1>2. /\ sent_mem' = [n \in kept |-> sent_mem[n]]
      /\ sent_pkt_count' = sent_pkt_count - Cardinality(newly_acked)
                                          - Cardinality(newly_lost)
      /\ acked' = acked \cup WithCallbacks(newly_acked)
      /\ retransmission_queue' = retransmission_queue \cup WithCallbacks(newly_lost)
      /\ freed' = freed \cup WithoutCallbacks(newly_acked \cup newly_lost)
      /\ loss_time' = LossTime(kept, delay)
      /\ pto_backoff' = 1
      /\ alarm' = AlarmAt(unacked_len', last_sent_ack_time, pto, 1)
      /\ loop_deadline' = Earlier(loop_deadline, alarm')
      /\ UNCHANGED <<now, todo, next, last_sent_ack_time, dropped, fresh>>
  BY DEF HandleAck
<1>3. sent_pkt_count' = Cardinality(kept) /\ sent_pkt_count' \in Nat
  BY <1>1, <1>2, CountAfterRemoval
<1>4. loss_time' \in Nat /\ LossTimeIsOfAPacketInFlight'
  BY <1>1, <1>2, LossTimeType, LossTimeOfKept
<1>5. /\ FramesOf(newly_acked) \subseteq Frames
      /\ FramesOf(newly_lost) \subseteq Frames
      /\ FramesOf(newly_acked \cup newly_lost) \subseteq Frames
  BY <1>1, FramesOfType
<1> HIDE DEF newly_acked, newly_lost, kept
<1>6. /\ InFlight' = kept
      /\ InFlight' \subseteq 0 .. next - 1
      /\ sent_mem' \in [kept -> SentPacket]
  BY <1>1, <1>2, KeptType
<1>7. alarm' \in Nat /\ loop_deadline' \in Nat
  <2>1. pto \in Nat \ {0} /\ 1 \in Nat \ {0} /\ last_sent_ack_time \in Nat
    BY NumbersAssumption DEF TypeOK
  <2>2. alarm' \in Nat
    BY <1>2, <2>1, AlarmType
  <2> QED
    BY <1>2, <2>2, EarlierType DEF TypeOK
<1>8. /\ acked' \subseteq Frames
      /\ retransmission_queue' \subseteq Frames
      /\ freed' \subseteq Frames
  BY <1>2, <1>5 DEF WithCallbacks, WithoutCallbacks, TypeOK
<1>9. TypeOK'
  <2>1. /\ now' \in Nat
        /\ todo' \subseteq Loops
        /\ next' \in Nat
        /\ last_sent_ack_time' \in Nat
        /\ pto_backoff' \in Nat \ {0}
        /\ dropped' \in BOOLEAN
        /\ fresh' \subseteq Frames
    BY <1>2 DEF TypeOK
  <2>2. InFlight' \subseteq 0 .. next' - 1 /\ sent_mem' \in [InFlight' -> SentPacket]
    BY <1>2, <1>6
  <2> QED
    BY <1>3, <1>4, <1>7, <1>8, <2>1, <2>2 DEF TypeOK
<1>10. CountExact'
  BY <1>3, <1>6 DEF CountExact
<1> QED
  BY <1>4, <1>9, <1>10

\* A round of the loop that finds packets lost or probes keeps the type.
LEMMA TypeLoopDue ==
    ASSUME TypeOK, CountExact, NEW delay \in LostDelays, NEW pto \in Ptos,
           LoopDue(delay, pto)
    PROVE  TypeOK' /\ CountExact' /\ LossTimeIsOfAPacketInFlight'
<1> DEFINE newly_lost == Lost(InFlight, delay)
           kept       == InFlight \ newly_lost
<1>1. /\ newly_lost \in SUBSET InFlight
      /\ kept \in SUBSET InFlight
  BY DEF Lost
<1>2. /\ sent_mem' = [n \in kept |-> sent_mem[n]]
      /\ sent_pkt_count' = sent_pkt_count - Cardinality(newly_lost)
      /\ retransmission_queue' = retransmission_queue \cup WithCallbacks(newly_lost)
      /\ freed' = freed \cup WithoutCallbacks(newly_lost)
      /\ loss_time' = LossTime(kept, delay)
      /\ pto_backoff' = 2 * pto_backoff
      /\ alarm' = IF kept = {} THEN alarm
                  ELSE AlarmAt(unacked_len', last_sent_ack_time, pto, pto_backoff')
      /\ loop_deadline' = IF kept = {} THEN loop_deadline
                          ELSE Earlier(loop_deadline, alarm')
      /\ todo' = todo \ {"retransmission"}
      /\ UNCHANGED <<now, next, last_sent_ack_time, dropped, fresh, acked>>
  BY DEF LoopDue
<1>3. sent_pkt_count' = Cardinality(kept) /\ sent_pkt_count' \in Nat
  <2>1. /\ {} \in SUBSET InFlight
        /\ newly_lost \in SUBSET (InFlight \ {})
        /\ kept = (InFlight \ {}) \ newly_lost
    BY <1>1
  <2>2. IsFiniteSet(newly_lost) /\ Cardinality(newly_lost) \in Nat
    BY <1>1, InFlightFinite, FS_Subset, FS_CardinalityType
  <2>3. sent_pkt_count - Cardinality({}) - Cardinality(newly_lost) = Cardinality(kept)
    BY <2>1, CountAfterRemoval
  <2>4. Cardinality(kept) \in Nat
    BY <2>1, CountAfterRemoval
  <2> QED
    BY <1>2, <2>2, <2>3, <2>4, FS_EmptySet DEF TypeOK
<1>4. loss_time' \in Nat /\ LossTimeIsOfAPacketInFlight'
  BY <1>1, <1>2, LossTimeType, LossTimeOfKept
<1>5. FramesOf(newly_lost) \subseteq Frames
  BY <1>1, FramesOfType
<1> HIDE DEF newly_lost, kept
<1>6. /\ InFlight' = kept
      /\ InFlight' \subseteq 0 .. next - 1
      /\ sent_mem' \in [kept -> SentPacket]
  BY <1>1, <1>2, KeptType
<1>7. alarm' \in Nat /\ loop_deadline' \in Nat /\ pto_backoff' \in Nat \ {0}
  <2>1. /\ pto \in Nat \ {0}
        /\ pto_backoff' \in Nat \ {0}
        /\ last_sent_ack_time \in Nat
    BY <1>2, NumbersAssumption DEF TypeOK
  <2>2. AlarmAt(unacked_len', last_sent_ack_time, pto, pto_backoff') \in Nat
    BY <2>1, AlarmType
  <2>3. alarm' \in Nat
    BY <1>2, <2>2 DEF TypeOK
  <2> QED
    BY <1>2, <2>1, <2>3, EarlierType DEF TypeOK
<1>8. /\ retransmission_queue' \subseteq Frames
      /\ freed' \subseteq Frames
  BY <1>2, <1>5 DEF WithCallbacks, WithoutCallbacks, TypeOK
<1>9. TypeOK'
  BY <1>2, <1>3, <1>4, <1>6, <1>7, <1>8 DEF TypeOK
<1>10. CountExact'
  BY <1>3, <1>6 DEF CountExact
<1> QED
  BY <1>4, <1>9, <1>10

-----------------------------------------------------------------------------
(***************************************************************************)
(* The frames: where each of them is.                                      *)
(***************************************************************************)

\* Two disjoint sets of packets carry disjoint sets of frames.
LEMMA DisjointPackets ==
    ASSUME OnePacketPerFrame, NEW S \in SUBSET InFlight, NEW T \in SUBSET InFlight,
           S \cap T = {}
    PROVE  FramesOf(S) \cap FramesOf(T) = {}
<1>1. SUFFICES ASSUME NEW f \in FramesOf(S) \cap FramesOf(T)
               PROVE  FALSE
  OBVIOUS
<1>2. PICK m \in S : f \in sent_mem[m].frames
  BY <1>1 DEF FramesOf
<1>3. PICK n \in T : f \in sent_mem[n].frames
  BY <1>1 DEF FramesOf
<1> QED
  BY <1>2, <1>3 DEF OnePacketPerFrame

\* Removing the acknowledged packets A and the lost packets L from sent_mem, and
\* handing their frames on, keeps every frame in one place.
LEMMA FramesAfterRemoval ==
    ASSUME FramesConserved, ReliableFramesKept,
           NEW A \in SUBSET InFlight, NEW L \in SUBSET InFlight, A \cap L = {},
           sent_mem' = [n \in InFlight \ (A \cup L) |-> sent_mem[n]],
           acked' = acked \cup WithCallbacks(A),
           retransmission_queue' = retransmission_queue \cup WithCallbacks(L),
           freed' = freed \cup WithoutCallbacks(A \cup L),
           fresh' = fresh,
           dropped' = dropped
    PROVE  FramesConserved' /\ ReliableFramesKept'
<1> DEFINE K == InFlight \ (A \cup L)
<1>1. InFlight' = K /\ \A n \in K : sent_mem'[n] = sent_mem[n]
  BY DEF InFlight
<1>2. Outstanding' = FramesOf(K)
  BY <1>1 DEF Outstanding, FramesOf
<1>3. OnePacketPerFrame'
  BY <1>1 DEF OnePacketPerFrame, FramesConserved
<1>4. /\ FramesOf(A) \cap FramesOf(L) = {}
      /\ FramesOf(A) \cap FramesOf(K) = {}
      /\ FramesOf(L) \cap FramesOf(K) = {}
  <2>1. K \in SUBSET InFlight /\ A \cap K = {} /\ L \cap K = {}
    OBVIOUS
  <2> QED
    BY <2>1, DisjointPackets DEF FramesConserved
<1>5. /\ FramesOf(A \cup L) = FramesOf(A) \cup FramesOf(L)
      /\ Outstanding = FramesOf(A) \cup FramesOf(L) \cup FramesOf(K)
  BY DEF Outstanding, FramesOf
<1> HIDE DEF K
<1>6. OnePlacePerFrame'
  BY <1>2, <1>4, <1>5
     DEF OnePlacePerFrame, FramesConserved, WithCallbacks, WithoutCallbacks
<1>7. ReliableFramesKept'
  BY DEF ReliableFramesKept, WithCallbacks, WithoutCallbacks
<1> QED
  BY <1>3, <1>6, <1>7 DEF FramesConserved

\* An ACK moves frames from the packets that left the record to acknowledged
\* or to lost, and forgets none.
LEMMA FramesHandleAck ==
    ASSUME FramesConserved, ReliableFramesKept,
           NEW frame, NEW delay, NEW pto, HandleAck(frame, delay, pto)
    PROVE  FramesConserved' /\ ReliableFramesKept'
<1> DEFINE newly_acked == InFlight \cap AckedBy(frame)
           newly_lost  == Lost(InFlight \ newly_acked, delay)
<1>1. /\ newly_acked \in SUBSET InFlight
      /\ newly_lost \in SUBSET InFlight
      /\ newly_acked \cap newly_lost = {}
      /\ (InFlight \ newly_acked) \ newly_lost = InFlight \ (newly_acked \cup newly_lost)
  BY DEF Lost
<1>2. /\ sent_mem' = [n \in InFlight \ (newly_acked \cup newly_lost) |-> sent_mem[n]]
      /\ acked' = acked \cup WithCallbacks(newly_acked)
      /\ retransmission_queue' = retransmission_queue \cup WithCallbacks(newly_lost)
      /\ freed' = freed \cup WithoutCallbacks(newly_acked \cup newly_lost)
      /\ fresh' = fresh
      /\ dropped' = dropped
  BY <1>1 DEF HandleAck
<1> HIDE DEF newly_acked, newly_lost
<1> QED
  BY <1>1, <1>2, FramesAfterRemoval

\* A due round of the loop moves the frames of lost packets and forgets none.
LEMMA FramesLoopDue ==
    ASSUME FramesConserved, ReliableFramesKept,
           NEW delay, NEW pto, LoopDue(delay, pto)
    PROVE  FramesConserved' /\ ReliableFramesKept'
<1> DEFINE newly_lost == Lost(InFlight, delay)
<1>1. /\ newly_lost \in SUBSET InFlight
      /\ {} \cap newly_lost = {}
      /\ {} \cup newly_lost = newly_lost
      /\ WithCallbacks({}) = {}
  BY DEF Lost, WithCallbacks, FramesOf
<1>2. /\ sent_mem' = [n \in InFlight \ newly_lost |-> sent_mem[n]]
      /\ acked' = acked \cup WithCallbacks({})
      /\ retransmission_queue' = retransmission_queue \cup WithCallbacks(newly_lost)
      /\ freed' = freed \cup WithoutCallbacks(newly_lost)
      /\ fresh' = fresh
      /\ dropped' = dropped
  BY <1>1 DEF LoopDue
<1> HIDE DEF newly_lost
<1> QED
  BY <1>1, <1>2, FramesAfterRemoval

\* A sent packet's frames join those in flight; the others stay where they were.
LEMMA FramesSend ==
    ASSUME FramesConserved, ReliableFramesKept,
           NEW fs, NEW len, NEW pto, Send(fs, len, pto),
           InFlight' = InFlight \cup {next}, next \notin InFlight
    PROVE  FramesConserved' /\ ReliableFramesKept'
<1>1. /\ \A n \in InFlight : sent_mem'[n] = sent_mem[n]
      /\ sent_mem'[next].frames = fs
  BY DEF Send
<1>2. /\ fs \subseteq fresh \cup retransmission_queue
      /\ retransmission_queue' = retransmission_queue \ fs
      /\ fresh' = fresh \ fs
      /\ UNCHANGED <<dropped, acked, freed>>
  BY DEF Send
<1>3. Outstanding' = Outstanding \cup fs
  BY <1>1 DEF Outstanding, FramesOf
<1>4. fs \cap Outstanding = {}
  BY <1>2 DEF FramesConserved, OnePlacePerFrame
<1>5. OnePacketPerFrame'
  <2>1. \A n \in InFlight : sent_mem[n].frames \subseteq Outstanding
    BY DEF Outstanding, FramesOf
  <2> QED
    BY <1>1, <1>4, <2>1 DEF FramesConserved, OnePacketPerFrame
<1>6. OnePlacePerFrame'
  BY <1>2, <1>3 DEF FramesConserved, OnePlacePerFrame
<1>7. ReliableFramesKept'
  BY <1>2 DEF ReliableFramesKept
<1> QED
  BY <1>5, <1>6, <1>7 DEF FramesConserved

-----------------------------------------------------------------------------
(***************************************************************************)
(* The timers.  SleepsWithDeadline speaks of a sleeping event loop; it is  *)
(* inductive only with what holds in the middle of a turn: the alarm is    *)
(* armed whenever bytes are unacknowledged, and once the retransmission    *)
(* module's loop has run the deadline is no later than the alarm, also if  *)
(* the sender's loop runs after it and moves the alarm.                    *)
(***************************************************************************)
\* Whatever is unacknowledged has the alarm armed and the loop's deadline before it.
TimersArmed ==
    /\ unacked_len # 0 => alarm # 0
    /\ (unacked_len # 0 /\ loss_time # 0 /\ "retransmission" \notin todo)
            => loop_deadline # 0 /\ loop_deadline <= alarm
    /\ dropped => unacked_len = 0

\* After a send of an ack-eliciting packet the alarm is armed.
LEMMA TimersSend ==
    ASSUME TypeOK, TimersArmed, NEW fs, NEW len, NEW pto \in Ptos, Send(fs, len, pto)
    PROVE  TimersArmed'
<1>1. CASE fs \cap Eliciting = {}
  BY <1>1 DEF Send, TimersArmed
<1>2. CASE fs \cap Eliciting # {}
  <2>1. /\ alarm' = AlarmAt(unacked_len', now, pto, pto_backoff)
        /\ loop_deadline' = Earlier(loop_deadline, alarm')
        /\ dropped' = FALSE
    BY <1>2 DEF Send, TypeOK
  <2>2. pto \in Nat \ {0} /\ pto_backoff \in Nat \ {0} /\ now \in Nat
    BY NumbersAssumption DEF TypeOK
  <2>3. alarm' \in Nat /\ (unacked_len' # 0 => alarm' # 0)
    BY <2>1, <2>2, AlarmType
  <2>4. alarm' # 0 => loop_deadline' # 0 /\ loop_deadline' <= alarm'
    BY <2>1, <2>3, EarlierType DEF TypeOK
  <2> QED
    BY <2>1, <2>3, <2>4 DEF TimersArmed
<1> QED
  BY <1>1, <1>2

\* After an ACK the alarm is set again for what is still in flight.
LEMMA TimersHandleAck ==
    ASSUME TypeOK, NEW frame, NEW delay, NEW pto \in Ptos, HandleAck(frame, delay, pto)
    PROVE  TimersArmed'
<1>1. /\ alarm' = AlarmAt(unacked_len', last_sent_ack_time, pto, 1)
      /\ "retransmission" \in todo'
      /\ ~dropped'
  BY DEF HandleAck, Loops
<1>2. pto \in Nat \ {0} /\ 1 \in Nat \ {0} /\ last_sent_ack_time \in Nat
  BY NumbersAssumption DEF TypeOK
<1>3. unacked_len' # 0 => alarm' # 0
  BY <1>1, <1>2, AlarmType
<1> QED
  BY <1>1, <1>3 DEF TimersArmed

\* After a due round the alarm is set again for what is still in flight.
LEMMA TimersLoopDue ==
    ASSUME TypeOK, NEW delay, NEW pto \in Ptos, LoopDue(delay, pto)
    PROVE  TimersArmed'
<1> DEFINE kept == InFlight \ Lost(InFlight, delay)
<1>1. /\ alarm # 0
      /\ ~dropped'
      /\ loss_time' = LossTime(kept, delay)
      /\ pto_backoff' = 2 * pto_backoff
      /\ kept = {} => alarm' = alarm
      /\ kept # {} => /\ alarm' = AlarmAt(unacked_len', last_sent_ack_time, pto, pto_backoff')
                      /\ loop_deadline' = Earlier(loop_deadline, alarm')
  BY DEF LoopDue
<1> HIDE DEF kept
<1>2. CASE kept = {}
  BY <1>1, <1>2 DEF TimersArmed, LossTime
<1>3. CASE kept # {}
  <2>1. /\ pto \in Nat \ {0}
        /\ pto_backoff' \in Nat \ {0}
        /\ last_sent_ack_time \in Nat
    BY <1>1, NumbersAssumption DEF TypeOK
  <2>2. alarm' \in Nat /\ (unacked_len' # 0 => alarm' # 0)
    BY <1>1, <1>3, <2>1, AlarmType
  <2>3. alarm' # 0 => loop_deadline' # 0 /\ loop_deadline' <= alarm'
    BY <1>1, <1>3, <2>2, EarlierType DEF TypeOK
  <2> QED
    BY <1>1, <2>2, <2>3 DEF TimersArmed
<1> QED
  BY <1>2, <1>3

\* A round before the alarm is due leaves it as it was.
LEMMA TimersLoopEarly ==
    ASSUME TypeOK, TimersArmed, LoopEarly
    PROVE  TimersArmed'
<1>1. /\ alarm # 0 /\ alarm \in Nat
      /\ loop_deadline' = Earlier(loop_deadline, alarm)
      /\ UNCHANGED <<unacked_len, alarm, dropped>>
  BY DEF LoopEarly, TypeOK, counters, timers
<1>2. loop_deadline' # 0 /\ loop_deadline' <= alarm
  BY <1>1, EarlierType DEF TypeOK
<1> QED
  BY <1>1, <1>2 DEF TimersArmed

-----------------------------------------------------------------------------
(***************************************************************************)
(* The bytes in flight.  unacked_len is kept by adding and subtracting;    *)
(* BytesOf sums over sent_mem in an order nobody knows, so the sums of two *)
(* sets of packets are compared by the lemmas about IsTotal (DataLemmas).  *)
(***************************************************************************)
\* What a packet counts, and BytesOf for a sent_mem that is given.
BytesIn(mem, S) ==
    MapThenSumSet(LAMBDA n : IF mem[n].included_unacked THEN mem[n].pkt_len ELSE 0, S)

\* What each packet of S counts, as a function.
WeightIn(mem, S) ==
    [n \in S |-> IF mem[n].included_unacked THEN mem[n].pkt_len ELSE 0]

\* The library's recursive sum is the sum of the weights.
LEMMA BytesAreTheTotal ==
    ASSUME NEW mem, NEW S, IsFiniteSet(S),
           \A n \in S : mem[n].pkt_len \in Nat
    PROVE  /\ IsTotal(BytesIn(mem, S), WeightIn(mem, S), S)
           /\ BytesIn(mem, S) \in Nat
<1> DEFINE F == WeightIn(mem, S)
           W(n) == IF mem[n].included_unacked THEN mem[n].pkt_len ELSE 0
           R(f) == [s \in SUBSET S |-> IF s = {} THEN 0
                     ELSE W(CHOOSE x \in s : TRUE) + f[s \ {CHOOSE x \in s : TRUE}]]
           c == CHOOSE f : f = R(f)
<1>1. \A x \in S : F[x] = W(x) /\ F[x] \in Nat
  BY DEF WeightIn
<1>2. PICK g \in [SUBSET S -> Nat] : Sums(g, F, S)
  BY <1>1, SumsExists
<1>3. BytesIn(mem, S) = c[S]
  BY DEF BytesIn, MapThenSumSet, MapThenFoldSet
<1>4. g = R(g)
  BY <1>1, <1>2, Zenon DEF Sums, SumsAt, Chosen
<1>5. c = R(c)
  BY <1>4, Zenon
<1> HIDE DEF c
<1>6. Sums(c, F, S)
  BY <1>1, <1>5 DEF Sums, SumsAt, Chosen
<1>7. c[S] = g[S]
  <2>1. \A s \in SUBSET (S \cap S) : c[s] = g[s]
    BY <1>2, <1>6, SumsUnique
  <2>2. S \in SUBSET (S \cap S)
    OBVIOUS
  <2> QED
    BY <2>1, <2>2
<1>8. g[S] \in Nat /\ IsTotal(g[S], F, S)
  BY <1>2 DEF IsTotal
<1> QED
  BY <1>3, <1>7, <1>8

\* The bytes of a set of packets depend on those packets only.
LEMMA BytesSame ==
    ASSUME NEW mem, NEW old, NEW S, IsFiniteSet(S),
           \A n \in S : mem[n].pkt_len \in Nat, \A n \in S : mem[n] = old[n]
    PROVE  BytesIn(mem, S) = BytesIn(old, S)
<1>1. IsTotal(BytesIn(mem, S), WeightIn(mem, S), S)
  BY BytesAreTheTotal
<1>2. IsTotal(BytesIn(old, S), WeightIn(old, S), S)
  BY BytesAreTheTotal
<1>3. \A n \in S : WeightIn(mem, S)[n] = WeightIn(old, S)[n]
  BY DEF WeightIn
<1> QED
  BY <1>1, <1>2, <1>3, TotalUnique

\* Sets of packets without a common packet add up.
LEMMA BytesOfUnion ==
    ASSUME NEW mem, NEW A, IsFiniteSet(A), NEW B, IsFiniteSet(B), A \cap B = {},
           \A n \in A \cup B : mem[n].pkt_len \in Nat
    PROVE  /\ BytesIn(mem, A \cup B) = BytesIn(mem, A) + BytesIn(mem, B)
           /\ BytesIn(mem, A) \in Nat /\ BytesIn(mem, B) \in Nat
<1> DEFINE S == A \cup B
           F == WeightIn(mem, S)
<1>1. IsFiniteSet(S)
  BY FS_Union
<1>2. IsTotal(BytesIn(mem, S), F, S)
  BY <1>1, BytesAreTheTotal
<1>3. ASSUME NEW T \in SUBSET S, IsFiniteSet(T)
      PROVE  IsTotal(BytesIn(mem, T), F, T) /\ BytesIn(mem, T) \in Nat
  <2>1. IsTotal(BytesIn(mem, T), WeightIn(mem, T), T) /\ BytesIn(mem, T) \in Nat
    BY <1>3, BytesAreTheTotal
  <2>2. \A n \in T : F[n] = WeightIn(mem, T)[n] /\ F[n] \in Nat
    BY DEF WeightIn
  <2>3. PICK v \in Nat : IsTotal(v, F, T)
    BY <1>3, <2>2, TotalExists
  <2>4. v = BytesIn(mem, T)
    BY <1>3, <2>1, <2>2, <2>3, TotalUnique
  <2> QED
    BY <2>1, <2>3, <2>4
<1>4. IsTotal(BytesIn(mem, A), F, A) /\ IsTotal(BytesIn(mem, B), F, B)
  BY <1>3
<1>5. \A n \in A \cup B : F[n] \in Nat
  BY DEF WeightIn
<1> HIDE DEF F
<1>6. BytesIn(mem, S) = BytesIn(mem, A) + BytesIn(mem, B)
  BY <1>2, <1>4, <1>5, TotalOfUnion
<1> QED
  BY <1>3, <1>6

\* One packet counts its length when it is ack-eliciting.
LEMMA BytesOfOne ==
    ASSUME NEW mem, NEW n, mem[n].pkt_len \in Nat
    PROVE  BytesIn(mem, {n}) = IF mem[n].included_unacked THEN mem[n].pkt_len ELSE 0
<1>1. IsFiniteSet({n}) /\ \A m \in {n} : mem[m].pkt_len \in Nat
  BY FS_Singleton
<1>2. IsTotal(BytesIn(mem, {n}), WeightIn(mem, {n}), {n})
  BY <1>1, BytesAreTheTotal
<1>3. /\ WeightIn(mem, {n})[n] = IF mem[n].included_unacked THEN mem[n].pkt_len ELSE 0
      /\ WeightIn(mem, {n})[n] \in Nat
  BY DEF WeightIn
<1> QED
  BY <1>2, <1>3, TotalOfOne

\* No packet, no bytes.
LEMMA BytesOfNone == ASSUME NEW mem PROVE BytesIn(mem, {}) = 0
<1>1. IsFiniteSet({}) /\ \A m \in {} : mem[m].pkt_len \in Nat
  BY FS_EmptySet
<1>2. IsTotal(BytesIn(mem, {}), WeightIn(mem, {}), {})
  BY <1>1, BytesAreTheTotal
<1> QED
  BY <1>2, TotalOfNone


\* The bytes of the packets in flight, and of some of them.
LEMMA BytesInFlight ==
    ASSUME TypeOK, NEW S \in SUBSET InFlight
    PROVE  /\ IsFiniteSet(S)
           /\ \A n \in S : sent_mem[n].pkt_len \in Nat
           /\ BytesOf(S) = BytesIn(sent_mem, S)
<1>1. IsFiniteSet(S)
  BY InFlightFinite, FS_Subset
<1>2. \A n \in S : sent_mem[n].pkt_len \in Nat
  BY NumbersAssumption DEF TypeOK, SentPacket
<1>3. BytesOf(S) = BytesIn(sent_mem, S)
  BY DEF BytesOf, BytesIn
<1> QED
  BY <1>1, <1>2, <1>3

\* Taking the bytes of acked and lost packets off leaves those of the others.
LEMMA BytesAfterRemoval ==
    ASSUME TypeOK, BytesExact, NEW A \in SUBSET InFlight, NEW L \in SUBSET (InFlight \ A),
           sent_mem' = [n \in (InFlight \ A) \ L |-> sent_mem[n]],
           unacked_len' = unacked_len - BytesOf(A) - BytesOf(L)
    PROVE  BytesExact'
<1> DEFINE K == (InFlight \ A) \ L
           R == InFlight \ A
           B(S) == BytesIn(sent_mem, S)
<1>1. /\ R \in SUBSET InFlight /\ K \in SUBSET InFlight /\ L \in SUBSET InFlight
      /\ A \cup R = InFlight /\ A \cap R = {}
      /\ L \cup K = R /\ L \cap K = {}
      /\ InFlight \in SUBSET InFlight
  OBVIOUS
<1>2. InFlight' = K /\ \A n \in K : sent_mem'[n] = sent_mem[n]
  BY DEF InFlight
<1> HIDE DEF K, R
<1>3. ASSUME NEW S \in SUBSET InFlight
      PROVE  IsFiniteSet(S) /\ (\A n \in S : sent_mem[n].pkt_len \in Nat) /\ BytesOf(S) = B(S)
  BY BytesInFlight
<1>4. B(InFlight) = B(A) + B(R) /\ B(A) \in Nat /\ B(R) \in Nat
  <2>1. IsFiniteSet(A) /\ IsFiniteSet(R) /\ \A n \in A \cup R : sent_mem[n].pkt_len \in Nat
    BY <1>1, <1>3
  <2>2. B(A \cup R) = B(A) + B(R) /\ B(A) \in Nat /\ B(R) \in Nat
    BY <1>1, <2>1, BytesOfUnion
  <2> QED
    BY <1>1, <2>2
<1>5. B(R) = B(L) + B(K) /\ B(L) \in Nat /\ B(K) \in Nat
  <2>1. IsFiniteSet(L) /\ IsFiniteSet(K) /\ \A n \in L \cup K : sent_mem[n].pkt_len \in Nat
    BY <1>1, <1>3
  <2>2. B(L \cup K) = B(L) + B(K) /\ B(L) \in Nat /\ B(K) \in Nat
    BY <1>1, <2>1, BytesOfUnion
  <2> QED
    BY <1>1, <2>2
<1>6. BytesIn(sent_mem', K) = B(K)
  <2>1. IsFiniteSet(K) /\ \A n \in K : sent_mem'[n].pkt_len \in Nat
    BY <1>1, <1>2, <1>3
  <2> QED
    BY <1>2, <2>1, BytesSame
<1>7. BytesOf(InFlight)' = BytesIn(sent_mem', K)
  BY <1>2 DEF BytesOf, BytesIn, MapThenSumSet, MapThenFoldSet
<1>8. unacked_len = B(InFlight) /\ BytesOf(A) = B(A) /\ BytesOf(L) = B(L)
  BY <1>1, <1>3 DEF BytesExact
<1> HIDE DEF B
<1>9. unacked_len - BytesOf(A) - BytesOf(L) = B(K)
  BY <1>4, <1>5, <1>8
<1> QED
  BY <1>6, <1>7, <1>9 DEF BytesExact

\* A sent packet adds what it counts.
LEMMA BytesSend ==
    ASSUME TypeOK, BytesExact, NEW fs, NEW len \in PktLens, NEW pto, Send(fs, len, pto),
           InFlight' = InFlight \cup {next}, next \notin InFlight
    PROVE  BytesExact'
<1> DEFINE B(S) == BytesIn(sent_mem', S)
           add == IF fs \cap Eliciting # {} THEN len ELSE 0
<1>1. /\ \A n \in InFlight : sent_mem'[n] = sent_mem[n]
      /\ sent_mem'[next].pkt_len = len
      /\ sent_mem'[next].included_unacked = (fs \cap Eliciting # {})
  BY DEF Send
<1>2. len \in Nat
  BY NumbersAssumption
<1>3. /\ IsFiniteSet(InFlight)
      /\ \A n \in InFlight : sent_mem[n].pkt_len \in Nat
      /\ unacked_len = BytesIn(sent_mem, InFlight)
  BY BytesInFlight DEF BytesExact
<1>4. B({next}) = add
  BY <1>1, <1>2, BytesOfOne
<1>5. B(InFlight) = unacked_len
  BY <1>1, <1>3, BytesSame
<1>6. B(InFlight \cup {next}) = B(InFlight) + B({next}) /\ B(InFlight) \in Nat
  <2>1. IsFiniteSet({next}) /\ InFlight \cap {next} = {}
    BY FS_Singleton
  <2>2. \A n \in InFlight \cup {next} : sent_mem'[n].pkt_len \in Nat
    BY <1>1, <1>2, <1>3
  <2> QED
    BY <1>3, <2>1, <2>2, BytesOfUnion
<1>7. BytesOf(InFlight)' = B(InFlight \cup {next})
  BY DEF BytesOf, BytesIn, MapThenSumSet, MapThenFoldSet
<1>8. unacked_len' = unacked_len + add
  <2>1. CASE fs \cap Eliciting # {}
    BY <2>1 DEF Send
  <2>2. CASE fs \cap Eliciting = {}
    <3>1. unacked_len' = unacked_len /\ add = 0
      BY <2>2 DEF Send
    <3> HIDE DEF add
    <3>2. unacked_len \in Nat
      BY <1>5, <1>6
    <3> QED
      BY <3>1, <3>2
  <2> QED
    BY <2>1, <2>2
<1> HIDE DEF B, add
<1> QED
  BY <1>4, <1>5, <1>6, <1>7, <1>8 DEF BytesExact


\* An ACK frame subtracts what it takes out of sent_mem.
LEMMA BytesHandleAck ==
    ASSUME TypeOK, BytesExact, NEW frame, NEW delay, NEW pto, HandleAck(frame, delay, pto)
    PROVE  BytesExact'
<1> DEFINE newly_acked == InFlight \cap AckedBy(frame)
           rest        == InFlight \ newly_acked
           newly_lost  == Lost(rest, delay)
<1>1. newly_acked \in SUBSET InFlight /\ newly_lost \in SUBSET (InFlight \ newly_acked)
  BY DEF Lost
<1>2. /\ sent_mem' = [n \in (InFlight \ newly_acked) \ newly_lost |-> sent_mem[n]]
      /\ unacked_len' = unacked_len - BytesOf(newly_acked) - BytesOf(newly_lost)
  BY DEF HandleAck
<1> HIDE DEF newly_acked, rest, newly_lost
<1> QED
  BY <1>1, <1>2, BytesAfterRemoval

\* A due round of the loop subtracts what it gives up on.
LEMMA BytesLoopDue ==
    ASSUME TypeOK, BytesExact, NEW delay, NEW pto, LoopDue(delay, pto)
    PROVE  BytesExact'
<1> DEFINE newly_lost == Lost(InFlight, delay)
<1>1. {} \in SUBSET InFlight /\ newly_lost \in SUBSET (InFlight \ {})
  BY DEF Lost
<1>2. /\ sent_mem' = [n \in (InFlight \ {}) \ newly_lost |-> sent_mem[n]]
      /\ unacked_len' = unacked_len - BytesOf(newly_lost)
  <2>1. (InFlight \ {}) \ newly_lost = InFlight \ newly_lost
    OBVIOUS
  <2> QED
    BY <2>1 DEF LoopDue
<1>3. unacked_len \in Nat
  <2>1. InFlight \in SUBSET InFlight
    OBVIOUS
  <2>2. unacked_len = BytesIn(sent_mem, InFlight)
    BY <2>1, BytesInFlight DEF BytesExact
  <2>3. BytesIn(sent_mem, InFlight) \in Nat
    BY <2>1, BytesInFlight, BytesAreTheTotal
  <2> QED
    BY <2>2, <2>3
<1>4. BytesOf({}) = 0
  BY <1>1, BytesInFlight, BytesOfNone
<1> HIDE DEF newly_lost
<1>5. unacked_len - BytesOf({}) = unacked_len
  BY <1>3, <1>4
<1> QED
  BY <1>1, <1>2, <1>5, BytesAfterRemoval

\* An empty sent_mem counts nothing, and what leaves it alone changes nothing.
LEMMA BytesEmpty == ASSUME InFlight = {}, unacked_len = 0 PROVE BytesExact
<1>1. BytesOf({}) = BytesIn(sent_mem, {})
  BY DEF BytesOf, BytesIn
<1> QED
  BY <1>1, BytesOfNone DEF BytesExact

\* Dropping the packet number space leaves nothing to count.
LEMMA BytesDropped == ASSUME InFlight' = {}, unacked_len' = 0 PROVE BytesExact'
<1>1. BytesOf(InFlight)' = BytesIn(sent_mem', {})
  BY DEF BytesOf, BytesIn, MapThenSumSet, MapThenFoldSet
<1>2. BytesIn(sent_mem', {}) = 0
  BY BytesOfNone
<1> QED
  BY <1>1, <1>2 DEF BytesExact

\* A step that leaves sent_mem and the sum alone keeps the sum exact.
LEMMA BytesQuiet ==
    ASSUME BytesExact, sent_mem' = sent_mem, unacked_len' = unacked_len
    PROVE  BytesExact'
<1>1. BytesOf(InFlight)' = BytesIn(sent_mem', InFlight)
  BY DEF BytesOf, BytesIn, InFlight, MapThenSumSet, MapThenFoldSet
<1>2. BytesOf(InFlight) = BytesIn(sent_mem, InFlight)
  BY DEF BytesOf, BytesIn
<1> QED
  BY <1>1, <1>2 DEF BytesExact

-----------------------------------------------------------------------------
(***************************************************************************)
(* The inductive invariant.                                                *)
(***************************************************************************)
\* No packet was sent in the future.
SentBefore == \A n \in InFlight : sent_mem[n].sent_time <= now

\* The inductive invariant: the properties, and what the timers need.
IInv ==
    /\ TypeOK
    /\ FramesConserved
    /\ ReliableFramesKept
    /\ CountExact
    /\ BytesExact
    /\ SentBefore
    /\ LossTimeIsOfAPacketInFlight
    /\ TimersArmed

\* The record starts empty, which satisfies every conjunct.
LEMMA InitIInv == Init => IInv
<1> SUFFICES ASSUME Init PROVE IInv
  OBVIOUS
<1>1. InFlight = {} /\ sent_mem \in [InFlight -> SentPacket]
  BY DEF Init, InFlight
<1>2. Outstanding = {}
  BY <1>1 DEF Outstanding, FramesOf
<1>3. TypeOK
  <2>1. InFlight \subseteq 0 .. next - 1
    BY <1>1
  <2>2. /\ now \in Nat
        /\ loop_deadline \in Nat
        /\ next \in Nat
        /\ sent_pkt_count \in Nat
        /\ loss_time \in Nat
        /\ last_sent_ack_time \in Nat
        /\ alarm \in Nat
        /\ pto_backoff \in Nat \ {0}
    BY SMT DEF Init
  <2>4. dropped \in BOOLEAN /\ todo \subseteq Loops
    BY Zenon DEF Init
  <2>3. /\ retransmission_queue \subseteq Frames /\ fresh \subseteq Frames
        /\ acked \subseteq Frames /\ freed \subseteq Frames
    BY DEF Init
  <2> QED
    BY <1>1, <2>1, <2>2, <2>3, <2>4 DEF TypeOK
<1>4. FramesConserved /\ ReliableFramesKept
  BY <1>1, <1>2
     DEF Init, FramesConserved, OnePacketPerFrame, OnePlacePerFrame, ReliableFramesKept
<1>5. CountExact /\ SentBefore /\ LossTimeIsOfAPacketInFlight /\ TimersArmed
  BY <1>1, FS_EmptySet DEF Init, CountExact, SentBefore, LossTimeIsOfAPacketInFlight, TimersArmed
<1>6. BytesExact
  BY <1>1, BytesEmpty DEF Init
<1> QED
  BY <1>3, <1>4, <1>5, <1>6 DEF IInv

\* The steps that only move the clock or the event loop along.
LEMMA IInvQuiet ==
    ASSUME IInv, Tick \/ Wake \/ SendNothing \/ LoopEarly \/ LoopIdle \/ UNCHANGED vars
    PROVE  IInv'
<1>1. UNCHANGED <<next, sent_mem, counters, timers, dropped, retransmission_queue, history>>
  BY DEF Tick, Wake, SendNothing, LoopEarly, LoopIdle, vars
<1>2. TypeOK'
  <2>1. now' \in Nat /\ todo' \subseteq Loops
    BY DEF IInv, TypeOK, Tick, Wake, SendNothing, LoopEarly, LoopIdle, vars
  <2>2. loop_deadline' \in Nat
    <3>1. loop_deadline \in Nat /\ alarm \in Nat
      BY DEF IInv, TypeOK
    <3>2. Earlier(loop_deadline, alarm) \in Nat
      BY <3>1, EarlierType
    <3> QED
      BY <3>1, <3>2 DEF Tick, Wake, SendNothing, LoopEarly, LoopIdle, vars
  <2> QED
    BY <1>1, <2>1, <2>2 DEF IInv, TypeOK, InFlight, counters, timers, history
<1>3. FramesConserved' /\ ReliableFramesKept'
  BY <1>1 DEF IInv, FramesConserved, OnePacketPerFrame, OnePlacePerFrame,
              ReliableFramesKept, Outstanding, FramesOf, InFlight, history
<1>4. CountExact' /\ LossTimeIsOfAPacketInFlight'
  BY <1>1 DEF IInv, CountExact, LossTimeIsOfAPacketInFlight, IsOldest, InFlight, counters, timers
<1>7. SentBefore'
  <2>1. now \in Nat /\ \A n \in InFlight : sent_mem[n].sent_time \in Nat
    BY DEF IInv, TypeOK, SentPacket
  <2>2. now' = now \/ now' = now + 1
    BY DEF Tick, Wake, SendNothing, LoopEarly, LoopIdle, vars
  <2> QED
    BY <1>1, <2>1, <2>2 DEF IInv, SentBefore, InFlight
<1>5. TimersArmed'
  <2>1. CASE LoopEarly
    BY <2>1, TimersLoopEarly DEF IInv
  <2>2. CASE Wake
    BY <1>1, <2>2 DEF IInv, TimersArmed, Wake, Loops, counters, timers
  <2>3. CASE LoopIdle
    BY <1>1, <2>3 DEF IInv, TimersArmed, LoopIdle, counters, timers
  <2>4. CASE Tick \/ SendNothing \/ UNCHANGED vars
    <3>1. UNCHANGED loop_deadline /\ ("retransmission" \in todo <=> "retransmission" \in todo')
      BY <2>4 DEF Tick, SendNothing, vars
    <3> QED
      BY <1>1, <3>1 DEF IInv, TimersArmed, counters, timers
  <2> QED
    BY <2>1, <2>2, <2>3, <2>4
<1>6. BytesExact'
  BY <1>1, BytesQuiet DEF IInv, counters
<1> QED
  BY <1>2, <1>3, <1>4, <1>5, <1>6, <1>7 DEF IInv

\* Dropping the space empties the record and disarms its alarm together.
LEMMA IInvDrop ==
    ASSUME IInv, Drop
    PROVE  IInv'
<1>1. InFlight' = {} /\ sent_mem' \in [InFlight' -> SentPacket]
  BY DEF Drop, InFlight
<1>2. Outstanding' = {}
  BY <1>1 DEF Outstanding, FramesOf
<1>3. Outstanding \subseteq Frames
  BY FramesOfType DEF IInv, Outstanding
<1>4. TypeOK'
  BY <1>1, <1>3 DEF IInv, TypeOK, Drop
<1>5. FramesConserved' /\ ReliableFramesKept'
  BY <1>1, <1>2
     DEF IInv, Drop, FramesConserved, OnePacketPerFrame, OnePlacePerFrame, ReliableFramesKept
<1>6. CountExact' /\ SentBefore' /\ LossTimeIsOfAPacketInFlight' /\ TimersArmed'
  BY <1>1, FS_EmptySet DEF Drop, CountExact, SentBefore, LossTimeIsOfAPacketInFlight, TimersArmed
<1>7. BytesExact'
  BY <1>1, BytesDropped DEF Drop
<1> QED
  BY <1>4, <1>5, <1>6, <1>7 DEF IInv

\* Recording a sent packet keeps every conjunct.
LEMMA IInvSend ==
    ASSUME IInv, NEW fs \in SUBSET Frames, NEW len \in PktLens, NEW pto \in Ptos,
           Send(fs, len, pto)
    PROVE  IInv'
<1>1. TypeOK' /\ InFlight' = InFlight \cup {next} /\ next \notin InFlight
  BY TypeSend DEF IInv
<1>2. FramesConserved' /\ ReliableFramesKept'
  BY <1>1, FramesSend DEF IInv
<1>3. CountExact'
  BY <1>1, InFlightFinite, FS_AddElement DEF IInv, CountExact, Send
<1>4. /\ loss_time' = loss_time /\ now' = now
      /\ \A n \in InFlight : sent_mem'[n] = sent_mem[n]
      /\ sent_mem'[next].sent_time = now
  BY <1>1 DEF Send
<1>5. now \in Nat /\ \A n \in InFlight : sent_mem[n].sent_time <= now
  BY DEF IInv, TypeOK, SentBefore
<1>6. SentBefore'
  BY <1>1, <1>4, <1>5 DEF SentBefore
<1>7. LossTimeIsOfAPacketInFlight'
  <2>1. CASE loss_time # 0
    <3>1. PICK n \in InFlight, delay \in LostDelays :
                IsOldest(n) /\ loss_time = sent_mem[n].sent_time + delay
      BY <2>1 DEF IInv, LossTimeIsOfAPacketInFlight
    <3>2. IsOldest(n)'
      BY <1>1, <1>4, <1>5, <3>1 DEF IsOldest
    <3> QED
      BY <1>1, <1>4, <3>1, <3>2 DEF LossTimeIsOfAPacketInFlight
  <2> QED
    BY <1>4, <2>1 DEF LossTimeIsOfAPacketInFlight
<1>8. TimersArmed'
  BY TimersSend DEF IInv
<1>9. BytesExact'
  BY <1>1, BytesSend DEF IInv
<1> QED
  BY <1>1, <1>2, <1>3, <1>6, <1>7, <1>8, <1>9 DEF IInv

\* What is kept of sent_mem was sent before.
LEMMA SentBeforeKept ==
    ASSUME SentBefore, now' = now, NEW S \in SUBSET InFlight,
           sent_mem' = [n \in S |-> sent_mem[n]]
    PROVE  SentBefore'
  BY DEF SentBefore, InFlight

\* An ACK frame keeps every conjunct, whatever packet numbers it names.
LEMMA IInvHandleAck ==
    ASSUME IInv, NEW frame, NEW delay \in LostDelays, NEW pto \in Ptos,
           HandleAck(frame, delay, pto)
    PROVE  IInv'
<1>1. SentBefore'
  <2> DEFINE rest == InFlight \ (InFlight \cap AckedBy(frame))
             kept == rest \ Lost(rest, delay)
  <2>1. sent_mem' = [n \in kept |-> sent_mem[n]] /\ now' = now
    BY DEF HandleAck
  <2>2. kept \in SUBSET InFlight
    OBVIOUS
  <2> QED
    BY <2>1, <2>2, SentBeforeKept DEF IInv
<1> QED
  BY <1>1, TypeHandleAck, FramesHandleAck, TimersHandleAck, BytesHandleAck DEF IInv

\* A due round of the loop keeps every conjunct.
LEMMA IInvLoopDue ==
    ASSUME IInv, NEW delay \in LostDelays, NEW pto \in Ptos, LoopDue(delay, pto)
    PROVE  IInv'
<1>1. SentBefore'
  <2> DEFINE kept == InFlight \ Lost(InFlight, delay)
  <2>1. sent_mem' = [n \in kept |-> sent_mem[n]] /\ now' = now
    BY DEF LoopDue
  <2>2. kept \in SUBSET InFlight
    OBVIOUS
  <2> QED
    BY <2>1, <2>2, SentBeforeKept DEF IInv
<1> QED
  BY <1>1, TypeLoopDue, FramesLoopDue, TimersLoopDue, BytesLoopDue DEF IInv

\* The invariant is inductive: one step per action of Next.
LEMMA NextIInv == IInv /\ [Next]_vars => IInv'
<1> SUFFICES ASSUME IInv, [Next]_vars PROVE IInv'
  OBVIOUS
<1>1. CASE Tick \/ Wake \/ SendNothing \/ LoopEarly \/ LoopIdle \/ UNCHANGED vars
  BY <1>1, IInvQuiet
<1>2. ASSUME NEW fs \in SUBSET Frames, NEW len \in PktLens, NEW pto \in Ptos,
             Send(fs, len, pto)
      PROVE  IInv'
  BY <1>2, IInvSend
<1>3. ASSUME NEW frame \in AckFrames, NEW delay \in LostDelays, NEW pto \in Ptos,
             HandleAck(frame, delay, pto)
      PROVE  IInv'
  BY <1>3, IInvHandleAck
<1>4. ASSUME NEW delay \in LostDelays, NEW pto \in Ptos, LoopDue(delay, pto)
      PROVE  IInv'
  BY <1>4, IInvLoopDue
<1>5. CASE Drop
  BY <1>5, IInvDrop
<1> QED
  BY <1>1, <1>2, <1>3, <1>4, <1>5 DEF Next

\* Every reachable state of the retransmission record satisfies IInv, for every
\* set of frames, packet lengths, timeouts and bounds of the constants.
THEOREM Inductive == Spec => []IInv
  BY InitIInv, NextIInv, PTL DEF Spec

-----------------------------------------------------------------------------
\* The state has its types in every reachable state, the counter of packets among
\* them, for every peer whose ACK frames name packet numbers: none of their blocks
\* wraps around in uint64_t (AckFramesAssumption).
THEOREM TypeCorrect == Spec => []TypeOK
  BY Inductive, PTL DEF IInv

\* Every frame is in exactly one place in every reachable state: acks, losses,
\* the timer and the closing of the space neither leak nor double-free one.
THEOREM FramesAreConserved == Spec => []FramesConserved
  BY Inductive, PTL DEF IInv

\* While the space is open no STREAM frame is given up.
THEOREM ReliableFramesAreKept == Spec => []ReliableFramesKept
  BY Inductive, PTL DEF IInv

\* sent_pkt_count is the number of packets in sent_mem, for every set of ACK frames
\* whose blocks do not wrap.
THEOREM CountIsExact == Spec => []CountExact
  BY Inductive, PTL DEF IInv

\* unacked_len, the bytes in flight congestion control goes by, is the sum of
\* the lengths of the ack-eliciting packets in sent_mem: what acks and losses take
\* off is what sending added.
THEOREM BytesAreExact == Spec => []BytesExact
  BY Inductive, PTL DEF IInv

\* loss_time, when set, is the deadline of the oldest packet in flight.
THEOREM LossTimeIsCurrent == Spec => []LossTimeIsOfAPacketInFlight
  BY Inductive, PTL DEF IInv

\* The event loop does not go to sleep without a wake-up while a loss deadline
\* is known.
THEOREM LoopSleepsWithDeadline == Spec => []SleepsWithDeadline
<1>1. IInv => SleepsWithDeadline
  BY DEF IInv, TimersArmed, SleepsWithDeadline
<1> QED
  BY Inductive, <1>1, PTL

-----------------------------------------------------------------------------
(***************************************************************************)
(* The exchange.                                                           *)
(***************************************************************************)

\* The peer's ack generator, with the theorems about it.
GP == INSTANCE AckGeneratorProofs WITH dropped <- peer_dropped

-----------------------------------------------------------------------------
(***************************************************************************)
(* What the composition adds: how the packets on the network stand to the  *)
(* two ends.  A number names one packet for good, so a number the peer     *)
(* recorded stands for frames it processed, whenever the ACK arrives.      *)
(***************************************************************************)
\* What is on the network was sent, under its own number, and all that is in flight is.
NetIsWhatWasSent ==
    /\ \A p \in net : /\ p.num \in 0 .. MaxNum
                      /\ p.num < next
                      /\ p.frames \subseteq Frames \ fresh
    /\ \A p, q \in net : p.num = q.num => p.frames = q.frames
    /\ \A n \in InFlight : \E p \in net : p.num = n /\ p.frames = sent_mem[n].frames

\* The peer has processed the frames of every packet it recorded.
RecordedIsProcessed ==
    /\ \A p \in net : p.num \in received => p.frames \subseteq processed
    /\ \A num \in received : \E p \in net : p.num = num
    /\ processed \subseteq Frames \ fresh

\* An ACK denotes and reports packets that the peer recorded.
AcksAreRecorded ==
    \A frame \in acks : Denotes(frame) \subseteq received /\ AckedBy(frame) \subseteq received

\* What the composition adds to the invariants of its parts.
Exchange ==
    /\ NetIsWhatWasSent
    /\ RecordedIsProcessed
    /\ AcksAreRecorded
    /\ acked \subseteq processed

\* The inductive invariant of the exchange.
XInv == IInv /\ GP!IInv /\ Exchange

\* AckGenerator's assumption on its constant, which its theorems need.
LEMMA MaxNumIsNat == MaxNum \in Nat
  BY NumbersAssumption

\* The initial state has it.
LEMMA InitXInv == ExchangeInit => XInv
<1> SUFFICES ASSUME ExchangeInit PROVE XInv
  OBVIOUS
<1>1. IInv
  BY InitIInv DEF ExchangeInit
<1>2. GP!IInv
  BY GP!InitIInv, MaxNumIsNat DEF ExchangeInit, G!Init, GP!Init
<1>3. Exchange
  <2>1. /\ InFlight = {} /\ net = {} /\ acks = {} /\ processed = {} /\ acked = {}
        /\ received = {}
    BY DEF ExchangeInit, Init, InFlight, G!Init
  <2> QED
    BY <2>1 DEF Exchange, NetIsWhatWasSent, RecordedIsProcessed, AcksAreRecorded
<1> QED
  BY <1>1, <1>2, <1>3 DEF XInv

\* The generator's invariant survives what leaves the generator alone.
LEMMA GeneratorKept ==
    ASSUME GP!IInv, UNCHANGED generator
    PROVE  GP!IInv'
<1>1. UNCHANGED GP!vars
  BY DEF generator, GP!vars
<1> QED
  BY <1>1, GP!NextIInv, MaxNumIsNat

\* The generator's steps, as AckGenerator states them, are steps of the module
\* the proofs are about, and both write frames the way AckFrame does.
LEMMA GeneratorSteps ==
    /\ \A num, b : G!Received(num, b) <=> GP!Received(num, b)
    /\ G!Generate <=> GP!Generate
    /\ G!Drop <=> GP!Drop
    /\ G!AckFrame = GP!AckFrame
    /\ \A s : GP!Denotes(s) = Denotes(s) /\ GP!AckedBy(s) = AckedBy(s)
<1>1. /\ \A S : G!Min(S) = GP!Min(S)
      /\ \A s, e : G!Block(s, e) = GP!Block(s, e)
  BY DEF G!Min, GP!Min, G!Block, GP!Block
<1>2. /\ \A s, i, e : G!InsertAt(s, i, e) = GP!InsertAt(s, i, e)
      /\ \A s, i : G!RemoveAt(s, i) = GP!RemoveAt(s, i)
  BY DEF G!InsertAt, GP!InsertAt, G!RemoveAt, GP!RemoveAt
<1>3. \A s : G!Denotes(s) = Denotes(s) /\ GP!Denotes(s) = Denotes(s)
  <2>1. \A s : G!Numbers(s) = Numbers(s) /\ GP!Numbers(s) = Numbers(s)
    BY DEF G!Numbers, GP!Numbers, Numbers
  <2>2. \A s : G!Blocks(s) = Blocks(s)
    BY DEF G!Blocks, G!Block, Blocks, Block
  <2>3. \A s : GP!Blocks(s) = Blocks(s)
    BY DEF GP!Blocks, GP!Block, Blocks, Block
  <2> QED
    BY <2>1, <2>2, <2>3 DEF G!Denotes, GP!Denotes, Denotes
<1>4. \A s : GP!AckedBy(s) = AckedBy(s)
  <2>1. \A s : GP!Blocks(s) = Blocks(s)
    BY DEF GP!Blocks, GP!Block, Blocks, Block
  <2> QED
    BY <2>1 DEF GP!AckedBy, AckedBy, GP!ExaminedBlocks, ExaminedBlocks
<1>5. \A num : G!StopsAt(num) = GP!StopsAt(num)
  BY DEF G!StopsAt, GP!StopsAt
<1>6. \A num : G!Stop(num) = GP!Stop(num)
  BY <1>1, <1>5 DEF G!Stop, GP!Stop
<1>7. /\ \A s, i : G!MeetsBelow(s, i) = GP!MeetsBelow(s, i)
      /\ \A s, i : G!MeetsAbove(s, i) = GP!MeetsAbove(s, i)
  BY DEF G!MeetsBelow, GP!MeetsBelow, G!MeetsAbove, GP!MeetsAbove
<1>8. \A num : G!Grown(num) = GP!Grown(num)
  BY <1>1, <1>6 DEF G!Grown, GP!Grown
<1>9. \A num : G!InsertRanges(num) = GP!InsertRanges(num)
  BY <1>1, <1>2, <1>5, <1>6, <1>7, <1>8, Zenon
     DEF G!InsertRanges, GP!InsertRanges, G!Touches, GP!Touches,
         G!MergeAbove, GP!MergeAbove, G!MergeBelow, GP!MergeBelow
<1>10. \A num : G!Recorded(num) = GP!Recorded(num)
  BY <1>5, <1>6 DEF G!Recorded, GP!Recorded
<1>11. \A num : G!CheckIsLost(num) = GP!CheckIsLost(num)
  BY <1>10 DEF G!CheckIsLost, GP!CheckIsLost, G!Last, GP!Last
<1>12. \A num, b : G!Received(num, b) <=> GP!Received(num, b)
  BY <1>9, <1>10, <1>11 DEF G!Received, GP!Received, G!Largest, GP!Largest
<1>13. G!AckFrame = GP!AckFrame
  BY DEF G!AckFrame, GP!AckFrame, G!GenerateFrame, GP!GenerateFrame, G!Gap, GP!Gap
<1>14. G!Generate <=> GP!Generate
  BY <1>3, <1>13 DEF G!Generate, GP!Generate
<1>15. G!Drop <=> GP!Drop
  BY DEF G!Drop, GP!Drop
<1> QED
  BY <1>3, <1>4, <1>12, <1>13, <1>14, <1>15

-----------------------------------------------------------------------------
(***************************************************************************)
(* The steps.                                                              *)
(***************************************************************************)

\* Sending gives the packet a number no packet on the network has.
LEMMA XInvSend ==
    ASSUME XInv, NEW fs \in SUBSET Frames, NEW len \in PktLens, NEW pto \in Ptos,
           SendPacket(fs, len, pto)
    PROVE  XInv'
<1>1. /\ Send(fs, len, pto)
      /\ net' = net \cup {[num |-> next, frames |-> fs]}
      /\ UNCHANGED <<acks, processed, generator>>
  BY DEF SendPacket, peer
<1>2. IInv'
  BY <1>1, IInvSend DEF XInv
<1>3. GP!IInv'
  BY <1>1, GeneratorKept DEF XInv
<1>4. /\ next \in 0 .. MaxNum /\ next' = next + 1 /\ next \in Nat
      /\ fresh' = fresh \ fs /\ acked' = acked
      /\ received' = received
      /\ \A n \in InFlight : n # next => sent_mem'[n] = sent_mem[n]
      /\ sent_mem'[next].frames = fs
      /\ InFlight' = InFlight \cup {next}
  BY <1>1, NumbersAssumption DEF XInv, IInv, TypeOK, Send, NextNumber, InFlight, generator
<1>5. \A p \in net : p.num \in 0 .. MaxNum /\ p.num < next
  BY DEF XInv, Exchange, NetIsWhatWasSent
<1>6. NetIsWhatWasSent'
  <2> DEFINE p0 == [num |-> next, frames |-> fs]
  <2>1. \A p \in net' : /\ p.num \in 0 .. MaxNum
                        /\ p.num < next'
                        /\ p.frames \subseteq Frames \ fresh'
    BY <1>1, <1>4, <1>5 DEF XInv, Exchange, NetIsWhatWasSent
  <2>2. \A p, q \in net' : p.num = q.num => p.frames = q.frames
    BY <1>1, <1>4, <1>5 DEF XInv, Exchange, NetIsWhatWasSent
  <2>3. ASSUME NEW n \in InFlight' PROVE \E p \in net' : p.num = n /\ p.frames = sent_mem'[n].frames
    <3>1. CASE n = next
      <4>1. p0 \in net' /\ p0.num = n /\ p0.frames = sent_mem'[n].frames
        BY <1>1, <1>4, <3>1
      <4> QED
        BY <4>1
    <3>2. CASE n # next
      BY <1>1, <1>4, <3>2 DEF XInv, Exchange, NetIsWhatWasSent
    <3> QED
      BY <3>1, <3>2
  <2> QED
    BY <2>1, <2>2, <2>3 DEF NetIsWhatWasSent
<1>7. RecordedIsProcessed'
  <2>1. next \notin received
    BY <1>4, <1>5 DEF XInv, Exchange, RecordedIsProcessed
  <2>2. \A p \in net' : p.num \in received' => p.frames \subseteq processed'
    BY <1>1, <1>4, <2>1 DEF XInv, Exchange, RecordedIsProcessed
  <2>3. \A num \in received' : \E p \in net' : p.num = num
    BY <1>1, <1>4 DEF XInv, Exchange, RecordedIsProcessed
  <2>4. processed' \subseteq Frames \ fresh'
    BY <1>1, <1>4 DEF XInv, Exchange, RecordedIsProcessed
  <2> QED
    BY <2>2, <2>3, <2>4 DEF RecordedIsProcessed
<1>8. AcksAreRecorded' /\ acked' \subseteq processed'
  BY <1>1, <1>4 DEF XInv, Exchange, AcksAreRecorded
<1> QED
  BY <1>2, <1>3, <1>6, <1>7, <1>8 DEF XInv, Exchange

\* A step that leaves the network and the peer alone, keeps the packets in
\* flight among those there were, and acknowledges nothing.
LEMMA ExchangeKept ==
    ASSUME XInv, UNCHANGED <<net, acks, peer, next, fresh, acked>>,
           InFlight' \subseteq InFlight,
           \A n \in InFlight' : sent_mem'[n] = sent_mem[n]
    PROVE  GP!IInv' /\ Exchange'
<1>1. UNCHANGED <<processed, generator, received>>
  BY DEF peer, generator
<1>2. NetIsWhatWasSent'
  BY <1>1 DEF XInv, Exchange, NetIsWhatWasSent
<1>3. RecordedIsProcessed' /\ AcksAreRecorded'
  BY <1>1 DEF XInv, Exchange, RecordedIsProcessed, AcksAreRecorded
<1> QED
  BY <1>1, <1>2, <1>3, GeneratorKept DEF XInv, Exchange

\* The sender's own steps.
LEMMA XInvLocal ==
    ASSUME XInv, Local
    PROVE  XInv'
<1>1. UNCHANGED <<net, acks, peer>>
  BY DEF Local
<1>2. CASE Tick \/ Wake \/ SendNothing \/ LoopEarly \/ LoopIdle
  <2>1. UNCHANGED <<next, fresh, acked, sent_mem>>
    BY <1>2 DEF Tick, Wake, SendNothing, LoopEarly, LoopIdle, history
  <2>2. InFlight' = InFlight
    BY <2>1 DEF InFlight
  <2>3. IInv'
    BY <1>2, IInvQuiet DEF XInv
  <2> QED
    BY <1>1, <2>1, <2>2, <2>3, ExchangeKept DEF XInv
<1>3. CASE Drop
  <2>1. UNCHANGED <<next, fresh, acked>> /\ InFlight' = {}
    BY <1>3 DEF Drop, InFlight
  <2>2. IInv'
    BY <1>3, IInvDrop DEF XInv
  <2> QED
    BY <1>1, <2>1, <2>2, ExchangeKept DEF XInv
<1>4. ASSUME NEW delay \in LostDelays, NEW pto \in Ptos, LoopDue(delay, pto)
      PROVE  XInv'
  <2>1. /\ UNCHANGED <<next, fresh, acked>>
        /\ sent_mem' = [n \in InFlight \ Lost(InFlight, delay) |-> sent_mem[n]]
    BY <1>4 DEF LoopDue
  <2>2. InFlight' \subseteq InFlight /\ \A n \in InFlight' : sent_mem'[n] = sent_mem[n]
    BY <2>1 DEF InFlight
  <2>3. IInv'
    BY <1>4, IInvLoopDue DEF XInv
  <2> QED
    BY <1>1, <2>1, <2>2, <2>3, ExchangeKept DEF XInv
<1> QED
  BY <1>2, <1>3, <1>4 DEF Local

\* An ACK frame, however late, reports only frames of packets the peer recorded.
LEMMA XInvReceiveAck ==
    ASSUME XInv, NEW frame \in acks, NEW delay \in LostDelays, NEW pto \in Ptos,
           ReceiveAck(frame, delay, pto)
    PROVE  XInv'
<1> DEFINE newly_acked == InFlight \cap AckedBy(frame)
           kept == (InFlight \ newly_acked) \ Lost(InFlight \ newly_acked, delay)
<1>1. /\ HandleAck(frame, delay, pto)
      /\ UNCHANGED <<net, acks, peer, processed, generator, received>>
  BY DEF ReceiveAck, peer, generator
<1>2. IInv'
  BY <1>1, IInvHandleAck DEF XInv
<1>3. /\ UNCHANGED <<next, fresh>>
      /\ sent_mem' = [n \in kept |-> sent_mem[n]]
      /\ acked' = acked \cup WithCallbacks(newly_acked)
  BY <1>1 DEF HandleAck
<1>4. InFlight' \subseteq InFlight /\ \A n \in InFlight' : sent_mem'[n] = sent_mem[n]
  BY <1>3 DEF InFlight
<1>5. FramesOf(newly_acked) \subseteq processed
  <2>1. AckedBy(frame) \subseteq received
    BY DEF XInv, Exchange, AcksAreRecorded
  <2>2. ASSUME NEW n \in newly_acked PROVE sent_mem[n].frames \subseteq processed
    <3>1. n \in received
      BY <2>1
    <3>2. PICK p \in net : p.num = n /\ p.frames = sent_mem[n].frames
      BY DEF XInv, Exchange, NetIsWhatWasSent
    <3> QED
      BY <3>1, <3>2 DEF XInv, Exchange, RecordedIsProcessed
  <2> QED
    BY <2>2 DEF FramesOf
<1>6. acked' \subseteq processed'
  BY <1>1, <1>3, <1>5 DEF WithCallbacks, XInv, Exchange
<1>7. NetIsWhatWasSent'
  <2>1. NetIsWhatWasSent
    BY DEF XInv, Exchange
  <2> HIDE DEF kept, newly_acked
  <2> QED
    BY <1>1, <1>3, <1>4, <2>1, SMTT(60) DEF NetIsWhatWasSent
<1>8. RecordedIsProcessed' /\ AcksAreRecorded'
  BY <1>1, <1>3 DEF XInv, Exchange, RecordedIsProcessed, AcksAreRecorded
<1> QED
  BY <1>1, <1>2, <1>6, <1>7, <1>8, GeneratorKept DEF XInv, Exchange

\* The sender's invariant survives what leaves the sender alone.
LEMMA SenderKept ==
    ASSUME IInv, UNCHANGED vars
    PROVE  IInv' /\ UNCHANGED <<next, fresh, acked, sent_mem>> /\ InFlight' = InFlight
  BY IInvQuiet DEF vars, history, InFlight

\* The peer processes a packet whole before it records its number.
LEMMA XInvReceive ==
    ASSUME XInv, NEW p \in net, Receive(p)
    PROVE  XInv'
<1>1. /\ processed' = processed \cup p.frames
      /\ UNCHANGED <<vars, net, acks>>
      /\ IF peer_dropped THEN UNCHANGED generator
         ELSE G!Received(p.num, p.frames \cap Eliciting # {})
  BY DEF Receive
<1>2. IInv' /\ UNCHANGED <<next, fresh, acked, sent_mem>> /\ InFlight' = InFlight
  BY <1>1, SenderKept DEF XInv
<1>3. NetIsWhatWasSent /\ RecordedIsProcessed /\ AcksAreRecorded /\ acked \subseteq processed
  BY DEF XInv, Exchange
<1>4. GP!IInv' /\ (received' = received \/ received' = received \cup {p.num})
  <2>1. CASE peer_dropped
    BY <1>1, <2>1, GeneratorKept DEF XInv, generator
  <2>2. CASE ~peer_dropped
    <3>1. p.num \in GP!PacketNumbers
      BY <1>3 DEF NetIsWhatWasSent, GP!PacketNumbers
    <3> DEFINE b == p.frames \cap Eliciting # {}
    <3>2. b \in BOOLEAN
      OBVIOUS
    <3>3. GP!Received(p.num, b)
      BY <1>1, <2>2, GeneratorSteps
    <3> HIDE DEF b
    <3>4. GP!Next
      BY <3>1, <3>2, <3>3 DEF GP!Next
    <3>5. GP!IInv'
      <4>1. GP!IInv
        BY DEF XInv
      <4> QED
        BY <3>4, <4>1, GP!NextIInv, MaxNumIsNat
    <3>6. received' = received \cup {p.num}
      BY <3>3 DEF GP!Received
    <3> QED
      BY <3>5, <3>6
  <2> QED
    BY <2>1, <2>2
<1>5. NetIsWhatWasSent'
  BY <1>1, <1>2, <1>3 DEF NetIsWhatWasSent
<1>6. RecordedIsProcessed'
  <2>1. ASSUME NEW q \in net, q.num \in received' PROVE q.frames \subseteq processed'
    <3>1. CASE q.num \in received
      BY <1>1, <1>3, <3>1 DEF RecordedIsProcessed
    <3>2. CASE q.num = p.num
      BY <1>1, <1>3, <3>2 DEF NetIsWhatWasSent
    <3> QED
      BY <1>4, <2>1, <3>1, <3>2
  <2>2. \A num \in received' : \E q \in net' : q.num = num
    BY <1>1, <1>3, <1>4 DEF RecordedIsProcessed
  <2>3. processed' \subseteq Frames \ fresh'
    BY <1>1, <1>2, <1>3 DEF RecordedIsProcessed, NetIsWhatWasSent
  <2> QED
    BY <1>1, <2>1, <2>2, <2>3 DEF RecordedIsProcessed
<1>7. AcksAreRecorded' /\ acked' \subseteq processed'
  BY <1>1, <1>2, <1>3, <1>4 DEF AcksAreRecorded
<1> QED
  BY <1>2, <1>4, <1>5, <1>6, <1>7 DEF XInv, Exchange

\* A packet thrown away in the middle is not recorded.
LEMMA XInvReceiveFails ==
    ASSUME XInv, NEW p \in net, NEW done \in SUBSET p.frames, ReceiveFails(p, done)
    PROVE  XInv'
<1>1. /\ processed' = processed \cup done
      /\ UNCHANGED <<vars, net, acks, generator, received>>
  BY DEF ReceiveFails, generator
<1>2. IInv' /\ UNCHANGED <<next, fresh, acked, sent_mem>> /\ InFlight' = InFlight
  BY <1>1, SenderKept DEF XInv
<1>3. NetIsWhatWasSent /\ RecordedIsProcessed /\ AcksAreRecorded /\ acked \subseteq processed
  BY DEF XInv, Exchange
<1>4. NetIsWhatWasSent'
  BY <1>1, <1>2, <1>3 DEF NetIsWhatWasSent
<1>5. RecordedIsProcessed'
  BY <1>1, <1>2, <1>3 DEF RecordedIsProcessed, NetIsWhatWasSent
<1>6. AcksAreRecorded' /\ acked' \subseteq processed'
  BY <1>1, <1>2, <1>3 DEF AcksAreRecorded
<1> QED
  BY <1>1, <1>2, <1>4, <1>5, <1>6, GeneratorKept DEF XInv, Exchange

\* The frame the peer sends names what it recorded and nothing else.
LEMMA XInvSendAck ==
    ASSUME XInv, SendAck
    PROVE  XInv'
<1>1. /\ GP!Generate
      /\ acks' = acks \cup {GP!AckFrame}
      /\ UNCHANGED <<vars, net, processed>>
  BY GeneratorSteps DEF SendAck
<1>2. IInv' /\ UNCHANGED <<next, fresh, acked, sent_mem>> /\ InFlight' = InFlight
  BY <1>1, SenderKept DEF XInv
<1>0. GP!IInv
  BY DEF XInv
<1>3. GP!IInv' /\ received' = received
  <2>1. GP!IInv'
    BY <1>0, <1>1, GP!NextIInv, MaxNumIsNat DEF GP!Next
  <2> QED
    BY <1>1, <2>1 DEF GP!Generate
<1>4. Denotes(GP!AckFrame) = received /\ AckedBy(GP!AckFrame) \subseteq received
  <2>1. ranges # <<>>
    <3>1. ~peer_dropped /\ should_send
      BY <1>1 DEF GP!Generate
    <3> QED
      BY <1>0, <3>1, GP!OpenListIsNotEmpty, MaxNumIsNat
  <2>2. GP!Denotes(GP!AckFrame) = received /\ GP!AckedBy(GP!AckFrame) \subseteq received
    BY <1>0, <2>1, GP!FrameIs, MaxNumIsNat
  <2> QED
    BY <2>2, GeneratorSteps
<1>5. NetIsWhatWasSent /\ RecordedIsProcessed /\ AcksAreRecorded /\ acked \subseteq processed
  BY DEF XInv, Exchange
<1>6. AcksAreRecorded'
  BY <1>1, <1>3, <1>4, <1>5 DEF AcksAreRecorded
<1>7. NetIsWhatWasSent' /\ RecordedIsProcessed' /\ acked' \subseteq processed'
  BY <1>1, <1>2, <1>3, <1>5 DEF NetIsWhatWasSent, RecordedIsProcessed
<1> QED
  BY <1>2, <1>3, <1>6, <1>7 DEF XInv, Exchange

\* Closing the peer's space forgets the list but nothing that was processed.
LEMMA XInvPeerDrop ==
    ASSUME XInv, PeerDrop
    PROVE  XInv'
<1>1. GP!Drop /\ UNCHANGED <<vars, net, acks, processed>>
  BY GeneratorSteps DEF PeerDrop
<1>2. IInv' /\ UNCHANGED <<next, fresh, acked, sent_mem>> /\ InFlight' = InFlight
  BY <1>1, SenderKept DEF XInv
<1>3. GP!IInv'
  <2>1. GP!IInv
    BY DEF XInv
  <2> QED
    BY <1>1, <2>1, GP!NextIInv, MaxNumIsNat DEF GP!Next
<1>4. received' = received
  BY <1>1 DEF GP!Drop
<1> QED
  BY <1>1, <1>2, <1>3, <1>4
     DEF XInv, Exchange, NetIsWhatWasSent, RecordedIsProcessed, AcksAreRecorded

\* Every step keeps the invariant.
LEMMA NextXInv ==
    ASSUME XInv, [ExchangeNext]_all
    PROVE  XInv'
<1>1. CASE UNCHANGED all
  <2>1. UNCHANGED <<vars, net, acks, peer>>
    BY <1>1 DEF all
  <2>2. IInv' /\ UNCHANGED <<next, fresh, acked, sent_mem>> /\ InFlight' = InFlight
    BY <2>1, SenderKept DEF XInv
  <2> QED
    BY <2>1, <2>2, ExchangeKept DEF XInv
<1>2. CASE ExchangeNext
  BY <1>2, XInvLocal, XInvSend, XInvReceiveAck, XInvReceive, XInvReceiveFails,
     XInvSendAck, XInvPeerDrop DEF ExchangeNext
<1> QED
  BY <1>1, <1>2

\* The invariant holds in every reachable state.
LEMMA AlwaysXInv == ExchangeSpec => []XInv
<1>1. ExchangeInit => XInv
  BY InitXInv
<1>2. XInv /\ [ExchangeNext]_all => XInv'
  BY NextXInv
<1> QED
  BY <1>1, <1>2, PTL DEF ExchangeSpec

-----------------------------------------------------------------------------
(***************************************************************************)
(* The theorems.                                                           *)
(***************************************************************************)

\* A stream is told that a frame was acknowledged only if the peer processed
\* it, over lost, repeated and reordered packets and ACK frames, and packets
\* thrown away in the middle.
THEOREM NoAckIsFalse == ExchangeSpec => []NoFalseAck
<1>1. XInv => NoFalseAck
  BY DEF XInv, Exchange, AcksAreRecorded, NoFalseAck
<1> QED
  BY <1>1, AlwaysXInv, PTL

\* While the space is open, a STREAM frame the peer has not processed is unsent,
\* in flight or queued.
THEOREM NothingIsLost == ExchangeSpec => []NothingLost
<1>1. XInv => NothingLost
  <2> SUFFICES ASSUME XInv, ~dropped
               PROVE  Reliable \subseteq fresh \cup Outstanding
                                  \cup retransmission_queue \cup processed
    BY DEF NothingLost
  <2>1. Reliable \subseteq Frames
    BY FramesAssumption
  <2>2. Frames = fresh \cup Outstanding \cup retransmission_queue \cup acked \cup freed
    BY DEF XInv, IInv, FramesConserved, OnePlacePerFrame
  <2>3. freed \cap Reliable = {} /\ acked \subseteq processed
    BY DEF XInv, IInv, ReliableFramesKept, Exchange
  <2> QED
    BY <2>1, <2>2, <2>3
<1> QED
  BY <1>1, AlwaysXInv, PTL

\* The exchange starts as Delivery does.
LEMMA InitRefines == ExchangeInit => D!Init
  BY DEF ExchangeInit, Init, D!Init

\* Every step is a step of Delivery or leaves its state alone.
LEMMA NextRefines ==
    ASSUME XInv, XInv', [ExchangeNext]_all
    PROVE  [D!Next]_(D!vars)
<1> DEFINE sent == Frames \ fresh
<1>1. /\ acked \subseteq processed /\ acked' \subseteq processed'
      /\ processed \subseteq sent /\ processed' \subseteq sent'
  BY DEF XInv, Exchange, RecordedIsProcessed
<1>2. ASSUME UNCHANGED <<fresh, processed, acked, dropped>> PROVE UNCHANGED D!vars
  BY <1>2 DEF D!vars
<1>3. CASE UNCHANGED all
  BY <1>2, <1>3 DEF all, vars, history, peer
<1>4. CASE Local
  <2>1. UNCHANGED processed
    BY <1>4 DEF Local, peer
  <2>2. CASE Tick \/ Wake \/ SendNothing \/ LoopEarly \/ LoopIdle
    BY <1>2, <2>1, <2>2 DEF Tick, Wake, SendNothing, LoopEarly, LoopIdle, history
  <2>3. CASE \E delay \in LostDelays, pto \in Ptos : LoopDue(delay, pto)
    BY <1>2, <2>1, <2>3 DEF LoopDue
  <2>4. CASE Drop
    BY <2>1, <2>4 DEF Drop, D!Next, D!Close
  <2> QED
    BY <1>4, <2>2, <2>3, <2>4 DEF Local
<1>5. CASE \E fs \in SUBSET Frames, len \in PktLens, pto \in Ptos : SendPacket(fs, len, pto)
  <2>1. /\ ~dropped /\ UNCHANGED <<processed, acked, dropped>>
        /\ fresh' \subseteq fresh
    BY <1>5 DEF SendPacket, Send, peer
  <2>2. D!Submit
    BY <2>1 DEF D!Submit
  <2> QED
    BY <2>2 DEF D!Next
<1>6. CASE \E frame \in acks, delay \in LostDelays, pto \in Ptos :
                ReceiveAck(frame, delay, pto)
  <2>1. /\ ~dropped /\ UNCHANGED <<fresh, processed, dropped>>
        /\ acked \subseteq acked'
    BY <1>6 DEF ReceiveAck, HandleAck, peer
  <2>2. D!Confirm
    BY <1>1, <2>1 DEF D!Confirm
  <2> QED
    BY <2>2 DEF D!Next
<1>7. CASE \/ \E p \in net : Receive(p)
           \/ \E p \in net : \E done \in SUBSET p.frames : ReceiveFails(p, done)
  <2>1. /\ UNCHANGED <<fresh, acked, dropped>>
        /\ processed \subseteq processed'
    BY <1>7 DEF Receive, ReceiveFails, vars, history
  <2>2. D!Deliver
    BY <1>1, <2>1 DEF D!Deliver
  <2> QED
    BY <2>2 DEF D!Next
<1>8. CASE SendAck \/ PeerDrop
  BY <1>2, <1>8 DEF SendAck, PeerDrop, vars, history
<1> QED
  BY <1>3, <1>4, <1>5, <1>6, <1>7, <1>8 DEF ExchangeNext

\* The two endpoints, with everything the network may do between them,
\* implement the promise of Delivery.
THEOREM ExchangeImplementsDelivery == ExchangeSpec => ImplementsDelivery
<1>1. ExchangeInit => D!Init
  BY InitRefines
<1>2. XInv /\ XInv' /\ [ExchangeNext]_all => [D!Next]_(D!vars)
  BY NextRefines
<1> QED
  BY <1>1, <1>2, AlwaysXInv, PTL DEF ExchangeSpec, D!Spec, ImplementsDelivery
=============================================================================
