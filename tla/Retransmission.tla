--------------------------- MODULE Retransmission ---------------------------
(***************************************************************************)
(* The retransmission module of one packet number space                    *)
(* (modules/retransmission) and the sender's side of it: packets go into   *)
(* sent_mem when they are sent, ACK frames and the loss timer take them    *)
(* out, and the frames of a lost packet either wait in the                 *)
(* retransmission queue or are freed.                                      *)
(*                                                                         *)
(* The session's event loop runs everything: it sleeps until a module is   *)
(* activated or loop_deadline passes, handles received packets, then runs  *)
(* the loop of every module once.  The order of the module loops comes     *)
(* from the build (conf/generate-modules.sh walks an awk array), so the    *)
(* sender's and the retransmission module's run in either order.           *)
(*                                                                         *)
(* A frame is an identity: a list node is on one list at a time and lists  *)
(* carry no order a receiver could see, so the lists are sets.             *)
(* largest_ack is never read and max_delay is always 0: both are left out. *)
(***************************************************************************)
EXTENDS AckFrame, FiniteSetsExt

CONSTANTS
    Frames,             \* the frames the endpoint ever creates for this space
    Eliciting,          \* all but ACK frames: packing one sets included_unacked
    Reliable,           \* STREAM frames: they carry on_acked and on_lost
    AckFrames,          \* the ACK frames the peer may send
    PktLens,            \* lengths of a packet
    LostDelays,         \* loss delays in use (at least 9 smoothed RTT, 500 ms)
    Ptos,               \* probe timeouts the congestion module computes
    MaxNum,             \* bound: packet numbers are 0 .. MaxNum
    LastSend,           \* bound: no packet is sent after this time
    MaxTime             \* bound: the clock stops here

ASSUME FramesAssumption ==
    /\ Reliable \subseteq Eliciting
    /\ Eliciting \subseteq Frames

\* The peer builds its ACK frames from packet numbers, as AckGenerator does.
ASSUME AckFramesAssumption == \A frame \in AckFrames : DoesNotWrap(frame)

ASSUME NumbersAssumption ==
    /\ PktLens \subseteq Nat \ {0}
    /\ LostDelays \subseteq Nat \ {0}
    /\ Ptos \subseteq Nat \ {0}
    /\ MaxNum \in Nat
    /\ LastSend \in Nat
    /\ MaxTime \in Nat

VARIABLES
    now,
    todo,                   \* module loops left in this turn of the event loop
    loop_deadline,          \* session->loop_deadline, 0 when none is set
    next,                   \* the packet number generator
    sent_mem,               \* packet number -> quic_sent_packet_rbt_t
    sent_pkt_count,
    unacked_len,
    loss_time,
    last_sent_ack_time,
    alarm,
    pto_backoff,            \* 1 << pto_count
    dropped,
    retransmission_queue,
    fresh,                  \* history: frames not packed yet
    acked,                  \* history: frames whose on_acked ran
    freed                   \* history: frames given back without on_acked

counters == <<sent_pkt_count, unacked_len>>
timers   == <<loss_time, last_sent_ack_time, alarm, pto_backoff>>
history  == <<fresh, acked, freed>>
vars     == <<now, todo, loop_deadline, next, sent_mem, counters, timers,
              dropped, retransmission_queue, history>>

Loops == {"sender", "retransmission"}

Init ==
    /\ now = 1
    /\ todo = {}
    /\ loop_deadline = 0
    /\ next = 0
    /\ sent_mem = [n \in {} |-> 0]
    /\ sent_pkt_count = 0
    /\ unacked_len = 0
    /\ loss_time = 0
    /\ last_sent_ack_time = 0
    /\ alarm = 0
    /\ pto_backoff = 1
    /\ dropped = FALSE
    /\ retransmission_queue = {}
    /\ fresh = Frames
    /\ acked = {}
    /\ freed = {}

-----------------------------------------------------------------------------
InFlight == DOMAIN sent_mem
FramesOf(S) == UNION {sent_mem[n].frames : n \in S}
Outstanding == FramesOf(InFlight)

\* The next number of the space's packet number generator.
FaultyNumber == next
NextNumber == next + 1

\* The bytes a set of packets adds to unacked_len: only ack-eliciting ones count.
FaultyBytesOf(S) == MapThenSumSet(LAMBDA n : sent_mem[n].pkt_len, S)
BytesOf(S) ==
    MapThenSumSet(LAMBDA n : IF sent_mem[n].included_unacked
                             THEN sent_mem[n].pkt_len ELSE 0, S)

\* quic_session_update_loop_deadline
Earlier(deadline, t) ==
    IF t # 0 /\ (deadline = 0 \/ t < deadline) THEN t ELSE deadline

\* quic_retransmission_update_alarm
AlarmAt(bytes, sent_time, pto, backoff) ==
    IF bytes = 0 THEN 0 ELSE sent_time + pto * backoff

\* The frames of a packet that is gone: those with callbacks go to on_acked, or
\* by on_lost to the queue; the others are freed either way.
FaultyWithCallbacks(S) == {}
WithCallbacks(S) == FramesOf(S) \cap Reliable
FaultyWithoutCallbacks(S) == FramesOf(S)
WithoutCallbacks(S) == FramesOf(S) \ Reliable

\* The packets find_newly_lost gives up on, and the loss_time the others leave.
Lost(S, delay) == {n \in S : sent_mem[n].sent_time + delay < now}
FaultyLossTime(S, delay) ==
    IF S = {} THEN loss_time ELSE Min({sent_mem[n].sent_time + delay : n \in S})
LossTime(S, delay) ==
    IF S = {} THEN 0 ELSE Min({sent_mem[n].sent_time + delay : n \in S})

-----------------------------------------------------------------------------
\* Time passes on its own.
Tick ==
    /\ now < MaxTime
    /\ now' = now + 1
    /\ UNCHANGED <<todo, loop_deadline, next, sent_mem, counters, timers,
                   dropped, retransmission_queue, history>>

\* The event loop starts a turn, whoever activated it.
Wake ==
    /\ todo = {}
    /\ todo' = Loops
    /\ loop_deadline' = 0
    /\ UNCHANGED <<now, next, sent_mem, counters, timers, dropped,
                   retransmission_queue, history>>

WakeOnDeadline == loop_deadline # 0 /\ now >= loop_deadline /\ Wake

\* The sender's loop packs a packet with frames fs, new ones and lost ones, and
\* hands it to sent_mem (quic_sender_send_packet, sent_mem_push).
Send(fs, len, pto) ==
    /\ "sender" \in todo
    /\ todo' = todo \ {"sender"}
    /\ ~dropped
    /\ next <= MaxNum
    /\ now <= LastSend
    /\ fs # {}
    /\ fs \subseteq fresh \cup retransmission_queue
    /\ next' = NextNumber
    /\ sent_mem' = [n \in InFlight \cup {next} |->
                      IF n = next
                      THEN [ sent_time        |-> now,
                             pkt_len          |-> len,
                             included_unacked |-> fs \cap Eliciting # {},
                             frames           |-> fs ]
                      ELSE sent_mem[n]]
    /\ sent_pkt_count' = sent_pkt_count + 1
    /\ IF fs \cap Eliciting # {}
       THEN /\ last_sent_ack_time' = now
            /\ unacked_len' = unacked_len + len
            /\ alarm' = AlarmAt(unacked_len', now, pto, pto_backoff)
            /\ loop_deadline' = Earlier(loop_deadline, alarm')
       ELSE UNCHANGED <<last_sent_ack_time, unacked_len, alarm, loop_deadline>>
    /\ retransmission_queue' = retransmission_queue \ fs
    /\ fresh' = fresh \ fs
    /\ UNCHANGED <<now, loss_time, pto_backoff, dropped, acked, freed>>

\* Nothing to send, or congestion control and pacing forbid it.
SendNothing ==
    /\ "sender" \in todo
    /\ todo' = todo \ {"sender"}
    /\ UNCHANGED <<now, loop_deadline, next, sent_mem, counters, timers,
                   dropped, retransmission_queue, history>>

\* An ACK frame, handled by the receiver before the module loops run
\* (quic_session_handle_ack_frame, find_newly_acked, find_newly_lost).
HandleAck(frame, delay, pto) ==
    LET newly_acked == InFlight \cap AckedBy(frame)
        rest        == InFlight \ newly_acked
        newly_lost  == Lost(rest, delay)
        kept        == rest \ newly_lost
    IN  /\ todo = Loops
        /\ ~dropped
        /\ sent_mem' = [n \in kept |-> sent_mem[n]]
        /\ sent_pkt_count' = sent_pkt_count - Cardinality(newly_acked)
                                            - Cardinality(newly_lost)
        /\ unacked_len' = unacked_len - BytesOf(newly_acked) - BytesOf(newly_lost)
        /\ acked' = acked \cup WithCallbacks(newly_acked)
        /\ retransmission_queue' = retransmission_queue \cup WithCallbacks(newly_lost)
        /\ freed' = freed \cup WithoutCallbacks(newly_acked \cup newly_lost)
        /\ loss_time' = LossTime(kept, delay)
        /\ pto_backoff' = 1
        /\ alarm' = AlarmAt(unacked_len', last_sent_ack_time, pto, 1)
        /\ loop_deadline' = Earlier(loop_deadline, alarm')
        /\ UNCHANGED <<now, todo, next, last_sent_ack_time, dropped, fresh>>

\* quic_retransmission_module_loop before the alarm: ask to be woken for it.
FaultyLoopEarly ==
    /\ "retransmission" \in todo
    /\ todo' = todo \ {"retransmission"}
    /\ ~dropped
    /\ alarm # 0
    /\ now < alarm
    /\ UNCHANGED <<now, loop_deadline, next, sent_mem, counters, timers, dropped,
                   retransmission_queue, history>>

LoopEarly ==
    /\ "retransmission" \in todo
    /\ todo' = todo \ {"retransmission"}
    /\ ~dropped
    /\ alarm # 0
    /\ now < alarm
    /\ loop_deadline' = Earlier(loop_deadline, alarm)
    /\ UNCHANGED <<now, next, sent_mem, counters, timers, dropped,
                   retransmission_queue, history>>

\* The alarm has passed and loss_time is set: look for lost packets.  The alarm
\* moves only when a packet is kept.
LoopDue(delay, pto) ==
    LET newly_lost == Lost(InFlight, delay)
        kept       == InFlight \ newly_lost
    IN  /\ "retransmission" \in todo
        /\ todo' = todo \ {"retransmission"}
        /\ ~dropped
        /\ alarm # 0
        /\ now >= alarm
        /\ unacked_len # 0
        /\ loss_time # 0
        /\ pto_backoff' = 2 * pto_backoff
        /\ sent_mem' = [n \in kept |-> sent_mem[n]]
        /\ sent_pkt_count' = sent_pkt_count - Cardinality(newly_lost)
        /\ unacked_len' = unacked_len - BytesOf(newly_lost)
        /\ retransmission_queue' = retransmission_queue \cup WithCallbacks(newly_lost)
        /\ freed' = freed \cup WithoutCallbacks(newly_lost)
        /\ loss_time' = LossTime(kept, delay)
        /\ alarm' = IF kept = {} THEN alarm
                    ELSE AlarmAt(unacked_len', last_sent_ack_time, pto, pto_backoff')
        /\ loop_deadline' = IF kept = {} THEN loop_deadline
                            ELSE Earlier(loop_deadline, alarm')
        /\ UNCHANGED <<now, next, last_sent_ack_time, dropped, fresh, acked>>

\* No alarm, a closed space, or an alarm that passed with nothing to go by:
\* the loop returns without arming anything.
LoopIdle ==
    /\ "retransmission" \in todo
    /\ todo' = todo \ {"retransmission"}
    /\ \/ dropped
       \/ alarm = 0
       \/ now >= alarm /\ (unacked_len = 0 \/ loss_time = 0)
    /\ UNCHANGED <<now, loop_deadline, next, sent_mem, counters, timers, dropped,
                   retransmission_queue, history>>

\* quic_retransmission_drop: the space is closed, every frame is freed.
FaultyDrop ==
    /\ todo # {}
    /\ sent_mem' = [n \in {} |-> 0]
    /\ freed' = freed \cup Outstanding \cup retransmission_queue
    /\ dropped' = TRUE
    /\ UNCHANGED <<now, todo, loop_deadline, next, counters, timers,
                   retransmission_queue, fresh, acked>>

Drop ==
    /\ todo # {}
    /\ sent_mem' = [n \in {} |-> 0]
    /\ retransmission_queue' = {}
    /\ freed' = freed \cup Outstanding \cup retransmission_queue
    /\ sent_pkt_count' = 0
    /\ unacked_len' = 0
    /\ loss_time' = 0
    /\ last_sent_ack_time' = 0
    /\ alarm' = 0
    /\ dropped' = TRUE
    /\ UNCHANGED <<now, todo, loop_deadline, next, pto_backoff, fresh, acked>>

Next ==
    \/ Tick
    \/ Wake
    \/ \E fs \in SUBSET Frames, len \in PktLens, pto \in Ptos : Send(fs, len, pto)
    \/ SendNothing
    \/ \E frame \in AckFrames, delay \in LostDelays, pto \in Ptos :
            HandleAck(frame, delay, pto)
    \/ LoopEarly
    \/ \E delay \in LostDelays, pto \in Ptos : LoopDue(delay, pto)
    \/ LoopIdle
    \/ Drop

Spec == Init /\ [][Next]_vars

\* The clock advances, a turn of the event loop finishes, and the event loop
\* wakes for a deadline.  Nothing obliges it to wake without one.
Fairness ==
    /\ WF_vars(Tick)
    /\ WF_vars(WakeOnDeadline)
    /\ WF_vars(SendNothing)
    /\ WF_vars(LoopEarly)
    /\ WF_vars(\E delay \in LostDelays, pto \in Ptos : LoopDue(delay, pto))
    /\ WF_vars(LoopIdle)

FairSpec == Spec /\ Fairness

-----------------------------------------------------------------------------
\* Types of the state (BytesExact gives unacked_len its own).
SentPacket == [ sent_time : Nat, pkt_len : PktLens,
                included_unacked : BOOLEAN, frames : SUBSET Frames ]

TypeOK ==
    /\ now \in Nat
    /\ todo \subseteq Loops
    /\ loop_deadline \in Nat
    /\ next \in Nat
    /\ InFlight \subseteq 0 .. next - 1
    /\ sent_mem \in [InFlight -> SentPacket]
    /\ sent_pkt_count \in Nat
    /\ loss_time \in Nat
    /\ last_sent_ack_time \in Nat
    /\ alarm \in Nat
    /\ pto_backoff \in Nat \ {0}
    /\ dropped \in BOOLEAN
    /\ retransmission_queue \subseteq Frames
    /\ fresh \subseteq Frames
    /\ acked \subseteq Frames
    /\ freed \subseteq Frames

\* A frame is in exactly one place: not packed yet, in one packet in flight, in
\* the retransmission queue, acknowledged, or freed.  Nothing leaks, nothing is
\* freed twice, no frame is on two lists, whatever acks, losses, the timer and
\* the closing of the space do in whatever order.
OnePacketPerFrame ==
    \A m, n \in InFlight : m # n => sent_mem[m].frames \cap sent_mem[n].frames = {}

OnePlacePerFrame ==
    /\ Frames = fresh \cup Outstanding \cup retransmission_queue \cup acked \cup freed
    /\ fresh \cap (Outstanding \cup retransmission_queue \cup acked \cup freed) = {}
    /\ Outstanding \cap (retransmission_queue \cup acked \cup freed) = {}
    /\ retransmission_queue \cap (acked \cup freed) = {}
    /\ acked \cap freed = {}

FramesConserved == OnePacketPerFrame /\ OnePlacePerFrame

\* While the space is open a STREAM frame is never given up: it is unsent, in
\* flight, waiting to be sent again, or acknowledged.  Only such frames wait in
\* the queue.
ReliableFramesKept ==
    /\ retransmission_queue \subseteq Reliable
    /\ ~dropped => freed \cap Reliable = {}

\* The packets counted are the packets in sent_mem, for ACK frames that do not
\* wrap (one that does can match a packet twice and count it off twice).
CountExact == sent_pkt_count = Cardinality(InFlight)

\* The bytes in flight that congestion control sees are the bytes of the
\* ack-eliciting packets in sent_mem: acks and losses subtract what sending
\* added, once, and the uint32_t never goes below zero, for ACK frames that do not
\* wrap.
BytesExact == unacked_len = BytesOf(InFlight)

\* loss_time is the deadline of the oldest packet that is still in flight, a loss
\* delay after it was sent: whatever removes packets recomputes it, and a packet
\* sent later is not older.
IsOldest(n) == \A m \in InFlight : sent_mem[n].sent_time <= sent_mem[m].sent_time

LossTimeIsOfAPacketInFlight ==
    loss_time # 0 => \E n \in InFlight, delay \in LostDelays :
                        IsOldest(n) /\ loss_time = sent_mem[n].sent_time + delay

\* Once a loss deadline is known, the event loop never goes to sleep without a
\* wake-up while ack-eliciting bytes are in flight, though every turn resets
\* loop_deadline and the module loops run in either order.
SleepsWithDeadline ==
    (todo = {} /\ unacked_len # 0 /\ loss_time # 0)
        => (alarm # 0 /\ loop_deadline # 0 /\ loop_deadline <= alarm)

\* A STREAM frame in flight while a loss deadline is known does not stay in
\* flight for ever, even when no further ACK arrives: it is acknowledged,
\* queued again, or its space is closed.  (Without a loss deadline, that is
\* before the first ACK or after one that covered everything, the timer does
\* nothing and no such promise holds.)
LossIsDetected ==
    \A f \in Reliable :
        (f \in Outstanding /\ loss_time # 0) ~> (f \notin Outstanding)
=============================================================================
