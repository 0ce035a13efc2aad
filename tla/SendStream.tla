----------------------------- MODULE SendStream -----------------------------
(***************************************************************************)
(* The sending half of streams (modules/stream), their send windows        *)
(* (modules/stream_flowctrl) and the framer's queue of active streams      *)
(* (modules/framer), from which the sender takes STREAM frames.            *)
(*                                                                         *)
(* Two threads meet here.  The event loop runs the write coroutines, the   *)
(* sender and the handlers of received frames, one at a time; the          *)
(* application may call close and set_deadline from a thread of its own    *)
(* at any point where the event loop holds no mutex.  The framer holds its *)
(* mutex for the whole of append_stream_frame, and frees it between the    *)
(* frames of a packet, while the event loop stays in the sender's loop     *)
(* until a call yields nothing.                                            *)
(*                                                                         *)
(* A byte is <<w, i>>, byte i of the stream's w-th write.  The application *)
(* writes to a stream again when the last write has finished.              *)
(* unacked_frames_count is left out: nothing reads it.                     *)
(***************************************************************************)
EXTENDS Integers, SequencesExt

CONSTANTS
    Streams,
    Closing,            \* the streams the application closes
    Timed,              \* the streams the application sets deadlines on
    WriteLens,          \* lengths of a write
    MaxWrites,          \* bound: writes per stream
    InitialWindow,      \* stream_flowctrl_initial_swnd of this endpoint
    Windows,            \* the limits MAX_STREAM_DATA frames carry
    Rooms,              \* bytes a packet has left for STREAM frames
    HeaderLen,          \* of them, what the header of a frame takes
    Word                \* 2^32: max_bytes is a uint32_t

ASSUME StreamsAssumption == Closing \subseteq Streams /\ Timed \subseteq Streams

ASSUME SizesAssumption ==
    /\ WriteLens \subseteq Nat
    /\ MaxWrites \in Nat
    /\ InitialWindow \in Nat
    /\ Windows \subseteq Nat
    /\ Word \in Nat
    /\ HeaderLen \in 1 .. Word - 1
    /\ Rooms \subseteq 0 .. Word - 1

VARIABLES
    writer,             \* where the stream's write coroutine is
    closer,             \* where the application's quic_send_stream_close is
    len,                \* the length of the current write
    reader_len,         \* the part of it that is not in a frame yet
    off,
    deadline,
    closed,
    sent_fin,
    swnd, sent_bytes, last_blocked_at,
    active_set,
    active_queue,
    max_bytes,          \* what is left of the packet that is packed
    writes,             \* history: writes begun
    reported,           \* history: what each finished write was told it sent
    frames,             \* history: the STREAM frames generated with data or FIN
    blocked             \* history: limits of the STREAM_DATA_BLOCKED frames

stream   == <<len, reader_len, off, deadline, closed, sent_fin>>
flowctrl == <<swnd, sent_bytes, last_blocked_at>>
framer   == <<active_set, active_queue>>
history  == <<writes, reported, frames, blocked>>
vars     == <<writer, closer, stream, flowctrl, framer, max_bytes, history>>

\* max_bytes while no packet is packed.
NoPacket == -1

Init ==
    /\ writer = [s \in Streams |-> "idle"]
    /\ closer = [s \in Streams |-> "idle"]
    /\ len = [s \in Streams |-> 0]
    /\ reader_len = [s \in Streams |-> 0]
    /\ off = [s \in Streams |-> 0]
    /\ deadline = [s \in Streams |-> "none"]
    /\ closed = [s \in Streams |-> FALSE]
    /\ sent_fin = [s \in Streams |-> FALSE]
    /\ swnd = [s \in Streams |-> InitialWindow]
    /\ sent_bytes = [s \in Streams |-> 0]
    /\ last_blocked_at = [s \in Streams |-> 0]
    /\ active_set = {}
    /\ active_queue = <<>>
    /\ max_bytes = NoPacket
    /\ writes = [s \in Streams |-> 0]
    /\ reported = [s \in Streams |-> <<>>]
    /\ frames = [s \in Streams |-> <<>>]
    /\ blocked = [s \in Streams |-> <<>>]

-----------------------------------------------------------------------------
\* The event loop is neither in the middle of a write coroutine nor of a packet.
LoopIsFree ==
    /\ \A s \in Streams : writer[s] \notin {"adding", "parking"}
    /\ max_bytes = NoPacket

\* quic_framer_add_active; it activates the sender, which may run at any time.
FaultyAddActive(s) ==
    /\ active_set' = active_set \cup {s}
    /\ active_queue' = Append(active_queue, s)

AddActive(s) ==
    IF s \in active_set
    THEN UNCHANGED framer
    ELSE /\ active_set' = active_set \cup {s}
         /\ active_queue' = Append(active_queue, s)

\* liteco_chan_unenforceable_push on sent_segment_chan, a channel without a
\* buffer: a push nobody waits for is dropped.
Notified(s) ==
    IF writer[s] \in {"waiting", "selecting"} THEN "woken" ELSE writer[s]

Notify(s) == writer' = [writer EXCEPT ![s] = Notified(s)]

\* quic_stream_flowctrl_instance_get_swnd
Window(s) == IF sent_bytes[s] > swnd[s] THEN 0 ELSE swnd[s] - sent_bytes[s]

-----------------------------------------------------------------------------
(***************************************************************************)
(* Writing: quic_stream_write and the coroutine quic_stream_write_co       *)
(***************************************************************************)
Write(s, n) ==
    /\ writer[s] = "idle"
    /\ ~closed[s]
    /\ writes[s] < MaxWrites
    /\ writer' = [writer EXCEPT ![s] = "joined"]
    /\ len' = [len EXCEPT ![s] = n]
    /\ writes' = [writes EXCEPT ![s] = @ + 1]
    /\ UNCHANGED <<closer, reader_len, off, deadline, closed, sent_fin, flowctrl,
                   framer, max_bytes, reported, frames, blocked>>

\* The conditions under which the coroutine returns.
GivesUp(s, remaining) == closed[s] \/ deadline[s] = "passed" \/ remaining = 0

\* It returns: the mutex is still held, the done callback gets pos.
Finish(s, pos) ==
    /\ writer' = [writer EXCEPT ![s] = "idle"]
    /\ reader_len' = [reader_len EXCEPT ![s] = 0]
    /\ reported' = [reported EXCEPT ![s] = Append(@, pos)]

Start(s) ==
    /\ LoopIsFree
    /\ writer[s] = "joined"
    /\ IF GivesUp(s, len[s])
       THEN Finish(s, 0)
       ELSE /\ writer' = [writer EXCEPT ![s] = "adding"]
            /\ reader_len' = [reader_len EXCEPT ![s] = len[s]]
            /\ UNCHANGED reported
    /\ UNCHANGED <<closer, len, off, deadline, closed, sent_fin, flowctrl,
                   framer, max_bytes, writes, frames, blocked>>

\* The mutex is free again: add the stream to the active ones, the first time,
\* and wait for the frames to be sent, with a timer if there is a deadline.
Wait(s) ==
    /\ writer[s] \in {"adding", "parking"}
    /\ IF writer[s] = "adding" THEN AddActive(s) ELSE UNCHANGED framer
    /\ writer' = [writer EXCEPT ![s] = IF deadline[s] = "none" THEN "waiting" ELSE "selecting"]
    /\ UNCHANGED <<closer, stream, flowctrl, max_bytes, history>>

\* What a write is told it sent.
FaultyPos(s) == len[s]
Pos(s) == len[s] - reader_len[s]

Resume(s) ==
    /\ LoopIsFree
    /\ writer[s] = "woken"
    /\ IF GivesUp(s, reader_len[s])
       THEN Finish(s, Pos(s))
       ELSE /\ writer' = [writer EXCEPT ![s] = "parking"]
            /\ UNCHANGED <<reader_len, reported>>
    /\ UNCHANGED <<closer, len, off, deadline, closed, sent_fin, flowctrl,
                   framer, max_bytes, writes, frames, blocked>>

\* The timer is started with the deadline itself, a point in time, where liteco
\* expects a delay: it may fire at any time.
TimerFires(s) ==
    /\ writer[s] = "selecting"
    /\ writer' = [writer EXCEPT ![s] = "woken"]
    /\ UNCHANGED <<closer, stream, flowctrl, framer, max_bytes, history>>

\* quic_send_stream_set_deadline
SetDeadline(s, d) ==
    /\ s \in Timed
    /\ deadline' = [deadline EXCEPT ![s] = d]
    /\ Notify(s)
    /\ UNCHANGED <<closer, len, reader_len, off, closed, sent_fin, flowctrl,
                   framer, max_bytes, history>>

DeadlinePasses(s) ==
    /\ deadline[s] = "set"
    /\ deadline' = [deadline EXCEPT ![s] = "passed"]
    /\ UNCHANGED <<writer, closer, len, reader_len, off, closed, sent_fin,
                   flowctrl, framer, max_bytes, history>>

-----------------------------------------------------------------------------
(***************************************************************************)
(* Closing: quic_send_stream_close                                         *)
(***************************************************************************)
CloseMark(s) ==
    /\ s \in Closing
    /\ ~closed[s]
    /\ closed' = [closed EXCEPT ![s] = TRUE]
    /\ closer' = [closer EXCEPT ![s] = "marked"]
    /\ UNCHANGED <<writer, len, reader_len, off, deadline, sent_fin, flowctrl,
                   framer, max_bytes, history>>

CloseAdd(s) ==
    /\ closer[s] = "marked"
    /\ AddActive(s)
    /\ closer' = [closer EXCEPT ![s] = "added"]
    /\ UNCHANGED <<writer, stream, flowctrl, max_bytes, history>>

CloseNotify(s) ==
    /\ closer[s] = "added"
    /\ Notify(s)
    /\ closer' = [closer EXCEPT ![s] = "done"]
    /\ UNCHANGED <<stream, flowctrl, framer, max_bytes, history>>

-----------------------------------------------------------------------------
(***************************************************************************)
(* Sending: the sender's loop over STREAM frames, each of them from        *)
(* quic_framer_append_stream_frame and quic_send_stream_generate.          *)
(* Streams are not destroyed here, so the one at the head always exists.   *)
(***************************************************************************)
\* The sender packs a packet and comes to the STREAM frames.
PackPacket(room) ==
    /\ LoopIsFree
    /\ max_bytes' = room
    /\ UNCHANGED <<writer, closer, stream, flowctrl, framer, history>>

\* No stream is active: the packet has what there is.
NoneIsActive ==
    /\ max_bytes # NoPacket
    /\ active_set = {}
    /\ max_bytes' = NoPacket
    /\ UNCHANGED <<writer, closer, stream, flowctrl, framer, history>>

\* quic_stream_frame_capacity
Capacity == IF max_bytes > HeaderLen THEN max_bytes - HeaderLen ELSE 0

FaultyPayload(s) == Min({reader_len[s], Capacity})
Payload(s) == Min({reader_len[s], Window(s), Capacity})

\* The stream has nothing to send, or no window, or the packet no room; it is
\* moved to the end of the queue and the packet ends.  A limit is reported once,
\* when it blocks.
FaultyRequeue(s) == <<s>> \o Tail(active_queue)
Requeue(s) == Append(Tail(active_queue), s)

NewlyBlocked(s) == Window(s) = 0 /\ swnd[s] # last_blocked_at[s]

AppendNothing(s) ==
    /\ max_bytes # NoPacket
    /\ active_queue # <<>>
    /\ s = Head(active_queue)
    /\ Payload(s) = 0
    /\ ~closed[s]
    /\ IF NewlyBlocked(s)
       THEN /\ last_blocked_at' = [last_blocked_at EXCEPT ![s] = swnd[s]]
            /\ blocked' = [blocked EXCEPT ![s] = Append(@, swnd[s])]
       ELSE UNCHANGED <<last_blocked_at, blocked>>
    /\ active_queue' = Requeue(s)
    /\ max_bytes' = NoPacket
    /\ UNCHANGED <<writer, closer, stream, swnd, sent_bytes, active_set, writes,
                   reported, frames>>

\* The bytes the frame carries: the next n of the current write.
Data(s, n) == [i \in 1 .. n |-> <<writes[s], len[s] - reader_len[s] + i>>]

\* FIN goes on a frame that finds nothing left to send, and on one that leaves
\* something: not on the one that sends the rest.
FaultyFin(s, n) == closed[s] /\ (reader_len[s] = 0 \/ n < reader_len[s])
Fin(s, n) ==
    /\ closed[s]
    /\ ~sent_fin[s]
    /\ reader_len[s] = 0 \/ n < reader_len[s]

\* Whether the stream leaves the active ones.
FaultyEmpty(s, n) == n > 0 \/ reader_len[s] = 0 \/ Fin(s, n)
Empty(s, n) == n = reader_len[s] \/ Fin(s, n)

\* Between unlock and lock around the push only close can set closed, and the
\* frame does not look at it again when nothing is left: one step.  A closed
\* stream yields a frame even without payload or room for it: max_bytes may wrap.
AppendFrame(s) ==
    LET n == Payload(s)
    IN  /\ max_bytes # NoPacket
        /\ active_queue # <<>>
        /\ s = Head(active_queue)
        /\ n # 0 \/ closed[s]
        /\ frames' = [frames EXCEPT ![s] =
                IF n = 0 /\ ~Fin(s, n) THEN @
                ELSE Append(@, [off |-> off[s], data |-> Data(s, n), fin |-> Fin(s, n)])]
        /\ off' = [off EXCEPT ![s] = @ + n]
        /\ sent_bytes' = [sent_bytes EXCEPT ![s] = @ + n]
        /\ reader_len' = [reader_len EXCEPT ![s] = @ - n]
        /\ sent_fin' = [sent_fin EXCEPT ![s] = @ \/ Fin(s, n)]
        /\ IF reader_len[s] # 0 /\ n = reader_len[s] THEN Notify(s) ELSE UNCHANGED writer
        /\ IF Empty(s, n)
           THEN active_queue' = Tail(active_queue) /\ active_set' = active_set \ {s}
           ELSE active_queue' = Requeue(s) /\ UNCHANGED active_set
        /\ max_bytes' = (max_bytes - HeaderLen - n) % Word
        /\ UNCHANGED <<closer, len, deadline, closed, swnd, last_blocked_at,
                       writes, reported, blocked>>

\* quic_send_stream_handle_max_stream_data_frame
MaxStreamData(s, max_data) ==
    /\ LoopIsFree
    /\ swnd' = [swnd EXCEPT ![s] = IF max_data > @ THEN max_data ELSE @]
    /\ IF reader_len[s] # 0 THEN AddActive(s) ELSE UNCHANGED framer
    /\ UNCHANGED <<writer, closer, stream, sent_bytes, last_blocked_at, max_bytes, history>>

-----------------------------------------------------------------------------
Next ==
    \/ \E s \in Streams :
        \/ \E n \in WriteLens : Write(s, n)
        \/ Start(s) \/ Wait(s) \/ Resume(s) \/ TimerFires(s)
        \/ \E d \in {"none", "set"} : SetDeadline(s, d)
        \/ DeadlinePasses(s)
        \/ CloseMark(s) \/ CloseAdd(s) \/ CloseNotify(s)
        \/ AppendNothing(s) \/ AppendFrame(s)
        \/ \E max_data \in Windows : MaxStreamData(s, max_data)
    \/ \E room \in Rooms : PackPacket(room)
    \/ NoneIsActive

Spec == Init /\ [][Next]_vars

\* Both threads finish what they began, also a packet: the runtime takes woken
\* coroutines in turn, so one coroutine that runs again and again does not keep
\* the others from running (strong fairness).  Nobody is obliged to write, to
\* close or to open a window.
ThreadsAreFair ==
    /\ \A s \in Streams :
        /\ SF_vars(Start(s)) /\ WF_vars(Wait(s)) /\ SF_vars(Resume(s))
        /\ WF_vars(CloseAdd(s)) /\ WF_vars(CloseNotify(s))
    /\ WF_vars(NoneIsActive \/ \E s \in Streams : AppendNothing(s) \/ AppendFrame(s))

\* An assumption about the session's surroundings, not about the sender, which
\* arms no deadline when the pacer has no budget, congestion leaves no window or
\* nothing was packed: whenever the event loop is free for long enough, something
\* (a packet, a timer, a call) wakes it while there is budget and window, and what
\* goes before the STREAM frames leaves room for a byte.
SenderIsWoken == SF_vars(\E room \in Rooms : room > HeaderLen /\ PackPacket(room))

FairSpec == Spec /\ ThreadsAreFair /\ SenderIsWoken

-----------------------------------------------------------------------------
Frame == [off : Nat, data : Seq(Nat \X Nat), fin : BOOLEAN]

\* Types of the state.
TypeOK ==
    /\ writer \in [Streams -> {"idle", "joined", "adding", "parking", "waiting",
                               "selecting", "woken"}]
    /\ closer \in [Streams -> {"idle", "marked", "added", "done"}]
    /\ len \in [Streams -> Nat]
    /\ reader_len \in [Streams -> Nat]
    /\ off \in [Streams -> Nat]
    /\ deadline \in [Streams -> {"none", "set", "passed"}]
    /\ closed \in [Streams -> BOOLEAN]
    /\ sent_fin \in [Streams -> BOOLEAN]
    /\ swnd \in [Streams -> Nat]
    /\ sent_bytes \in [Streams -> Nat]
    /\ last_blocked_at \in [Streams -> Nat]
    /\ active_set \subseteq Streams
    /\ active_queue \in Seq(Streams)
    /\ max_bytes \in Nat \cup {NoPacket}
    /\ writes \in [Streams -> Nat]
    /\ reported \in [Streams -> Seq(Nat)]
    /\ frames \in [Streams -> Seq(Frame)]
    /\ blocked \in [Streams -> Seq(Nat)]

\* Every active stream is in the queue once and the queue holds no other: both
\* structures are changed by two threads, in five places.
QueueIsTheSet ==
    /\ TypeOK
    /\ active_set = ToSet(active_queue)
    /\ \A i, j \in DOMAIN active_queue : i # j => active_queue[i] # active_queue[j]

\* How much of write w has been put into frames: what was reported for a
\* finished write, what is gone from the reader for the current one.
Progress(s, w) ==
    IF w <= Len(reported[s]) THEN reported[s][w]
    ELSE IF writer[s] = "joined" THEN 0 ELSE Pos(s)

Sent(s) == FlattenSeq([i \in DOMAIN frames[s] |-> frames[s][i].data])

\* A stream's frames are contiguous and carry the writes one after the other,
\* of each write exactly the prefix that is reported to its callback: neither a
\* close nor a deadline in the middle, nor a frame generated after a write gave
\* up, sends a byte twice, out of order, or without saying so.
FramesCarryWhatIsReported ==
    \A s \in Streams :
        /\ Sent(s) = FlattenSeq([w \in 1 .. writes[s] |->
                                    [i \in 1 .. Progress(s, w) |-> <<w, i>>]])
        /\ \A i \in DOMAIN frames[s] :
                frames[s][i].off =
                    Len(FlattenSeq([j \in 1 .. i - 1 |-> frames[s][j].data]))

\* No frame goes past the limit in force, the endpoint's own until the peer raises
\* it, also when limits, data and the close come in any order, and each limit is
\* reported in a STREAM_DATA_BLOCKED frame at most once.
WithinWindow ==
    \A s \in Streams :
        /\ off[s] <= swnd[s]
        /\ \A i, j \in DOMAIN blocked[s] : i < j => blocked[s][i] < blocked[s][j]

\* At most one frame of a stream carries FIN, and only after close, though the
\* stream may become active again after it.
OneFin ==
    \A s \in Streams :
        LET fins == {i \in DOMAIN frames[s] : frames[s][i].fin}
        IN  /\ \A i, j \in fins : i = j
            /\ fins # {} <=> sent_fin[s]
            /\ sent_fin[s] => closed[s]

\* A stream with data to send is active from the moment its write has added it,
\* unless it is closed: generating frames, blocking, unblocking and timers, in
\* whatever order, never leave it behind.
DataIsActive ==
    \A s \in Streams :
        (reader_len[s] # 0 /\ writer[s] # "adding" /\ ~closed[s]) => s \in active_set

\* The sender packs one packet for ever: the only active stream is closed and has
\* sent FIN, has data left and no window.  It then yields one frame after the
\* other that carries nothing, and the loop ends only when a call yields no frame.
SpinsOn(s) ==
    /\ max_bytes # NoPacket
    /\ active_queue = <<s>>
    /\ closed[s] /\ sent_fin[s]
    /\ reader_len[s] # 0 /\ Window(s) = 0

\* A write to a stream nobody closes returns when its window is large enough and
\* the sender is woken again and again, whatever the other streams do: one that is
\* blocked does not hold up the others, nor one that is closed in the middle of a
\* write, but for the one case in which the sender never leaves its loop.
EveryWriteReturns ==
    \A s \in Streams \ Closing :
        (writer[s] # "idle" /\ Window(s) >= len[s])
            ~> (writer[s] = "idle" \/ \E t \in Closing : SpinsOn(t))

\* Closing a stream sends FIN (stream.c: "send fin flag").
FinFollowsClose == \A s \in Streams : closed[s] ~> sent_fin[s]
=============================================================================
