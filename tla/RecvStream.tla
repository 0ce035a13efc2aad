----------------------------- MODULE RecvStream -----------------------------
(***************************************************************************)
(* The receiving half of a stream (modules/stream), its receive window     *)
(* (modules/stream_flowctrl) and what it reports to the connection's       *)
(* (modules/conn_flowctrl), with a peer that keeps to the limit it knows:  *)
(* its own initial one until a MAX_STREAM_DATA frame raises it.            *)
(*                                                                         *)
(* The event loop runs the read coroutine, the handler of STREAM frames    *)
(* and the sender; the application calls close from a thread of its own.   *)
(* A push on handled_chan follows the handler's unlock, but only close can *)
(* come between and it wakes the same reader: the handler is one step.     *)
(*                                                                         *)
(* The sorter is what module Sorter shows of it: it holds the bytes that   *)
(* arrived and gives them out in order, up to the first that is missing.   *)
(* The peer sends the frames of one stream, each as often as it likes,     *)
(* once its limit covers it.  stream_recv_timeout is 0, as both client.c   *)
(* and server.c set it, so a reader waits without a deadline.  Nobody      *)
(* reads the connection's window: of it only the two offsets are kept.     *)
(***************************************************************************)
EXTENDS Integers, FiniteSetsExt

CONSTANTS
    PeerChoices,        \* the ways a peer may cut a stream: sets of frames
    ReadLens,           \* lengths the application asks for
    InitialSwnds,       \* what stream_flowctrl_initial_swnd may be at the peer
    InitialRwnd,        \* stream_flowctrl_initial_rwnd
    MaxRwndSize         \* stream_flowctrl_max_rwnd_size

ASSUME WindowAssumption ==
    /\ InitialSwnds \subseteq Nat
    /\ InitialRwnd \in Nat \ {0}
    /\ MaxRwndSize \in Nat
    /\ InitialRwnd <= MaxRwndSize

ASSUME ReadLensAssumption == ReadLens \subseteq Nat \ {0}

\* A peer never cuts a stream anew: a frame that is lost is sent again as it was
\* (quic_framer_stream_frame_on_lost queues it whole), and a stream has one end.
ASSUME PeerAssumption ==
    \A frames \in PeerChoices :
        /\ frames \subseteq [off : Nat, len : Nat, fin : BOOLEAN]
        /\ \A f, g \in frames :
                f # g => f.off + f.len <= g.off \/ g.off + g.len <= f.off
        /\ \A f, g \in frames : f.fin /\ g.fin => f.off + f.len = g.off + g.len

VARIABLES
    peer_frames,        \* the frames this peer sends: [off, len, fin]
    initial_swnd,       \* the limit it starts from: its own, never told to anybody
    granted,            \* the limit it keeps to
    announced,          \* limits of the MAX_STREAM_DATA frames sent to it
    reader, want,       \* where the read coroutine is, the length it was given
    closer, completed,  \* where quic_recv_stream_close is, its local
    arrived, readed_size,               \* the sorter
    fin_flag, final_off, closed,        \* quic_recv_stream_t
    rwnd, rwnd_size, recv_off, read_off, epoch_off, fc_fin_flag,
    rwnd_updated,       \* the stream is in the module's set of that name
    conn_recv_off, conn_read_off

peer     == <<peer_frames, initial_swnd, granted, announced>>
close    == <<closer, completed, closed>>
sorter   == <<arrived, readed_size>>
final    == <<fin_flag, final_off>>
window   == <<rwnd, rwnd_size, read_off, epoch_off, rwnd_updated>>
received == <<recv_off, fc_fin_flag, conn_recv_off>>
vars     == <<peer, reader, want, close, sorter, final, window, received,
              conn_read_off>>

Init ==
    /\ peer_frames \in PeerChoices
    /\ initial_swnd \in InitialSwnds
    /\ granted = initial_swnd
    /\ announced = {}
    /\ reader = "idle"
    /\ want = 0
    /\ closer = "idle"
    /\ completed = FALSE
    /\ arrived = {}
    /\ readed_size = 0
    /\ fin_flag = FALSE
    /\ final_off = -1           \* QUIC_SORTER_MAX_SIZE: beyond every stream
    /\ closed = FALSE
    /\ rwnd = InitialRwnd
    /\ rwnd_size = InitialRwnd
    /\ recv_off = 0
    /\ read_off = 0
    /\ epoch_off = 0
    /\ fc_fin_flag = FALSE
    /\ rwnd_updated = FALSE
    /\ conn_recv_off = 0
    /\ conn_read_off = 0

-----------------------------------------------------------------------------
AvailSize(S) == Min({o \in 0 .. Cardinality(S) : o \notin S})

\* quic_sorter_readable.  Closing destroys the sorter: nothing is read from it.
Readable == AvailSize(arrived) - readed_size
AtEnd == fin_flag /\ final_off <= readed_size

-----------------------------------------------------------------------------
(***************************************************************************)
(* The window: quic_stream_flowctrl_instance_read and adjust_rwnd.  The    *)
(* smoothed RTT may be unknown, and the epoch fast or slow.                *)
(***************************************************************************)
FaultyGrown == 2 * rwnd_size
Grown == Min({2 * rwnd_size, MaxRwndSize})

FaultyReopens(read) == read > rwnd
Reopens(read) ==
    ~fc_fin_flag /\ (read >= rwnd \/ rwnd - read <= (rwnd_size * 3) \div 4)

AdjustRwnd(read) ==
    \/ UNCHANGED <<rwnd_size, epoch_off>>
    \/ /\ read - epoch_off > rwnd_size \div 2
       /\ rwnd_size' \in {rwnd_size, Grown}
       /\ epoch_off' = read

FlowctrlRead(n) ==
    /\ read_off' = read_off + n
    /\ conn_read_off' = conn_read_off + n
    /\ IF Reopens(read_off')
       THEN /\ AdjustRwnd(read_off')
            /\ rwnd' = read_off' + rwnd_size'
            /\ rwnd_updated' = TRUE
       ELSE UNCHANGED <<rwnd, rwnd_size, epoch_off, rwnd_updated>>

-----------------------------------------------------------------------------
(***************************************************************************)
(* Reading: quic_stream_read and the coroutine quic_stream_read_co, which  *)
(* holds the mutex from where it starts or wakes to where it sleeps or     *)
(* ends.  It sleeps only before it has read anything.                      *)
(***************************************************************************)
Read(n) ==
    /\ reader = "idle"
    /\ ~closed
    /\ reader' = "joined"
    /\ want' = n
    /\ UNCHANGED <<peer, close, sorter, final, window, received, conn_read_off>>

\* It reads what there is, which may be nothing, and returns.
TakeAndReturn ==
    LET n == IF closed THEN 0 ELSE Min({Readable, want})
    IN  /\ reader' = "idle"
        /\ readed_size' = readed_size + n
        /\ IF n = 0 THEN UNCHANGED <<window, conn_read_off>> ELSE FlowctrlRead(n)
        /\ UNCHANGED <<peer, want, close, arrived, final, received>>

Start ==
    /\ reader = "joined"
    /\ closed \/ AtEnd \/ Readable # 0
    /\ TakeAndReturn

Sleep ==
    /\ reader = "joined"
    /\ ~(closed \/ AtEnd \/ Readable # 0)
    /\ reader' = "waiting"
    /\ UNCHANGED <<peer, want, close, sorter, final, window, received, conn_read_off>>

\* After a wake-up it does not look at closed, final_off or readable again.
Resume ==
    /\ reader = "woken"
    /\ TakeAndReturn

Woken == IF reader = "waiting" THEN "woken" ELSE reader

-----------------------------------------------------------------------------
(***************************************************************************)
(* A STREAM frame: quic_recv_stream_handle_frame                           *)
(***************************************************************************)
\* quic_stream_flowctrl_instance_update_rwnd
UpdateRwnd(off, fin) ==
    IF fc_fin_flag /\ ((fin /\ off # recv_off) \/ off > recv_off)
    THEN UNCHANGED received
    ELSE /\ fc_fin_flag' = (fc_fin_flag \/ fin)
         /\ recv_off' = IF off > recv_off THEN off ELSE recv_off
         /\ conn_recv_off' = conn_recv_off + (recv_off' - recv_off)

\* Whether the reader is notified.
FaultyNotifies(f) == f.len # 0 /\ AvailSize(arrived') # AvailSize(arrived)
Notifies(f) ==
    IF f.len = 0 THEN f.fin /\ ~fin_flag
    ELSE AvailSize(arrived') # AvailSize(arrived)

HandleFrame(f) ==
    /\ f \in peer_frames
    /\ f.off + f.len <= granted
    /\ UpdateRwnd(f.off + f.len, f.fin)
    /\ fin_flag' = (fin_flag \/ f.fin)
    /\ final_off' = IF f.fin THEN f.off + f.len ELSE final_off
    /\ arrived' = IF closed THEN arrived ELSE arrived \cup (f.off .. f.off + f.len - 1)
    /\ reader' = IF ~closed /\ Notifies(f) THEN Woken ELSE reader
    /\ UNCHANGED <<peer, want, close, readed_size, window, conn_read_off>>

-----------------------------------------------------------------------------
(***************************************************************************)
(* Closing: quic_recv_stream_close; a second close does nothing.           *)
(***************************************************************************)
CloseMark ==
    /\ ~closed
    /\ closed' = TRUE
    /\ completed' = fin_flag
    /\ closer' = "marked"
    /\ UNCHANGED <<peer, reader, want, sorter, final, window, received, conn_read_off>>

CloseChan ==
    /\ closer = "marked"
    /\ closer' = "woke"
    /\ reader' = Woken
    /\ UNCHANGED <<peer, want, completed, closed, sorter, final, window, received,
                   conn_read_off>>

\* quic_stream_flowctrl_instance_abandon
FaultyUnread == recv_off
Unread == recv_off - read_off

CloseAbandon ==
    /\ closer = "woke"
    /\ closer' = "done"
    /\ conn_read_off' = conn_read_off + (IF completed THEN Unread ELSE 0)
    /\ UNCHANGED <<peer, reader, want, completed, closed, sorter, final, window,
                   received>>

-----------------------------------------------------------------------------
\* quic_stream_module_process_rwnd, before the sender packs a packet.
ProcessRwnd ==
    /\ rwnd_updated
    /\ rwnd_updated' = FALSE
    /\ announced' = announced \cup {rwnd}
    /\ UNCHANGED <<peer_frames, initial_swnd, granted, reader, want, close, sorter, final, rwnd,
                   rwnd_size, read_off, epoch_off, received, conn_read_off>>

\* A MAX_STREAM_DATA frame reaches the peer: late, repeated or never.
PeerLearns(max_data) ==
    /\ max_data \in announced
    /\ granted' = IF max_data > granted THEN max_data ELSE granted
    /\ UNCHANGED <<peer_frames, initial_swnd, announced, reader, want, close, sorter,
                   final, window, received, conn_read_off>>

Next ==
    \/ \E n \in ReadLens : Read(n)
    \/ Start \/ Sleep \/ Resume
    \/ \E f \in peer_frames : HandleFrame(f)
    \/ CloseMark \/ CloseChan \/ CloseAbandon
    \/ ProcessRwnd
    \/ \E max_data \in announced : PeerLearns(max_data)

Spec == Init /\ [][Next]_vars

\* The peer repeats its frames, the application keeps reading, and the event loop
\* runs what is woken.  MAX_STREAM_DATA frames are not repeated: no fairness here.
PeerAndThreadsAreFair ==
    /\ \A f \in UNION PeerChoices : WF_vars(HandleFrame(f))
    /\ WF_vars(\E n \in ReadLens : Read(n))
    /\ WF_vars(Start) /\ WF_vars(Sleep) /\ WF_vars(Resume)
    /\ WF_vars(CloseChan) /\ WF_vars(CloseAbandon)

\* An assumption about the session's surroundings: the sender, once activated,
\* comes to its window updates (it may have to wait for budget, see SendStream).
SenderIsWoken == WF_vars(ProcessRwnd)

FairSpec == Spec /\ PeerAndThreadsAreFair /\ SenderIsWoken

-----------------------------------------------------------------------------
\* Types of the state; every offset is an unsigned number.
TypeOK ==
    /\ peer_frames \in PeerChoices
    /\ initial_swnd \in InitialSwnds
    /\ granted \in Nat
    /\ announced \subseteq Nat
    /\ reader \in {"idle", "joined", "waiting", "woken"}
    /\ want \in Nat
    /\ closer \in {"idle", "marked", "woke", "done"}
    /\ completed \in BOOLEAN
    /\ arrived \subseteq Nat
    /\ readed_size \in Nat
    /\ fin_flag \in BOOLEAN
    /\ final_off \in Nat \cup {-1}
    /\ closed \in BOOLEAN
    /\ rwnd \in Nat
    /\ rwnd_size \in Nat
    /\ recv_off \in Nat
    /\ read_off \in Nat
    /\ epoch_off \in Nat
    /\ fc_fin_flag \in BOOLEAN
    /\ rwnd_updated \in BOOLEAN
    /\ conn_recv_off \in Nat
    /\ conn_read_off \in Nat

\* The bytes the sorter may have to hold are bounded: beyond the initial limit of
\* the peer, which nobody told it, a peer that keeps to what it was told is never
\* more than MaxRwndSize ahead of what was read, though it is told late and out of
\* order, and no limit it was told is taken back.
GrantsAreKept ==
    /\ TypeOK
    /\ recv_off <= initial_swnd \/ recv_off <= read_off + MaxRwndSize
    /\ \A max_data \in announced : max_data <= rwnd
    /\ rwnd <= read_off + MaxRwndSize

\* No reader sleeps while there is a byte for it, or the end, or after the
\* stream was closed (unless close is just about to wake it): no order of
\* frames, FIN, repetitions and close makes it miss its wake-up.
NoReaderSleepsOnData ==
    reader = "waiting" =>
        closer = "marked" \/ (~closed /\ Readable = 0 /\ ~AtEnd)

\* The connection is credited exactly what was read, and, when a finished stream
\* is closed, what was received and will never be read: once, though frames are
\* repeated and a reader wakes up during the close.
CreditIsExact ==
    /\ conn_recv_off = recv_off
    /\ read_off = readed_size
    /\ conn_read_off =
            IF closer = "done" /\ completed THEN recv_off ELSE read_off

\* The newest of the limits announced is higher than the one the peer keeps to: the
\* frame is still on its way, or it was lost.
PeerIsBehind == \E max_data \in announced : max_data > granted

\* The initial limit of the peer is at least a quarter of ours: having read all of
\* it, the window is due to open.
QuarterIsGranted == initial_swnd \in {n \in InitialSwnds : 4 * n >= InitialRwnd}

\* The whole stream is read unless it is closed, however small the windows are:
\* reading opens them again, also when the peer started from a limit above ours.
\* Two things end that in the code and are excepted: the peer is for ever without
\* the newest limit (its frame was lost, and nobody is left to read more), and a
\* peer that starts from less than a quarter of our window.
WholeStreamIsRead ==
    \/ <>[]PeerIsBehind
    \/ QuarterIsGranted ~> (closed \/ \A f \in peer_frames : f.off + f.len <= readed_size)

\* A read that returns nothing on a stream that has seen FIN is at its end
\* (examples/ngb/server_demo.c closes the stream then).
EmptyReadIsTheEnd ==
    [][ (reader # "idle" /\ reader' = "idle" /\ readed_size' = readed_size
            /\ fin_flag /\ ~closed) => AtEnd ]_vars
=============================================================================
