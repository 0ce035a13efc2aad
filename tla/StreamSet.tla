------------------------------- MODULE StreamSet -------------------------------
(***************************************************************************)
(* The set of a session's bidirectional streams (modules/stream): opening  *)
(* one, accepting one of the peer, closing and destroying it.              *)
(*                                                                         *)
(* A stream of the peer comes into being wherever its id is looked up: by  *)
(* a frame of the peer, and by the framer and the window updates, which    *)
(* remember ids.  So an id may outlive its stream, and a late frame or a   *)
(* remembered id makes a second stream of it.                              *)
(*                                                                         *)
(* The event loop runs the handlers, the framer, the write coroutines and  *)
(* the module's loop one at a time; the application opens and closes       *)
(* streams from threads of its own, between any two of the mutexes that    *)
(* close takes.  stream_destory_timeout is 0, as in both configurations.   *)
(***************************************************************************)
EXTENDS Integers, Sequences

CONSTANTS
    Own,            \* ids of this side's streams
    Peers,          \* ids of the peer's streams
    MaxOpens        \* bound: streams made of one id

ASSUME IdsAssumption == Own \cap Peers = {} /\ MaxOpens \in Nat

VARIABLES
    streams,        \* outbidi.streams and inbidi.streams: id -> stream or Freed
    opens,          \* how many streams an id has had
    closer,         \* how many steps of quic_stream_close are done; once
    destory_set,    \* the ids that wait to be destroyed
    active,         \* the ids in the framer's active queue
    rwnd_updated    \* the ids whose window is to be announced

vars == <<streams, opens, closer, destory_set, active, rwnd_updated>>

Sids == Own \cup Peers
Freed == [in_use |-> FALSE]

NewStream ==
    [in_use |-> TRUE, remain |-> FALSE, send_closed |-> FALSE, sent_fin |-> FALSE,
     recv_closed |-> FALSE, fin_flag |-> FALSE]

InUse(s) == streams[s].in_use

-----------------------------------------------------------------------------
(* Looking ids up, and what that makes of the set.                         *)
Opened(ids) == {s \in ids \cap Peers : ~InUse(s)}

LookUp(ids) == [s \in Sids |-> IF s \in Opened(ids) THEN NewStream ELSE streams[s]]

\* The new streams are the application's: the accept callback.
Accept(ids) ==
    /\ \A s \in Opened(ids) : opens[s] < MaxOpens
    /\ opens' = [s \in Sids |-> IF s \in Opened(ids) THEN opens[s] + 1 ELSE opens[s]]
    /\ closer' = [s \in Sids |-> IF s \in Opened(ids) THEN 0 ELSE closer[s]]

Destroable(str) == str.recv_closed /\ str.fin_flag /\ str.send_closed /\ str.sent_fin

-----------------------------------------------------------------------------
Init ==
    /\ streams = [s \in Sids |-> Freed]
    /\ opens = [s \in Sids |-> 0]
    /\ closer = [s \in Sids |-> 0]
    /\ destory_set = {}
    /\ active = {}
    /\ rwnd_updated = {}

\* quic_stream_open: the next id of this side.
Open(s) ==
    /\ s \in Own /\ opens[s] = 0
    /\ streams' = [streams EXCEPT ![s] = NewStream]
    /\ opens' = [opens EXCEPT ![s] = 1]
    /\ UNCHANGED <<closer, destory_set, active, rwnd_updated>>

\* A write begins, and its coroutine asks for the stream to be sent.
Write(s) ==
    /\ InUse(s) /\ ~streams[s].send_closed /\ ~streams[s].remain
    /\ streams' = [streams EXCEPT ![s].remain = TRUE]
    /\ active' = active \cup {s}
    /\ UNCHANGED <<opens, closer, destory_set, rwnd_updated>>

\* The write coroutine finds the stream closed and gives its data up.
GiveUp(s) ==
    /\ InUse(s) /\ streams[s].send_closed /\ streams[s].remain
    /\ streams' = [streams EXCEPT ![s].remain = FALSE]
    /\ UNCHANGED <<opens, closer, destory_set, active, rwnd_updated>>

\* A read opens the window.
Read(s) ==
    /\ InUse(s) /\ ~streams[s].recv_closed
    /\ rwnd_updated' = rwnd_updated \cup {s}
    /\ UNCHANGED <<streams, opens, closer, destory_set, active>>

\* A STREAM frame of the peer, new, late or repeated.
HandleStream(s, fin) ==
    /\ s \in Own => opens[s] > 0
    /\ Accept({s})
    /\ streams' = IF LookUp({s})[s].in_use /\ fin
                  THEN [LookUp({s}) EXCEPT ![s].fin_flag = TRUE]
                  ELSE LookUp({s})
    /\ UNCHANGED <<destory_set, active, rwnd_updated>>

\* A MAX_STREAM_DATA frame of the peer.
HandleMaxStreamData(s) ==
    /\ s \in Own => opens[s] > 0
    /\ Accept({s})
    /\ streams' = LookUp({s})
    /\ active' = IF LookUp({s})[s].in_use /\ LookUp({s})[s].remain
                 THEN active \cup {s} ELSE active
    /\ UNCHANGED <<destory_set, rwnd_updated>>

\* The sender announces the windows that have moved.
ProcessRwnd ==
    /\ rwnd_updated # {}
    /\ Accept(rwnd_updated)
    /\ streams' = LookUp(rwnd_updated)
    /\ rwnd_updated' = {}
    /\ UNCHANGED <<destory_set, active>>

(* The framer takes a STREAM frame of an active stream: all that is left   *)
(* to write, or as much of it as the window and the packet have room for.  *)
Generated(str, all) ==
    IF str.remain /\ all THEN [str EXCEPT !.remain = FALSE]
    ELSE [str EXCEPT !.sent_fin = @ \/ str.send_closed]

StaysActive(str, all) ==
    \/ ~str.send_closed /\ ~(str.remain /\ all)
    \/ str.send_closed /\ str.sent_fin /\ str.remain /\ ~all

AppendStreamFrame(s, all) ==
    /\ s \in active
    /\ Accept({s})
    /\ IF LookUp({s})[s].in_use
       THEN LET str == LookUp({s})[s]
            IN  /\ streams' = [LookUp({s}) EXCEPT ![s] = Generated(str, all)]
                /\ active' = IF StaysActive(str, all) THEN active ELSE active \ {s}
       ELSE streams' = streams /\ active' = active \ {s}
    /\ UNCHANGED <<destory_set, rwnd_updated>>

-----------------------------------------------------------------------------
(* quic_stream_close.                                                      *)

\* A bug that files the stream for destruction before it is done with it.
FaultyCloseSteps == <<"mark send", "activate", "mark recv", "push", "abandon">>

CloseSteps == <<"mark send", "activate", "mark recv", "abandon", "push">>

Closing(s) == closer[s] \in 1 .. Len(CloseSteps) - 1

CloseStep(s) ==
    /\ closer[s] < Len(CloseSteps)
    /\ InUse(s) \/ Closing(s)
    /\ closer' = [closer EXCEPT ![s] = @ + 1]
    /\ LET step == CloseSteps[closer[s] + 1]
       IN  /\ streams' = IF ~InUse(s) THEN streams
                         ELSE [streams EXCEPT ![s] =
                                [@ EXCEPT !.send_closed = @ \/ step = "mark send",
                                          !.recv_closed = @ \/ step = "mark recv"]]
           /\ active' = IF step = "activate" THEN active \cup {s} ELSE active
           /\ destory_set' = IF step = "push" THEN destory_set \cup {s} ELSE destory_set
    /\ UNCHANGED <<opens, rwnd_updated>>

\* quic_stream_module_loop: the closed callback, and the stream is freed.
Loop ==
    LET gone == {s \in destory_set : InUse(s) /\ Destroable(streams[s])}
    IN  /\ gone # {}
        /\ streams' = [s \in Sids |-> IF s \in gone THEN Freed ELSE streams[s]]
        /\ destory_set' = destory_set \ gone
        /\ UNCHANGED <<opens, closer, active, rwnd_updated>>

Next ==
    \/ \E s \in Sids : Open(s) \/ Write(s) \/ GiveUp(s) \/ Read(s) \/ CloseStep(s)
    \/ \E s \in Sids, fin \in BOOLEAN : HandleStream(s, fin)
    \/ \E s \in Sids : HandleMaxStreamData(s)
    \/ \E s \in Sids, all \in BOOLEAN : AppendStreamFrame(s, all)
    \/ ProcessRwnd
    \/ Loop

Spec == Init /\ [][Next]_vars

-----------------------------------------------------------------------------
\* A stream that was freed has left nothing of its close behind: no thread is
\* still inside quic_stream_close with it, and no entry of the destroy set
\* waits for the next stream of the same id, which it would free in the middle
\* of its use.
NothingOfCloseIsLeft ==
    \A s \in Sids :
        /\ ~InUse(s) => ~Closing(s) /\ s \notin destory_set
        /\ s \in destory_set => closer[s] = Len(CloseSteps)
=============================================================================
