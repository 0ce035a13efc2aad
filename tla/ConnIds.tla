------------------------------- MODULE ConnIds -------------------------------
(***************************************************************************)
(* A server: its sessions, the ids it routes packets by (server.c), and    *)
(* the exchange of ids with each session's peer (modules/connid_gen).      *)
(*                                                                         *)
(* The peer is any that keeps to RFC 9000: it issues ids with ascending    *)
(* numbers and non-decreasing retire_prior_to, says the same each time it  *)
(* repeats a frame, and retires ids it was told of.  The network loses,    *)
(* repeats and reorders: from_peer only grows, and a frame that is never   *)
(* handled is lost.  All actions run on the server's one event loop.       *)
(***************************************************************************)
EXTENDS ConnIdGen

CONSTANTS
    Sessions,           \* the sessions Initial packets create
    Ids,                \* what RAND_bytes may yield
    ActiveConnId,       \* the peer's active_connection_id_limit
    PeerMaxSeq,         \* bound: the number of ids each session's peer issues
    MaxRetires          \* bound: the number of ids it retires

\* The id of the client's first packets; it is not in the server's map.  No id
\* drawn at random is taken for one.
ClientChosen == "client's"

ASSUME IdsAssumption == ClientChosen \notin Ids

ASSUME BoundsAssumption ==
    /\ ActiveConnId \in Nat
    /\ PeerMaxSeq \in [Sessions -> Nat]
    /\ MaxRetires \in [Sessions -> Nat]

VARIABLES
    status,             \* of the session
    gen,                \* its connid_gen module
    sessions,           \* server->sessions: id -> session
    from_peer,          \* the frames its peer has sent
    to_peer,            \* history: the frames it was given to send
    heard               \* history: the peer's numbers it handled

vars == <<status, gen, sessions, from_peer, to_peer, heard>>

Init ==
    /\ status = [s \in Sessions |-> "none"]
    /\ gen = [s \in Sessions |-> Started(ClientChosen)]
    /\ sessions = [id \in {} |-> "none"]
    /\ from_peer = [s \in Sessions |-> {}]
    /\ to_peer = [s \in Sessions |-> {}]
    /\ heard = [s \in Sessions |-> {0}]

-----------------------------------------------------------------------------
\* An Initial packet: a session of its own, whatever it repeats.
Accept(s) ==
    /\ status[s] = "none"
    /\ status' = [status EXCEPT ![s] = "initial"]
    /\ UNCHANGED <<gen, sessions, from_peer, to_peer, heard>>

\* quic_server_new_connid_cb refuses an id that is routed already, and
\* quic_connid_gen_issue_src draws until it is accepted.
FaultyFreeIds == Ids
FreeIds == Ids \ DOMAIN sessions

\* quic_server_new_connid_cb, for an id it accepts
Routing(map, ids, s) == [id \in DOMAIN map \cup ids |-> IF id \in ids THEN s ELSE map[id]]

\* The module is left in g; what it queued goes to the sender.
Leave(s, g) ==
    /\ gen' = [gen EXCEPT ![s] = [g EXCEPT !.ctrl = <<>>]]
    /\ to_peer' = [to_peer EXCEPT ![s] = @ \cup ToSet(g.ctrl)]

\* quic_session_set_transport_parameter, once, with the peer's hello.
SetTransportParameter(s) ==
    /\ status[s] = "initial"
    /\ \E drawn \in [1 .. ActiveConnId -> FreeIds] :
        /\ IsInjective(drawn)
        /\ Leave(s, FoldLeft(IssueSrc, gen[s], drawn))
        /\ sessions' = Routing(sessions, Range(drawn), s)
    /\ status' = [status EXCEPT ![s] = "open"]
    /\ UNCHANGED <<from_peer, heard>>

-----------------------------------------------------------------------------
\* A packet is the session's only if one of its ids leads there
\* (quic_server_transmission_recv_cb).
Reachable(s) == \E id \in DOMAIN sessions : sessions[id] = s

\* Frames that follow CONNECTION_CLOSE in a packet are still handled.
Handles(s, frame) ==
    /\ status[s] \in {"open", "closing"}
    /\ Reachable(s)
    /\ frame \in from_peer[s]

HandleNewConnId(s, frame) ==
    /\ Handles(s, frame)
    /\ frame.type = "NEW_CONNECTION_ID"
    /\ Leave(s, HandleNewConnectionId(gen[s], frame))
    /\ heard' = [heard EXCEPT ![s] = @ \cup {frame.seq}]
    /\ UNCHANGED <<status, sessions, from_peer>>

\* quic_server_retire_connid_cb, before the id is freed.
Unrouted(g, seq) == {g.srcs[k] : k \in DOMAIN g.srcs \cap {seq}}

HandleRetire(s, frame) ==
    LET left == Restrict(sessions, DOMAIN sessions \ Unrouted(gen[s], frame.seq))
    IN  /\ Handles(s, frame)
        /\ frame.type = "RETIRE_CONNECTION_ID"
        /\ IF Replaces(gen[s], frame.seq)
           THEN \E id \in FreeIds \cup Unrouted(gen[s], frame.seq) :
                    /\ Leave(s, RetireSrc(gen[s], frame.seq, id))
                    /\ sessions' = Routing(left, {id}, s)
           ELSE /\ Leave(s, RetireSrc(gen[s], frame.seq, ClientChosen))
                /\ sessions' = left
        /\ UNCHANGED <<status, from_peer, heard>>

-----------------------------------------------------------------------------
\* quic_session_close, or CONNECTION_CLOSE of the peer: the channel is closed.
Close(s) ==
    /\ status[s] \in {"initial", "open"}
    /\ status' = [status EXCEPT ![s] = "closing"]
    /\ UNCHANGED <<gen, sessions, from_peer, to_peer, heard>>

\* quic_session_close_procedure: quic_connid_gen_retire_all, then the modules
\* are destroyed.  (replace_close only fills a map that nothing reads.)  No
\* frame reaches the session any more, so what was under way is forgotten.
IdsOf(s) == Range(gen[s].srcs)

CloseProcedure(s) ==
    /\ status[s] = "closing"
    /\ status' = [status EXCEPT ![s] = "closed"]
    /\ sessions' = Restrict(sessions, DOMAIN sessions \ IdsOf(s))
    /\ gen' = [gen EXCEPT ![s] = Started(ClientChosen)]
    /\ from_peer' = [from_peer EXCEPT ![s] = {}]
    /\ to_peer' = [to_peer EXCEPT ![s] = {}]
    /\ heard' = [heard EXCEPT ![s] = {0}]

-----------------------------------------------------------------------------
\* The peer.
Issued(s) == {f \in from_peer[s] : f.type = "NEW_CONNECTION_ID"}

PeerIssues(s, seq, retire) ==
    /\ status[s] = "open"
    /\ seq = Cardinality(Issued(s)) + 1
    /\ retire <= seq
    /\ \A f \in Issued(s) : f.retire <= retire
    /\ from_peer' = [from_peer EXCEPT ![s] = @ \cup {NewConnectionId(seq, retire, "peer's")}]
    /\ UNCHANGED <<status, gen, sessions, to_peer, heard>>

PeerRetires(s, seq) ==
    /\ status[s] = "open"
    /\ seq = 0 \/ \E f \in to_peer[s] : f.type = "NEW_CONNECTION_ID" /\ f.seq = seq
    /\ Cardinality(from_peer[s] \ Issued(s)) < MaxRetires[s]
    /\ from_peer' = [from_peer EXCEPT ![s] = @ \cup {RetireConnectionId(seq)}]
    /\ UNCHANGED <<status, gen, sessions, to_peer, heard>>

Next ==
    \E s \in Sessions :
        \/ Accept(s) \/ SetTransportParameter(s)
        \/ \E frame \in from_peer[s] : HandleNewConnId(s, frame) \/ HandleRetire(s, frame)
        \/ Close(s) \/ CloseProcedure(s)
        \/ \E seq \in 1 .. PeerMaxSeq[s], retire \in 0 .. PeerMaxSeq[s] : PeerIssues(s, seq, retire)
        \/ \E seq \in 0 .. ActiveConnId + MaxRetires[s] : PeerRetires(s, seq)

Spec == Init /\ [][Next]_vars

-----------------------------------------------------------------------------
Live == {s \in Sessions : status[s] \in {"open", "closing"}}

\* The server routes by exactly the ids that its live sessions hold, each to the
\* one session that holds it: two sessions never share an id, no id that was
\* given out leads nowhere, and none leads to a session that is gone, whatever
\* order frames, repetitions and closes come in.
RoutesAreExact ==
    \A s \in Sessions :
        LET held == {k \in DOMAIN gen[s].srcs : k # 0}
        IN  /\ {id \in DOMAIN sessions : sessions[id] = s} = {gen[s].srcs[k] : k \in held}
            /\ \A j, k \in held : gen[s].srcs[j] = gen[s].srcs[k] => j = k
            /\ held # {} => Cardinality(held) = ActiveConnId

\* The id packets are sent to is one the peer gave and was not told to forget,
\* and session->dst is that id: it is never left pointing into a freed entry.
DestinationIsValid ==
    \A s \in Live :
        /\ gen[s].dst = gen[s].dst_active
        /\ gen[s].dst \in gen[s].dsts
        /\ RetireConnectionId(gen[s].dst) \notin to_peer[s]

\* Each id the peer gave is kept or the peer is told to take it back, as soon as
\* it is known, so the peer's limit never fills with ids nobody uses: also for
\* ids that arrive after they were retired.
EveryIdIsAnswered ==
    \A s \in Live : \A seq \in heard[s] :
        seq \in gen[s].dsts \/ RetireConnectionId(seq) \in to_peer[s]
=============================================================================
