------------------------------ MODULE Handshake ------------------------------
(***************************************************************************)
(* The handshake of a client and a server session: encryption levels, keys *)
(* and CRYPTO data (modules/sealer), the sender's choice of a packet       *)
(* number space and what it packs (modules/sender), connection ids         *)
(* (ConnIdGen) and the close of a session (session.c), over a network that *)
(* loses, repeats and reorders packets: net only grows, and a packet never *)
(* taken is lost.                                                          *)
(*                                                                         *)
(* A TLS flight fits into one packet: quic_sealer_append_crypto_frame      *)
(* leaves no room for the frame's own header, so a longer one overruns     *)
(* the packet.  None of the frames here has an on_lost, so what is lost is *)
(* gone; the records of Retransmission are left out.  So are packet        *)
(* numbers, and stream frames, which are sent at the last level only.      *)
(***************************************************************************)
EXTENDS ConnIdGen

CONSTANT Closers        \* the endpoints whose application closes the session

VARIABLES
    ep,                 \* the two sessions
    net,                \* packets sent
    got                 \* history: packets received at least once

vars == <<ep, net, got>>

cli == "client"
ser == "server"
Other(e) == IF e = cli THEN ser ELSE cli

ASSUME ClosersAssumption == Closers \subseteq {cli, ser}

\* enum ssl_encryption_level_t without early data; each level has a packet
\* number space of its own.
Initial == 0
Handshake == 2
Application == 3
Spaces == {Initial, Handshake, Application}

-----------------------------------------------------------------------------
(***************************************************************************)
(* The sealer.  An operator takes a session x to what a call leaves of it. *)
(***************************************************************************)

\* quic_sealer_module_init
Session(is_cli) ==
    [ is_cli |-> is_cli,
      status |-> "open",
      level |-> Initial,
      r_level |-> Initial,
      r_keys |-> {}, w_keys |-> {},
      unsent |-> [l \in Spaces |-> <<>>],   \* the write sorters
      sent |-> [l \in Spaces |-> 0],        \* their readed_size, in messages
      read |-> [l \in Spaces |-> 0],        \* readed_size of the read sorters
      tls |-> <<>>,                         \* messages given to TLS
      params |-> FALSE,                     \* transport_parameter_processed
      owes_ack |-> [l \in Spaces |-> FALSE],
      dropped |-> {},
      gen |-> Started(0) ]

\* quic_sealer_set_read_secret, which also moves r_level
SetReadSecret(x, l) == [x EXCEPT !.r_keys = @ \cup {l}, !.r_level = l]

\* quic_sealer_set_write_secret
SetWriteSecret(x, l) == [x EXCEPT !.w_keys = @ \cup {l}]

\* quic_sealer_write_handshake_data: at the last level it is thrown away.
WriteHandshakeData(x, l, msgs) ==
    IF l = Application THEN x ELSE [x EXCEPT !.unsent[l] = @ \o msgs]

\* quic_sealer_set_level: a level closes the space below it.
SetLevel(x, l) ==
    [x EXCEPT !.level = l,
              !.dropped = @ \cup (IF l = Handshake THEN {Initial} ELSE {})
                            \cup (IF l = Application THEN {Handshake} ELSE {})]

-----------------------------------------------------------------------------
\* BoringSSL.  A message given at another level than its own is refused.
LevelOf(msg) == IF msg \in {"CH", "SH"} THEN Initial ELSE Handshake

TlsTakes(x, msg) ==
    CASE msg = "CH" ->
            LET y == SetWriteSecret(WriteHandshakeData(x, Initial, <<"SH">>), Handshake)
                z == SetReadSecret(WriteHandshakeData(y, Handshake, <<"EE", "FIN">>), Handshake)
            IN  SetWriteSecret(z, Application)
      [] msg = "SH"  -> SetReadSecret(SetWriteSecret(x, Handshake), Handshake)
      [] msg = "EE"  -> x
      [] msg = "FIN" -> SetReadSecret(
                            SetWriteSecret(WriteHandshakeData(x, Handshake, <<"CF">>), Application),
                            Application)
      [] msg = "CF"  -> SetReadSecret(x, Application)

ProvideQuicData(x, msg) ==
    IF x.r_level = LevelOf(msg)
    THEN TlsTakes([x EXCEPT !.tls = Append(@, msg)], msg)
    ELSE x

TlsIsDone(x) == ToSet(x.tls) \cap {"FIN", "CF"} # {}
TlsHasParams(x) == ToSet(x.tls) \cap {"CH", "EE"} # {}

-----------------------------------------------------------------------------
HandshakeDone == [type |-> "HANDSHAKE_DONE"]

\* quic_sealer_handshake_process, after SSL_do_handshake
FaultyHandshakeProcess(x) ==
    IF TlsIsDone(x) /\ ~x.is_cli THEN SetLevel(x, Application) ELSE x
HandshakeProcess(x) ==
    IF TlsIsDone(x) /\ ~x.is_cli
    THEN [SetLevel(x, Application) EXCEPT !.gen = FramerCtrl(@, <<HandshakeDone>>)]
    ELSE x

\* quic_session_set_transport_parameter: both configurations ask for two ids.
ActiveConnId == 2
IssueSrcs(g) == FoldLeft(IssueSrc, g, [i \in 1 .. ActiveConnId |-> g.src_hseq + i])

\* quic_sealer_process_peer_transport_parameters, until TLS has them
PeerTransportParameters(x) ==
    IF ~x.params /\ TlsHasParams(x)
    THEN [x EXCEPT !.params = TRUE, !.gen = IssueSrcs(@)]
    ELSE x

\* quic_session_handle_crypto_frame: the messages that are new, one by one.
HandleCrypto(x, frame, l) ==
    LET new == {i \in DOMAIN frame.msgs : frame.off + i > x.read[l]}
        Take(y, i) ==
            IF i \in new
            THEN PeerTransportParameters(
                    HandshakeProcess(ProvideQuicData(y, frame.msgs[i])))
            ELSE y
    IN  FoldLeft(Take, [x EXCEPT !.read[l] = Max({@, frame.off + Len(frame.msgs)})],
                 [i \in DOMAIN frame.msgs |-> i])

\* quic_sealer_module_start and openssl_start: the keys of the first level, made
\* from the id the client chose; the client's hello.
Opened(is_cli) ==
    LET x == SetReadSecret(SetWriteSecret(Session(is_cli), Initial), Initial)
    IN  IF is_cli THEN WriteHandshakeData(x, Initial, <<"CH">>) ELSE x

-----------------------------------------------------------------------------
(***************************************************************************)
(* Receiving: quic_recver_handle_packet and the handlers                   *)
(***************************************************************************)
Handle(x, frame, l) ==
    CASE frame.type = "ACK" -> x
      [] frame.type = "CRYPTO" -> HandleCrypto(x, frame, l)
      [] frame.type = "NEW_CONNECTION_ID" ->
            [x EXCEPT !.gen = HandleNewConnectionId(@, frame)]
      [] frame.type = "RETIRE_CONNECTION_ID" ->
            [x EXCEPT !.gen = RetireSrc(@, frame.seq, @.src_hseq + 1)]
      [] frame.type = "HANDSHAKE_DONE" -> SetLevel(x, Application)
      [] frame.type = "CONNECTION_CLOSE" ->
            IF x.status = "open" THEN [x EXCEPT !.status = "closing"] ELSE x

IsEliciting(frames) == \E i \in DOMAIN frames : frames[i].type # "ACK"

Processed(x, p) ==
    LET Step(y, frame) == Handle(y, frame, p.space)
        y == FoldLeft(Step, x, p.frames)
    IN  [y EXCEPT !.owes_ack[p.space] =
            IF p.space \in y.dropped THEN @ ELSE @ \/ IsEliciting(p.frames)]

\* quic_sealer_open.  Without the keys of the space the AEAD context is empty:
\* what happens is up to BoringSSL, and the session is not followed any further.
Open(x, p) ==
    IF p.space \in x.r_keys THEN Processed(x, p) ELSE [x EXCEPT !.status = "broken"]

\* The event loop may still handle packets and send one after the channel was
\* closed, before it gets to the close procedure.
Runs(x) == x.status \in {"open", "closing"}

\* quic_client_transmission_recv_cb has one session; the server's callback makes
\* a session from every Initial packet, the first one being the one followed
\* here, and looks up the ids of all others.
Routed(x, p) == p.dst \in DOMAIN x.gen.srcs \ {0}

Receive(p) ==
    LET e == Other(p.from)
        x == ep[e]
    IN  /\ p \in net
        /\ IF e = ser /\ p.space = Initial
           THEN x.status = "none" /\ ep' = [ep EXCEPT ![e] = Open(Opened(FALSE), p)]
           ELSE /\ Runs(x)
                /\ e = cli \/ Routed(x, p)
                /\ ep' = [ep EXCEPT ![e] = Open(x, p)]
        /\ got' = got \cup {p}
        /\ UNCHANGED net

-----------------------------------------------------------------------------
(***************************************************************************)
(* Sending: quic_sender_module_loop.  probe: congestion lets no data pass. *)
(***************************************************************************)
Ack == [type |-> "ACK"]

\* quic_ack_generator_append_ack_frame
AckFrames(x, l) == IF x.owes_ack[l] /\ l \notin x.dropped THEN <<Ack>> ELSE <<>>

\* quic_sealer_append_crypto_frame
CryptoFrames(x, l) ==
    IF x.unsent[l] = <<>> THEN <<>>
    ELSE <<[type |-> "CRYPTO", off |-> x.sent[l], msgs |-> x.unsent[l]]>>

\* quic_sender_pack_initial_packet: <<>> is no packet.
InitialFrames(x, probe) ==
    IF x.unsent[Initial] = <<>> THEN <<>>
    ELSE AckFrames(x, Initial) \o (IF probe THEN <<>> ELSE CryptoFrames(x, Initial))

\* quic_sender_pack_handshake_packet
FaultyHandshakeFrames(x, probe) ==
    IF x.unsent[Handshake] = <<>> THEN <<>>
    ELSE AckFrames(x, Handshake) \o (IF probe THEN <<>> ELSE CryptoFrames(x, Handshake))
HandshakeFrames(x, probe) ==
    IF x.unsent[Handshake] = <<>> /\ x.gen.ctrl = <<>> THEN <<>>
    ELSE AckFrames(x, Handshake)
            \o (IF probe THEN <<>> ELSE x.gen.ctrl \o CryptoFrames(x, Handshake))

\* quic_sender_pack_app_packet, without streams
AppFrames(x, probe) ==
    IF x.gen.ctrl = <<>> /\ ~x.owes_ack[Application] THEN <<>>
    ELSE AckFrames(x, Application) \o (IF probe THEN <<>> ELSE x.gen.ctrl)

FramesAt(x, l, probe) ==
    CASE l = Initial     -> InitialFrames(x, probe)
      [] l = Handshake   -> HandshakeFrames(x, probe)
      [] l = Application -> AppFrames(x, probe)

\* The space of the next packet: at the first level, when it has nothing to send,
\* the second.
FaultySpace(x, l, probe) ==
    /\ FramesAt(x, l, probe) # <<>>
    /\ \/ l = x.level
       \/ x.level = Initial /\ l = Handshake
Space(x, l, probe) ==
    /\ FramesAt(x, l, probe) # <<>>
    /\ \/ l = x.level
       \/ x.level = Initial /\ l = Handshake /\ InitialFrames(x, probe) = <<>>

\* What packing leaves; a handshake packet raises the level.
Packed(x, l, probe) ==
    LET y == [x EXCEPT !.owes_ack[l] = FALSE]
        z == IF probe THEN y
             ELSE [y EXCEPT !.sent[l] = @ + Len(x.unsent[l]),
                            !.unsent[l] = <<>>,
                            !.gen.ctrl = IF l = Initial THEN @ ELSE <<>>]
    IN  IF l = Handshake THEN SetLevel(z, Handshake) ELSE z

\* quic_sender_generate_long_header and generate_short_header, and
\* quic_sealer_seal: the id the peer is to be reached by, and the payload.
Packet(e, l, frames) ==
    [from |-> e, space |-> l, dst |-> ep[e].gen.dst, frames |-> frames]

Send(e, probe) ==
    /\ Runs(ep[e])
    /\ \E l \in Spaces :
        /\ Space(ep[e], l, probe)
        /\ net' = net \cup {Packet(e, l, FramesAt(ep[e], l, probe))}
        /\ ep' = [ep EXCEPT ![e] = Packed(ep[e], l, probe)]
    /\ UNCHANGED got

-----------------------------------------------------------------------------
(***************************************************************************)
(* Closing                                                                 *)
(***************************************************************************)
ConnectionClose == [type |-> "CONNECTION_CLOSE"]

\* quic_session_close
Close(e) ==
    /\ e \in Closers
    /\ ep[e].status = "open"
    /\ ep' = [ep EXCEPT ![e].status = "closing"]
    /\ UNCHANGED <<net, got>>

\* quic_sender_pack_connection_close: in the space of the level.
FaultyCloseSpace(x) == Initial
CloseSpace(x) == x.level

\* quic_session_close_procedure, whoever closed first: the last packet, no ids
\* (quic_connid_gen_retire_all), no modules.
CloseProcedure(e) ==
    /\ ep[e].status = "closing"
    /\ net' = net \cup {Packet(e, CloseSpace(ep[e]), <<ConnectionClose>>)}
    /\ ep' = [ep EXCEPT ![e].status = "closed"]
    /\ UNCHANGED got

-----------------------------------------------------------------------------
Init ==
    /\ ep = [e \in {cli, ser} |->
                IF e = cli THEN Opened(TRUE) ELSE [Session(FALSE) EXCEPT !.status = "none"]]
    /\ net = {}
    /\ got = {}

Next ==
    \/ \E p \in net : Receive(p)
    \/ \E e \in {cli, ser} :
        \/ \E probe \in BOOLEAN : Send(e, probe)
        \/ Close(e)
        \/ CloseProcedure(e)

Spec == Init /\ [][Next]_vars

\* Each packet arrives, in any order, perhaps more than once; congestion lets
\* data pass in the end, and the event loop, which runs all modules after each
\* packet, gets to what it has to do.
FairSpec ==
    /\ Spec
    /\ WF_vars(\E p \in net \ got : Receive(p))
    /\ \A e \in {cli, ser} : WF_vars(Send(e, FALSE)) /\ WF_vars(CloseProcedure(e))

-----------------------------------------------------------------------------
\* The messages that an endpoint reads in a space, in all.
ToRead(x, l) ==
    CASE l = Initial     -> IF x.is_cli THEN <<"SH">> ELSE <<"CH">>
      [] l = Handshake   -> IF x.is_cli THEN <<"EE", "FIN">> ELSE <<"CF">>
      [] l = Application -> <<>>

\* A space is closed only when it is done with: what had to be read in it was
\* read, nothing in it waits to be sent, and every space below is closed too;
\* TLS got its messages in order, each once and at its level, whatever is
\* repeated; and the client is at the last level only if the server is.
ClosedSpacesAreDone ==
    /\ \A e \in {cli, ser} :
        /\ IsPrefix(ep[e].tls, ToRead(ep[e], Initial) \o ToRead(ep[e], Handshake))
        /\ \A l \in Spaces : l < ep[e].level =>
            /\ l \in ep[e].dropped
            /\ ep[e].unsent[l] = <<>>
            /\ ep[e].read[l] = Len(ToRead(ep[e], l))
        /\ \A l \in ep[e].dropped : l < ep[e].level
    /\ ep[cli].level = Application => ep[ser].level = Application

\* Every packet is sealed with keys its sender has, and each packet of the client
\* that is not the first reaches the server: it carries an id that is routed,
\* however the ids were exchanged and retired on the way.
PacketsArePossible ==
    \A p \in net :
        /\ p.space \in ep[p.from].w_keys
        /\ p.from = cli /\ p.space # Initial => Routed(ep[ser], p)

\* When no packet is lost both endpoints reach the last level, or the session is
\* closed (or broken by a packet that overtook its keys).
HandshakeCompletes ==
    <>(\/ \A e \in {cli, ser} : ep[e].level = Application
       \/ \E e \in {cli, ser} : ep[e].status \in {"closed", "broken"})

\* When no packet is lost and an endpoint closes, so does the other, unless it is
\* the client at the first level, whose last packet only makes the server start
\* another session.
CloseIsHeard ==
    \A e \in {cli, ser} :
        (ep[e].status = "closed" /\ (e = ser \/ ep[e].level # Initial))
            ~> (ep[Other(e)].status \in {"closed", "broken"})
=============================================================================
