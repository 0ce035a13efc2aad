---------------------------- MODULE AckExchange -----------------------------
(***************************************************************************)
(* One packet number space end to end: the retransmission module of the    *)
(* sender, the recver and the ack generator of its peer, and between them  *)
(* UDP, which loses, repeats and reorders packets in both directions.      *)
(*                                                                         *)
(* net and acks only grow: a packet that is never taken from them is lost, *)
(* one that is taken twice is repeated, and any order is possible.         *)
(***************************************************************************)
EXTENDS Retransmission

VARIABLES
    net,                    \* packets on their way to the peer
    acks,                   \* ACK frames on their way back
    processed,              \* frames the peer's handlers accepted
    ranges, ranges_count, lg_obnum, should_send, peer_dropped,
    received, unreported

G == INSTANCE AckGenerator WITH dropped <- peer_dropped

generator == <<ranges, ranges_count, lg_obnum, should_send, peer_dropped,
               received, unreported>>
peer == <<processed, generator>>
all  == <<vars, net, acks, peer>>

ExchangeInit ==
    /\ Init
    /\ G!Init
    /\ net = {}
    /\ acks = {}
    /\ processed = {}

-----------------------------------------------------------------------------
\* The sender's steps; a packet it sends reaches the network.
SendPacket(fs, len, pto) ==
    /\ Send(fs, len, pto)
    /\ net' = net \cup {[num |-> next, frames |-> fs]}
    /\ UNCHANGED <<acks, peer>>

Local ==
    /\ \/ Tick \/ Wake \/ SendNothing \/ LoopEarly \/ LoopIdle \/ Drop
       \/ \E delay \in LostDelays, pto \in Ptos : LoopDue(delay, pto)
    /\ UNCHANGED <<net, acks, peer>>

ReceiveAck(frame, delay, pto) ==
    /\ HandleAck(frame, delay, pto)
    /\ UNCHANGED <<net, acks, peer>>

\* quic_recver_process_packet_payload: every frame goes to its handler, then the
\* packet's number to the ack generator, which ignores it once it is closed.
Receive(p) ==
    /\ processed' = processed \cup p.frames
    /\ IF peer_dropped
       THEN UNCHANGED generator
       ELSE G!Received(p.num, p.frames \cap Eliciting # {})
    /\ UNCHANGED <<vars, net, acks>>

\* A handler returns an error: the frames before it, done, have been processed,
\* the rest of the packet is thrown away and its number is not recorded.
FaultyReceiveFails(p, done) ==
    /\ ~peer_dropped
    /\ processed' = processed \cup done
    /\ G!Received(p.num, p.frames \cap Eliciting # {})
    /\ UNCHANGED <<vars, net, acks>>

ReceiveFails(p, done) ==
    /\ done # p.frames
    /\ processed' = processed \cup done
    /\ UNCHANGED <<vars, net, acks, generator>>

\* The peer's sender asks for an ACK frame and the frame reaches the network.
SendAck ==
    /\ G!Generate
    /\ acks' = acks \cup {G!AckFrame}
    /\ UNCHANGED <<vars, net, processed>>

PeerDrop ==
    /\ G!Drop
    /\ UNCHANGED <<vars, net, acks, processed>>

ExchangeNext ==
    \/ Local
    \/ \E fs \in SUBSET Frames, len \in PktLens, pto \in Ptos : SendPacket(fs, len, pto)
    \/ \E frame \in acks, delay \in LostDelays, pto \in Ptos :
            ReceiveAck(frame, delay, pto)
    \/ \E p \in net : Receive(p)
    \/ \E p \in net : \E done \in SUBSET p.frames : ReceiveFails(p, done)
    \/ SendAck
    \/ PeerDrop

ExchangeSpec == ExchangeInit /\ [][ExchangeNext]_all

-----------------------------------------------------------------------------
\* A stream is told that its frame was acknowledged only if the peer processed
\* the frame: over lost and repeated packets, packets thrown away in the middle,
\* old ACK frames arriving late, and the two codings of packet numbers.  (And an
\* ACK frame on the network never names a packet the peer did not record.)
NoFalseAck ==
    /\ acked \subseteq processed
    /\ \A frame \in acks : Denotes(frame) \subseteq received

\* Until the space is closed, a STREAM frame the peer has not processed is still
\* in the sender's hands: unsent, in flight or queued.
NothingLost ==
    ~dropped => Reliable \subseteq fresh \cup Outstanding \cup retransmission_queue \cup processed

\* The exchange implements Delivery.
D == INSTANCE Delivery WITH
        sent      <- Frames \ fresh,
        delivered <- processed,
        confirmed <- acked,
        closed    <- dropped

ImplementsDelivery == D!Spec
=============================================================================
