------------------------------ MODULE Congestion ------------------------------
(***************************************************************************)
(* The congestion controller of one path (src/modules/congestion.c) and    *)
(* the calls the rest of the session makes on it: on_sent from the sender, *)
(* on_acked, on_lost and update from the three retransmission modules, and *)
(* allow_send, by which the sender decides whether a packet may carry      *)
(* anything but an ACK frame.  A session has one controller, but three     *)
(* packet number spaces that each count from 0.                            *)
(*                                                                         *)
(* Bytes are counted exactly, in a smaller unit than the code's.  Time is  *)
(* left out: cubic's curve and HyStart's comparison of round trip times    *)
(* enter as choices, and so does the pacer, which may keep a packet from   *)
(* being sent now or, since nothing then wakes the sender (sender.c:423),  *)
(* ever.                                                                   *)
(***************************************************************************)
EXTENDS Integers, FiniteSetsExt

CONSTANTS
    Mss,                \* the 1460 of the code
    InitialCwnd,        \* cfg.initial_cwnd
    MinCwnd,            \* cfg.min_cwnd
    MaxCwnd,            \* cfg.max_cwnd
    HystartPackets,     \* the 16 packets below which HyStart waits
    PktLens,            \* the lengths of packets
    NumSpaces,          \* packet number spaces
    LastSend,           \* bound: packets sent with more than ACK frames
    Word                \* 2^64

ASSUME WindowAssumption ==
    /\ {Mss, InitialCwnd, MinCwnd, MaxCwnd} \subseteq Nat
    /\ 0 < Mss /\ Mss <= MinCwnd /\ MinCwnd <= InitialCwnd /\ InitialCwnd <= MaxCwnd
    /\ PktLens \subseteq 1 .. Mss

\* Not as many bytes are sent as 64 bits count.
ASSUME BoundsAssumption ==
    /\ {NumSpaces, LastSend, Word} \subseteq Nat
    /\ NumSpaces > 0
    /\ MaxCwnd + (LastSend + 1) * Mss < Word

VARIABLES
    cfg,        \* disable_prr and slowstart_large_reduction, fixed at the start
    base,       \* quic_congestion_base_t
    slowstart,  \* quic_congestion_slowstart_t, without its samples
    cubic,      \* quic_congestion_cubic_t, without the points of the curve
    prr,        \* quic_congestion_prr_t
    flight,     \* the packets of the sent_mem's that carry more than ACK frames
    level,      \* the space the sender fills
    sent,       \* packets sent, by space: the next packet number
    blind,      \* history: nothing was acknowledged when the window was cut
    cut_level   \* history: the space filled when the window was last cut, or 0

vars == <<cfg, base, slowstart, cubic, prr, flight, level, sent, blind, cut_level>>

Spaces == 1 .. NumSpaces
Larger(a, b) == IF a > b THEN a ELSE b
Smaller(a, b) == IF a < b THEN a ELSE b
Minus(a, b) == (a - b) % Word           \* uint64_t subtraction

Bytes(packets) == MapThenSumSet(LAMBDA p : p.len, packets)
InFlight == Bytes(flight)

-----------------------------------------------------------------------------
InSlowStart == base.cwnd < slowstart.threshold

InRecovery(b) == b.acked /\ b.lost /\ b.largest_acked <= b.at_loss

PrrAllows(unacked) ==
    \/ prr.sent = 0
    \/ unacked < Mss
    \/ /\ base.cwnd > unacked
       /\ prr.acked + prr.count * Mss > prr.sent
    \/ /\ base.cwnd <= unacked
       /\ prr.acked * slowstart.threshold > prr.sent * prr.unacked

AllowSend(unacked) ==
    IF ~cfg.disable_prr /\ InRecovery(base)
    THEN PrrAllows(unacked)
    ELSE unacked < base.cwnd

CwndLimited(unacked) ==
    \/ unacked >= base.cwnd
    \/ InSlowStart /\ unacked > base.cwnd \div 2
    \/ base.cwnd - unacked <= 3 * Mss

(* What cubic makes of an acknowledgement: the curve's value, held below   *)
(* half a packet's growth and above the window Reno would have.            *)
RenoStart == IF cubic.epoch THEN cubic.reno ELSE base.cwnd

CubicReno(len) == RenoStart + (len * Mss * 9) \div (17 * RenoStart)

CubicWindow(len, curve) ==
    Larger(Smaller(curve, base.cwnd + len \div 2), CubicReno(len))

CubicAtLoss ==
    [cubic EXCEPT !.epoch = FALSE,
                  !.max = IF base.cwnd + Mss < cubic.max
                          THEN (base.cwnd * 17) \div 20
                          ELSE base.cwnd]

Multiplied(cwnd) == (cwnd * 7) \div 10

\* A bug that goes on counting what was acknowledged in the last recovery.
FaultyPrrOnLost(unacked) == [prr EXCEPT !.unacked = unacked, !.sent = 0]

PrrOnLost(unacked) == [acked |-> 0, count |-> 0, unacked |-> unacked, sent |-> 0]

-----------------------------------------------------------------------------
Init ==
    /\ cfg \in [disable_prr : BOOLEAN, large_reduction : BOOLEAN]
    /\ base = [cwnd |-> InitialCwnd, acked |-> FALSE, largest_acked |-> 0,
               largest_sent |-> 0, lost |-> FALSE, at_loss |-> 0,
               in_slowstart |-> FALSE, lost_bytes |-> 0]
    /\ slowstart = [threshold |-> MaxCwnd, found |-> FALSE, min_exit |-> 0]
    /\ cubic = [epoch |-> FALSE, max |-> 0, reno |-> 0]
    /\ prr = [acked |-> 0, count |-> 0, unacked |-> 0, sent |-> 0]
    /\ flight = {}
    /\ level = 1
    /\ sent = [s \in Spaces |-> 0]
    /\ blind = FALSE
    /\ cut_level = 0

\* The sender fills a packet with frames: quic_congestion_module_on_sent.
Send(len) ==
    /\ MapThenSumSet(LAMBDA s : sent[s], Spaces) < LastSend
    /\ AllowSend(InFlight)
    /\ flight' = flight \cup {[space |-> level, num |-> sent[level], len |-> len]}
    /\ sent' = [sent EXCEPT ![level] = @ + 1]
    /\ base' = [base EXCEPT !.largest_sent = sent[level]]
    /\ prr' = IF InRecovery(base) THEN [prr EXCEPT !.sent = @ + len] ELSE prr
    /\ UNCHANGED <<cfg, slowstart, cubic, level, blind, cut_level>>

\* The window after an acknowledgement outside recovery.
Increased(b, len, unacked, curve) ==
    CASE ~CwndLimited(unacked) \/ base.cwnd >= MaxCwnd -> b
      [] CwndLimited(unacked) /\ base.cwnd < MaxCwnd /\ InSlowStart ->
            [b EXCEPT !.cwnd = @ + Mss]
      [] OTHER -> [b EXCEPT !.cwnd = Smaller(CubicWindow(len, curve), MaxCwnd)]

AckedCubic(len, unacked) ==
    CASE ~CwndLimited(unacked) -> [cubic EXCEPT !.epoch = FALSE]
      [] CwndLimited(unacked) /\ base.cwnd < MaxCwnd /\ ~InSlowStart ->
            [cubic EXCEPT !.epoch = TRUE, !.reno = CubicReno(len)]
      [] OTHER -> cubic

\* One packet that an ACK frame names: quic_congestion_module_on_acked.
OnAcked(p) ==
    LET unacked == InFlight - p.len
        b == [base EXCEPT !.acked = TRUE,
                          !.largest_acked = IF base.acked THEN Larger(@, p.num) ELSE p.num]
    IN  /\ flight' = flight \ {p}
        /\ IF InRecovery(b)
           THEN /\ base' = b
                /\ prr' = IF cfg.disable_prr THEN prr
                          ELSE [prr EXCEPT !.acked = @ + p.len, !.count = @ + 1]
                /\ UNCHANGED cubic
           ELSE /\ RenoStart > 0       \* or the division traps
                /\ \E curve \in {0, base.cwnd, Word - 1} :
                        base' = Increased(b, p.len, unacked, curve)
                /\ cubic' = AckedCubic(p.len, unacked)
                /\ UNCHANGED prr
        /\ UNCHANGED <<cfg, slowstart, level, sent, blind, cut_level>>

\* A bug that does not stop at the window slow start may be left with.
FaultyReduced(len) == Minus(base.cwnd, len)

Reduced(len) == Larger(Minus(base.cwnd, len), slowstart.min_exit)

\* Another packet of a flight whose loss has already been answered.
LostAgain(p) ==
    LET cwnd == Reduced(p.len)
    IN  /\ base' = IF ~base.in_slowstart THEN base
                   ELSE [base EXCEPT !.lost_bytes = @ + p.len,
                                     !.cwnd = IF cfg.large_reduction THEN cwnd ELSE @]
        /\ slowstart' = IF base.in_slowstart /\ cfg.large_reduction
                        THEN [slowstart EXCEPT !.threshold = cwnd]
                        ELSE slowstart
        /\ UNCHANGED <<cubic, prr, blind, cut_level>>

\* The first packet of a flight that is lost cuts the window.
Cut(unacked) ==
    LET large == cfg.large_reduction /\ InSlowStart
        cwnd == IF large THEN Minus(base.cwnd, Mss) ELSE Multiplied(base.cwnd)
    IN  /\ base' = [base EXCEPT !.in_slowstart = InSlowStart,
                                !.cwnd = Larger(cwnd, MinCwnd),
                                !.lost = TRUE,
                                !.at_loss = base.largest_sent]
        /\ slowstart' = [slowstart EXCEPT
                !.min_exit = IF large /\ base.cwnd >= 2 * InitialCwnd
                             THEN base.cwnd \div 2 ELSE @,
                !.threshold = cwnd]
        /\ cubic' = IF large THEN cubic ELSE CubicAtLoss
        /\ prr' = IF cfg.disable_prr THEN prr ELSE PrrOnLost(unacked)
        /\ blind' = ~base.acked
        /\ cut_level' = level

Answered(p) == base.lost /\ p.num <= base.at_loss

\* A packet is found lost, the oldest of its space first:
\* quic_congestion_module_on_lost.
OnLost(p) ==
    /\ \A q \in flight : q.space = p.space => p.num <= q.num
    /\ flight' = flight \ {p}
    /\ IF Answered(p) THEN LostAgain(p) ELSE Cut(InFlight - p.len)
    /\ UNCHANGED <<cfg, level, sent>>

\* An ACK frame whose largest packet is in flight: quic_congestion_module_update.
\* Whether HyStart sees the round trips grow is a choice.
Update(grows) ==
    LET found == slowstart.found \/ grows
    IN  /\ flight # {}
        /\ InSlowStart
        /\ slowstart' = [slowstart EXCEPT
                !.found = found,
                !.threshold = IF slowstart.found
                                 \/ (found /\ base.cwnd \div Mss >= HystartPackets)
                              THEN base.cwnd ELSE @]
        /\ UNCHANGED <<cfg, base, cubic, prr, flight, level, sent, blind, cut_level>>

\* The sealer's level rises, and the space below it is dropped with whatever it
\* has in flight (quic_retransmission_drop); the controller is not told.
RaiseLevel ==
    /\ level < NumSpaces
    /\ level' = level + 1
    /\ flight' = {}
    /\ UNCHANGED <<cfg, base, slowstart, cubic, prr, sent, blind, cut_level>>

Next ==
    \/ \E len \in PktLens : Send(len)
    \/ \E p \in flight : OnAcked(p) \/ OnLost(p)
    \/ \E grows \in BOOLEAN : Update(grows)
    \/ RaiseLevel

Spec == Init /\ [][Next]_vars

-----------------------------------------------------------------------------
\* The window keeps between its limits through slow start, cubic, Reno and
\* every loss.  The one exception is a flight of which several packets are lost
\* in slow start before the window has doubled, with slowstart_large_reduction:
\* nothing then holds what is subtracted.
WindowIsBounded ==
    \/ base.cwnd \in MinCwnd .. MaxCwnd + Mss - 1
    \/ cfg.large_reduction /\ slowstart.min_exit = 0 /\ base.lost_bytes > 0

\* In every space, no packet is filled while more is in flight than the window, or
\* than the last loss left there, and one more packet: proportional rate reduction
\* only replaces what was acknowledged.  Two cases are excepted.  The last loss was
\* answered in an earlier space: the packets of the next one count from 0 again, and
\* those sent after the loss are taken for some that were sent before it.  Or nothing
\* was acknowledged before it: until something is, in_recovery is false, and what is
\* sent is not counted.
NeverOversends ==
    [][ sent' # sent /\ cut_level \in {0, level} /\ ~blind =>
            InFlight < Larger(base.cwnd, prr.unacked) + Mss ]_vars
=============================================================================
