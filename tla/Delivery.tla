------------------------------ MODULE Delivery ------------------------------
(***************************************************************************)
(* What one packet number space promises about the frames handed to it,    *)
(* whatever the network does: a frame is delivered only after it was sent, *)
(* it is confirmed to its owner only after it was delivered, none of this  *)
(* is ever taken back, and a closed sender neither sends nor confirms.     *)
(***************************************************************************)
CONSTANT Frames

VARIABLES
    sent,           \* frames put into a packet at least once
    delivered,      \* frames the peer processed at least once
    confirmed,      \* frames whose owner was told so
    closed

vars == <<sent, delivered, confirmed, closed>>

Init ==
    /\ sent = {}
    /\ delivered = {}
    /\ confirmed = {}
    /\ closed = FALSE

Submit ==
    /\ ~closed
    /\ sent' \in SUBSET Frames
    /\ sent \subseteq sent'
    /\ UNCHANGED <<delivered, confirmed, closed>>

Deliver ==
    /\ delivered' \in SUBSET sent
    /\ delivered \subseteq delivered'
    /\ UNCHANGED <<sent, confirmed, closed>>

Confirm ==
    /\ ~closed
    /\ confirmed' \in SUBSET delivered
    /\ confirmed \subseteq confirmed'
    /\ UNCHANGED <<sent, delivered, closed>>

Close ==
    /\ closed' = TRUE
    /\ UNCHANGED <<sent, delivered, confirmed>>

Next == Submit \/ Deliver \/ Confirm \/ Close

Spec == Init /\ [][Next]_vars
=============================================================================
