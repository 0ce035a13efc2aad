------------------------------ MODULE ConnIdGen ------------------------------
(***************************************************************************)
(* The connection ids of one session (modules/connid_gen): the ids it gave *)
(* to its peer (srcs) and those it got (dsts).  The operators map the      *)
(* module's state g to the state a call leaves, as the same calls are made *)
(* by the handlers of frames, by the transport parameters and by close.    *)
(*                                                                         *)
(* An id of the peer is its sequence number; an id of our own is chosen at *)
(* random and given by the caller (id).  ctrl is what the module appended  *)
(* to the framer's list of control frames.  liteco_rbt_min, which is not   *)
(* part of the repository, returns the least key.                          *)
(***************************************************************************)
EXTENDS Integers, SequencesExt

NewConnectionId(seq, retire, id) ==
    [type |-> "NEW_CONNECTION_ID", seq |-> seq, retire |-> retire, id |-> id]
RetireConnectionId(seq) == [type |-> "RETIRE_CONNECTION_ID", seq |-> seq]

\* init and start: sequence number 0 are the ids of the first packets.  The id
\* src is in srcs, but new_connid is not called for it.
Started(src) ==
    [ src_hseq |-> 0, srcs |-> [k \in {0} |-> src],
      dst_hretire |-> 0, dsts |-> {0}, dst_active |-> 0,
      dst |-> 0,            \* session->dst, a copy of the active entry
      ctrl |-> <<>> ]

FramerCtrl(g, frames) == [g EXCEPT !.ctrl = @ \o frames]

-----------------------------------------------------------------------------
\* quic_connid_gen_issue_src; the id is one new_connid accepted.
WithSrc(srcs, seq, id) == [k \in DOMAIN srcs \cup {seq} |-> IF k = seq THEN id ELSE srcs[k]]

IssueSrc(g, id) ==
    LET seq == g.src_hseq + 1
    IN  FramerCtrl([g EXCEPT !.src_hseq = seq, !.srcs = WithSrc(@, seq, id)],
                   <<NewConnectionId(seq, 0, id)>>)

\* quic_connid_gen_retire_src: whether it answers, and what it leaves.  Each id
\* is replaced, except the first, which nobody issued.
Retires(g, seq) == seq \in DOMAIN g.srcs

Replaces(g, seq) == Retires(g, seq) /\ seq # 0

WithoutSrc(g, seq) ==
    [g EXCEPT !.srcs = [k \in DOMAIN @ \ {seq} |-> @[k]]]

RetireSrc(g, seq, id) ==
    IF Replaces(g, seq) THEN IssueSrc(WithoutSrc(g, seq), id) ELSE WithoutSrc(g, seq)

-----------------------------------------------------------------------------
\* quic_connid_gen_update_dst.  Without an id left session->dst stays empty.
Empty == -1

UpdateDst(g) ==
    LET rest    == g.dsts \ {g.dst_active}
        retired == [FramerCtrl(g, <<RetireConnectionId(g.dst_active)>>) EXCEPT
                        !.dst_hretire = Max({@, g.dst_active}),
                        !.dsts = rest,
                        !.dst = IF g.dst_active \in g.dsts THEN Empty ELSE @]
    IN  IF rest = {} THEN retired
        ELSE [retired EXCEPT !.dst = Min(rest), !.dst_active = Min(rest)]

\* The ids that a larger retire_prior_to retires: the code counts the id with
\* that number too.
RetiredBy(g, frame) ==
    IF frame.retire > g.dst_hretire THEN {k \in g.dsts : k <= frame.retire} ELSE {}

FaultyRetirements(seqs) == <<>>
Ascending(seqs) ==
    CHOOSE order \in [1 .. Cardinality(seqs) -> seqs] :
        \A i, j \in DOMAIN order : i < j => order[i] < order[j]

Retirements(seqs) ==
    LET order == Ascending(seqs)
    IN  [i \in DOMAIN order |-> RetireConnectionId(order[i])]

\* A number below the highest that was retired is retired at once.
FaultyIsLate(g, frame) == frame.seq + 1 < g.dst_hretire
IsLate(g, frame) == frame.seq < g.dst_hretire

\* quic_session_handle_new_connection_id_frame
HandleNewConnectionId(g, frame) ==
    IF IsLate(g, frame)
    THEN FramerCtrl(g, <<RetireConnectionId(frame.seq)>>)
    ELSE LET gone  == RetiredBy(g, frame)
             kept  == [FramerCtrl(g, Retirements(gone)) EXCEPT
                            !.dsts = @ \ gone,
                            !.dst_hretire = Max({@, frame.retire})]
             added == [kept EXCEPT !.dsts = @ \cup {frame.seq}]
         IN  CASE frame.seq = g.dst_active -> kept
               [] frame.seq # g.dst_active /\ g.dst_active <= frame.retire -> UpdateDst(added)
               [] frame.seq # g.dst_active /\ g.dst_active > frame.retire -> added
=============================================================================
