------------------------------ MODULE MCConnIds ------------------------------
(***************************************************************************)
(* Two sessions: the peer of one issues ids, both peers retire them.       *)
(***************************************************************************)
EXTENDS ConnIds

CONSTANTS s1, s2

MCPeerMaxSeq == (s1 :> 3 @@ s2 :> 0)
MCMaxRetires == (s1 :> 1 @@ s2 :> 1)

IdsAreAlike == Permutations(Ids)
=============================================================================
