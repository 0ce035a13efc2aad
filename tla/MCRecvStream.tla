---------------------------- MODULE MCRecvStream ----------------------------
(***************************************************************************)
(* RecvStream with short streams, FIN on a frame of its own or on the last *)
(* frame with data.  A frame is cut when the limit lets it: the first one  *)
(* fits the smallest initial limit, and the next ones what reading those   *)
(* before them opens.                                                      *)
(***************************************************************************)
EXTENDS RecvStream

Frame(off, len, fin) == [off |-> off, len |-> len, fin |-> fin]

FinAlone == {Frame(0, 1, FALSE), Frame(1, 2, FALSE), Frame(3, 2, FALSE), Frame(5, 0, TRUE)}
FinLast == {Frame(0, 1, FALSE), Frame(1, 2, FALSE), Frame(3, 1, FALSE), Frame(4, 1, TRUE)}

MCPeerChoices == {FinAlone, FinLast}
=============================================================================
