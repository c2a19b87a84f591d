----------------------------- MODULE MCSessions -----------------------------
(***************************************************************************)
(* Two clients, a server with room for one session, and ids for a session  *)
(* more than the two may have at a time.  A client plays two hands and     *)
(* may ask about either of them at any time.                               *)
(***************************************************************************)
EXTENDS Sessions

CONSTANTS c1, c2, s1, s2, s3

TwoClients == {c1, c2}
Ids        == {s1, s2, s3}
TwoHands   == {[hand |-> 1, pos |-> 0], [hand |-> 2, pos |-> 0]}
=============================================================================
