----------------------------- MODULE MCGateway ------------------------------
(* Two peers; the first keeps its address, the second may move.            *)
EXTENDS Gateway, TLC

CONSTANTS p1, p2, a1, a2, b2, d2

\* A client asks for a tunnel to another peer.
MCRequests == {r \in Peers \X Peers : r[1] # r[2]}
MCPayloadFor == d2 :> p2
MCMoving == p1 :> {a1} @@ p2 :> {a2, b2, Torn}
=============================================================================
