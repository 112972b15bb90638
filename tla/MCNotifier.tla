----------------------------- MODULE MCNotifier -----------------------------
(* Two peers of one address each, two HTTP handlers, one worker.          *)
EXTENDS Notifier, TLC

CONSTANTS p1, p2, a1, a2

\* A client asks for a tunnel to another peer.
MCRequests == {r \in Peers \X Peers : r[1] # r[2]}
MCAddrsOf == p1 :> {a1} @@ p2 :> {a2}

=============================================================================
