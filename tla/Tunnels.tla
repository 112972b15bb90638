------------------------------ MODULE Tunnels -------------------------------
(***************************************************************************)
(* What a node promises about its tunnels, seen from outside: to each peer *)
(* there is at most one.  It begins connecting, may be established, is     *)
(* closed once, and is gone before another one to the same peer begins.    *)
(***************************************************************************)
CONSTANT Peers

VARIABLE tunnel   \* tunnel[v]: the tunnel to v

Init == tunnel = [v \in Peers |-> "none"]

Moves ==
    {<<"none", "Connecting">>,
     <<"Connecting", "Established">>,
     <<"Connecting", "closing">>,
     <<"Established", "closing">>,
     <<"closing", "none">>}

Move(v) ==
    /\ <<tunnel[v], tunnel'[v]>> \in Moves
    /\ tunnel' = [tunnel EXCEPT ![v] = tunnel'[v]]

Next == \E v \in Peers : Move(v)

Spec == Init /\ [][Next]_tunnel
=============================================================================
