------------------------------- MODULE MCNode -------------------------------
(* Instances of Node with peers p1 and p2; p1 moves from a1 to b1 where a  *)
(* configuration lets it.                                                  *)
EXTENDS Node, TLC

CONSTANTS p1, p2, a1, a2, b1

\* Every peer keeps its address.
StableAddrs == [v \in Peers |-> IF v = p1 THEN {a1} ELSE {a2}]

\* p1 changes its address.
RoamingAddrs == [v \in Peers |-> IF v = p1 THEN {a1, b1} ELSE {a2}]

\* Addresses of different lengths: a torn one may name anyone.
AnyCut == [v \in Peers |-> [w \in Peers |-> IF v = w THEN {v} ELSE Peers]]

\* Connection objects are interchangeable.
MCSymmetry == Permutations(Conns)

\* So are p1 with its address and p2 with its own, if neither moves.
Swap == p1 :> p2 @@ p2 :> p1 @@ a1 :> a2 @@ a2 :> a1
StableSymmetry == MCSymmetry \cup {Swap}
=============================================================================
