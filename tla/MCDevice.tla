------------------------------ MODULE MCDevice ------------------------------
(***************************************************************************)
(* Two runs of a node on each system: long enough for a run to find what   *)
(* an earlier one left, for both goroutines to measure the rate in the     *)
(* same period, and for a short packet to follow a long one.               *)
(***************************************************************************)
EXTENDS Device

\* Packets of one to three parts; the first part is the IP version.
MCPackets == {<<"v4">>, <<"v4", "a">>, <<"v6", "a", "b">>, <<"v5", "a">>}
=============================================================================
