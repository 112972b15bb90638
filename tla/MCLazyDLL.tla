----------------------------- MODULE MCLazyDLL -----------------------------
(***************************************************************************)
(* An instance of LazyDLL: three goroutines that resolve two procedures.   *)
(***************************************************************************)
EXTENDS LazyDLL
=============================================================================
