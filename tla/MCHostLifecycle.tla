-------------------------- MODULE MCHostLifecycle --------------------------
(***************************************************************************)
(* HostLifecycle for TLC; the constants are given in the configurations.   *)
(***************************************************************************)
EXTENDS HostLifecycle
=============================================================================
