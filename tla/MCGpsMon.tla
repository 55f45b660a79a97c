------------------------------ MODULE MCGpsMon ------------------------------
(***************************************************************************)
(* GpsMon for TLC: two readers in the processes of the screens and of the  *)
(* daemons.  Nothing else is bounded: the processes live and die for ever. *)
(***************************************************************************)
EXTENDS GpsMon

CONSTANTS screen, daemon
=============================================================================
