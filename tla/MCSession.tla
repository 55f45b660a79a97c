----------------------------- MODULE MCSession -----------------------------
(***************************************************************************)
(* Session for TLC with two accounts; the other constants are given in the *)
(* configuration.                                                          *)
(***************************************************************************)
EXTENDS Session

CONSTANTS shop, kiosk
=============================================================================
