------------------------------ MODULE MCOutbox ------------------------------
(***************************************************************************)
(* Instances of Outbox for TLC: two packages, so that one can be written   *)
(* while the other is sent.                                                *)
(***************************************************************************)
EXTENDS Outbox

CONSTANTS k1, k2   (* packages *)
=============================================================================
