---------------------------- MODULE MCTransport ----------------------------
(***************************************************************************)
(* An instance of Transport for TLC: the threads of two daemons.           *)
(***************************************************************************)
EXTENDS Transport

CONSTANTS acts, docs   (* threads *)
=============================================================================
