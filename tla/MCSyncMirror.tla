---------------------------- MODULE MCSyncMirror ----------------------------
(***************************************************************************)
(* An instance of SyncMirror for TLC: two manuals, one in two versions.    *)
(***************************************************************************)
EXTENDS SyncMirror, TLC

CONSTANTS products1, products2, prices1   (* file names *)

MCManualOf ==
  (products1 :> "products") @@ (products2 :> "products")
    @@ (prices1 :> "prices")
=============================================================================
