----------------------------- MODULE MCPkWriter -----------------------------
(***************************************************************************)
(* An instance of PkWriter for TLC: two threads of daemons-host, docs and  *)
(* sync, write activities of the same kind, "exchange", side by side.      *)
(***************************************************************************)
EXTENDS PkWriter, TLC

CONSTANTS host,         (* the process *)
          docs, sync,   (* its threads *)
          k1, k2, k3    (* packages    *)

MCProcOf == (docs :> host) @@ (sync :> host)
MCKindOf == (docs :> "exchange") @@ (sync :> "exchange")

Symmetry == Permutations(Packages) \cup Permutations(Writers)
=============================================================================
