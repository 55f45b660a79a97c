----------------------------- MODULE PackageDir -----------------------------
(***************************************************************************)
(* What a profile directory (acts or docs) promises to the daemon that     *)
(* empties it: a package appears in the directory once, in one piece, under *)
(* a name no other package ever has, and leaves it only when it is taken.  *)
(* A package therefore stands for its file and for its name.               *)
(*                                                                         *)
(* PkWriter shows that libomobus/WriteOmobusXmlPk.cpp keeps this promise,  *)
(* Outbox builds on it.                                                    *)
(***************************************************************************)
CONSTANT Packages

VARIABLES
  visible,    (* Packages whose file is in the directory.                   *)
  published   (* History: packages that ever were.                          *)

dirVars == <<visible, published>>

DirInit ==
  /\ visible = {}
  /\ published = {}

(* MoveFile at the end of WriteOmobusXmlPk. *)
Publish(k) ==
  /\ k \notin published
  /\ published' = published \cup {k}
  /\ visible' = visible \cup {k}

(* DeleteFile in _ftpmove. *)
Take(k) ==
  /\ k \in visible
  /\ visible' = visible \ {k}
  /\ UNCHANGED published

DirNext == \E k \in Packages : Publish(k) \/ Take(k)

DirSpec == DirInit /\ [][DirNext]_dirVars
=============================================================================
