---------------------------- MODULE MCUpdInstall ----------------------------
(***************************************************************************)
(* An instance of UpdInstall for TLC: one module stands for all that an    *)
(* update needs, the host and reboot.exe among them; the other is a        *)
(* picture.                                                                *)
(***************************************************************************)
EXTENDS UpdInstall, TLC

CONSTANTS host, logo,   (* modules *)
          v1, v2        (* versions *)
=============================================================================
