----------------------------- MODULE UpdInstall -----------------------------
(***************************************************************************)
(* The update daemon (daemons/upd/upd.cpp).  A package name+md5.ext of the *)
(* profile directory upd, a mirror of the server's (see SyncMirror), holds *)
(* the module `name' of the root directory.  A pass gets the packages,     *)
(* compares MD5 sums, renames the modules that differ, unpacks the new     *)
(* ones in their place, asks for a reboot, renames what the server no      *)
(* longer has and deletes what was renamed.  An MD5 sum is a version here. *)
(*                                                                         *)
(* A t# or t0# file that recv leaves among the packages is unpacked like   *)
(* one, to t#name or t0#name, which no process uses and junk control takes *)
(* away in a later pass: root leaves these files out.                      *)
(***************************************************************************)
EXTENDS FiniteSets, Naturals

CONSTANTS
  Modules,      (* Names of the modules in the root directory.             *)
  Versions,     (* Versions of a module, told apart by their MD5.          *)
  Self,         (* Modules without which daemons-host or upd do not start. *)
  Pictures,     (* Modules with the extension jpg.                         *)
  Tool,         (* reboot.exe.                                             *)
  None,         (* No file, no package.                                    *)
  Torn,         (* A file that is not a whole module.                      *)
  JunkControl,  (* upd->junk.                                              *)
  RebootWait,   (* upd->reboot is not 0.                                   *)
  Faults,       (* Which of "net", "disk" and "trigger" (the arming of it) *)
                (* may fail.                                               *)
  MaxReleases,  (* Bound on the changes of the server's directory.         *)
  MaxStops      (* Bound on stops, terminations and losses of power.       *)

ASSUME UpdAssumption ==
  /\ IsFiniteSet(Modules) /\ IsFiniteSet(Versions) /\ Versions # {}
  /\ Self \subseteq Modules /\ Pictures \subseteq Modules /\ Tool \in Modules
  /\ None \notin Versions /\ Torn \notin Versions /\ None # Torn
  /\ None \notin [name : Modules, version : Versions]
  /\ {JunkControl, RebootWait} \subseteq BOOLEAN
  /\ Faults \subseteq {"net", "disk", "trigger"}
  /\ {MaxReleases, MaxStops} \subseteq Nat

VARIABLES
  pc,        (* Where the thread is; "down" when there is none.            *)
  todo,      (* Packages the pass has not looked at yet.                   *)
  strays,    (* The pass has yet to look at t# or t0# files.               *)
  cur,       (* The package in hand, or None.                              *)
  ok,        (* What recv returned.                                        *)
  installed, (* The pass has installed something (upd > 0).                *)
  reboot,    (* The local reboot: one of them asks for it.                 *)
  root,      (* The root directory: what each module's file holds.         *)
  backups,   (* Renamed modules, ~date~name.                               *)
  loaded,    (* The version of each module that is in use.                  *)
  pkgs,      (* The packages in the profile directory upd since the last    *)
             (* pass that received them all.                               *)
  broken,    (* Those of them that did not get to the medium whole.        *)
  server,    (* The version of each module the server offers.              *)
  trigger,   (* The time trigger of OMOBUS-reboot-event is armed.          *)
  rebootEv,  (* OMOBUS-reboot-event is signalled.                          *)
  releases, stops,
  wanted,    (* History: modules in the last list that was received.       *)
  missed,    (* History: modules in that list of which recv left no package, *)
             (* MoveFile having failed.                                    *)
  failed,    (* History: modules whose last installation or removal failed *)
             (* or was interrupted.                                        *)
  pending,   (* History: a module installed since the device was booted    *)
             (* needs a reboot.                                            *)
  cancelled  (* History: the reboot that was last asked for will not come: *)
             (* the daemon ended while pending, reboot.exe was not whole,  *)
             (* or SetTimeoutTrigger set nothing.                          *)

passVars    == <<todo, strays, cur, ok, installed, reboot>>
diskVars    == <<root, backups>>
pkgVars     == <<pkgs, broken>>
rebootVars  == <<trigger, rebootEv>>
historyVars == <<wanted, missed, failed, pending, cancelled>>
updVars     == <<pc, passVars, diskVars, loaded, pkgVars, server, rebootVars,
                 releases, stops, historyVars>>

Packages == [name : Modules, version : Versions]
Contents == Versions \cup {Torn}
Files    == Contents \cup {None}

Whole(m)  == root[m] \in Versions
(* What the server has, as packages. *)
Offered   == {p \in Packages : server[p.name] = p.version}
Packed(m) == \E p \in pkgs : p.name = m

(* The file a process uses can be renamed, but neither deleted nor opened *)
(* for writing.                                                           *)
InUse(m, content) == content # None /\ loaded[m] = content

(* MoveFile to ~date~name. *)
Backup(ms) == {[name |-> m, content |-> root[m]] : m \in ms}

(* _upd_cleanup deletes what it can. *)
Cleaned == {b \in backups : InUse(b.name, b.content)}

NoPass ==
  /\ todo = {}
  /\ strays = FALSE
  /\ cur = None
  /\ ok = TRUE
  /\ installed = FALSE
  /\ reboot = FALSE

(* The locals of the pass are gone. *)
EndPass ==
  /\ todo' = {}
  /\ strays' = FALSE
  /\ cur' = None
  /\ ok' = TRUE
  /\ installed' = FALSE
  /\ reboot' = FALSE

(* The version a device is set up with. *)
Factory == CHOOSE v \in Versions : TRUE

(* A device that has just been set up: every module is there, nothing has *)
(* been downloaded, and the server has other versions by now.             *)
UpdInit ==
  /\ pc = "down"
  /\ NoPass
  /\ root = [m \in Modules |-> Factory]
  /\ server \in [Modules -> Versions \ {Factory}]
  /\ backups = {}
  /\ loaded = [m \in Modules |-> None]
  /\ pkgs = {}
  /\ broken = {}
  /\ trigger = FALSE
  /\ rebootEv = FALSE
  /\ releases = 0
  /\ stops = 0
  /\ wanted = Modules
  /\ missed = {}
  /\ failed = {}
  /\ pending = FALSE
  /\ cancelled = FALSE

-----------------------------------------------------------------------------
(* The server, other processes and the end of the daemon.                  *)

(* Another version of a module, or none any more. *)
Release(m) ==
  /\ releases < MaxReleases
  /\ releases' = releases + 1
  /\ \E v \in (Versions \cup {None}) \ {server[m]} :
       server' = [server EXCEPT ![m] = v]
  /\ UNCHANGED <<pc, passVars, diskVars, loaded, pkgVars, rebootVars, stops,
                 historyVars>>

(* Another process, terminals-host or a tool, takes a file in use or ends. *)
Use(m) ==
  /\ m \notin Self
  /\ \/ Whole(m) /\ loaded' = [loaded EXCEPT ![m] = root[m]]
     \/ loaded' = [loaded EXCEPT ![m] = None]
  /\ UNCHANGED <<pc, passVars, diskVars, pkgVars, server, rebootVars,
                 releases, stops, historyVars>>

(* Modules the pass is about to bring, and are not there until it has. *)
InHand == {m \in Modules : ~Whole(m) /\ \E p \in todo : p.name = m}

(* What every end of the thread leaves behind. *)
Ends ==
  /\ pc # "down"
  /\ stops < MaxStops
  /\ stops' = stops + 1
  /\ pc' = "down"
  /\ EndPass
  /\ failed' = failed \cup InHand
  /\ rebootEv' = FALSE
  /\ UNCHANGED <<diskVars, pkgVars, server, releases, wanted, missed>>

(* UpdProc returns: hKill is seen between two passes only. *)
Stop ==
  /\ pc = "wait"
  /\ Ends
  /\ trigger' = FALSE
  /\ loaded' = [m \in Modules |-> IF m \in Self THEN None ELSE loaded[m]]
  /\ cancelled' = (cancelled \/ pending)
  /\ UNCHANGED pending

(* stop_daemon terminates the thread, or the process dies. *)
Terminate ==
  /\ Ends
  /\ loaded' = [m \in Modules |-> IF m \in Self THEN None ELSE loaded[m]]
  /\ cancelled' = (cancelled \/ pending)
  /\ UNCHANGED <<trigger, pending>>

(* The device is reset, or loses power. *)
PowerOff ==
  /\ Ends
  /\ loaded' = [m \in Modules |-> None]
  /\ pending' = FALSE
  /\ cancelled' = FALSE
  /\ UNCHANGED trigger

(* UpdProc up to its loop: the reboot that was asked for is forgotten. *)
Start ==
  /\ pc = "down"
  /\ \A m \in Self : Whole(m)
  /\ pc' = "wait"
  /\ loaded' = [m \in Modules |-> IF m \in Self THEN root[m] ELSE loaded[m]]
  /\ backups' = Cleaned
  /\ trigger' = FALSE
  /\ UNCHANGED <<passVars, root, pkgVars, server, rebootEv, releases, stops,
                 historyVars>>

-----------------------------------------------------------------------------
(* One pass.                                                               *)

(* The event or the trigger of OMOBUS_UPD_NOTIFY. *)
Wake ==
  /\ pc = "wait"
  /\ pc' = "recv"
  /\ UNCHANGED <<passVars, diskVars, loaded, pkgVars, server, rebootVars,
                 releases, stops, historyVars>>

(* What recv makes of the package directory, and of the modules it has a   *)
(* package for.  A package that is new may not get to the medium whole, or *)
(* not from its t# name to its own (MoveFile), and one that is gone from   *)
(* the server may neither be deleted nor renamed to t0#; recv does not see *)
(* any of this.                                                            *)
Fetched ==
  /\ \E lost \in SUBSET (Offered \ pkgs), bad \in SUBSET (Offered \ pkgs),
        stay \in SUBSET (pkgs \ Offered) :
       /\ "disk" \in Faults \/ lost \cup bad \cup stay = {}
       /\ pkgs' = (Offered \ lost) \cup stay
       /\ broken' = (broken \cup bad) \cap pkgs'
  /\ wanted' = {p.name : p \in Offered}
  /\ missed' = wanted' \ {p.name : p \in pkgs'}

(* The t# files of this recv and what it could not delete of older ones. *)
LeavesStrays ==
  \/ strays' = FALSE /\ Offered \subseteq pkgs'
  \/ strays' = TRUE /\ "disk" \in Faults

(* Mutant: only the packages that came with this pass are looked at. *)
ReceivedNew ==
  /\ pc = "recv"
  /\ Fetched
  /\ todo' = pkgs' \ pkgs
  /\ LeavesStrays
  /\ pc' = "install"
  /\ UNCHANGED <<cur, ok, installed, reboot, diskVars, loaded, server,
                 rebootVars, releases, stops, failed, pending, cancelled>>

(* Mutant: the directory is listed before recv, not after it. *)
ReceivedListsBefore ==
  /\ pc = "recv"
  /\ Fetched
  /\ todo' = pkgs
  /\ LeavesStrays
  /\ pc' = "install"
  /\ UNCHANGED <<cur, ok, installed, reboot, diskVars, loaded, server,
                 rebootVars, releases, stops, failed, pending, cancelled>>

(* recv returns OMOBUS_OK; _upd_install looks at every package that is there. *)
Received ==
  /\ pc = "recv"
  /\ Fetched
  /\ todo' = pkgs'
  /\ LeavesStrays
  /\ pc' = "install"
  /\ UNCHANGED <<cur, ok, installed, reboot, diskVars, loaded, server,
                 rebootVars, releases, stops, failed, pending, cancelled>>

(* Mutant: the pass goes on to junk control after a recv that failed. *)
ReceiveFailsJunk ==
  /\ pc = "recv"
  /\ "net" \in Faults
  /\ ok' = FALSE
  /\ pc' = "junk"
  /\ UNCHANGED <<todo, strays, cur, installed, reboot, diskVars, loaded,
                 pkgVars, server, rebootVars, releases, stops, historyVars>>

(* It failed.  Packages that were received before that are kept, and not *)
(* received again: it is as if they came with the pass that succeeds.    *)
ReceiveFails ==
  /\ pc = "recv"
  /\ "net" \in Faults
  /\ ok' = FALSE
  /\ pc' = "clean"
  /\ UNCHANGED <<todo, strays, cur, installed, reboot, diskVars, loaded,
                 pkgVars, server, rebootVars, releases, stops, historyVars>>

(* Mutant: a module that is there is taken for the one in the package. *)
SameName(p) ==
  /\ pc = "install"
  /\ p \in todo
  /\ root[p.name] # None
  /\ todo' = todo \ {p}
  /\ failed' = failed \ {p.name}
  /\ UNCHANGED <<pc, strays, cur, ok, installed, reboot, diskVars, loaded,
                 pkgVars, server, rebootVars, releases, stops, wanted, missed,
                 pending, cancelled>>

(* The module is the one in the package. *)
Same(p) ==
  /\ pc = "install"
  /\ p \in todo
  /\ root[p.name] = p.version
  /\ todo' = todo \ {p}
  /\ failed' = failed \ {p.name}
  /\ UNCHANGED <<pc, strays, cur, ok, installed, reboot, diskVars, loaded,
                 pkgVars, server, rebootVars, releases, stops, wanted, missed,
                 pending, cancelled>>

(* It is not: the module, if there is one, is renamed. *)
Rename(p) ==
  /\ pc = "install"
  /\ p \in todo
  /\ root[p.name] # p.version
  /\ cur' = p
  /\ \/ /\ root' = [root EXCEPT ![p.name] = None]
        /\ backups' = backups \cup
             Backup({m \in {p.name} : root[m] # None})
     \/ "disk" \in Faults /\ root[p.name] # None /\ UNCHANGED diskVars
  /\ pc' = "unpack"
  /\ UNCHANGED <<todo, strays, ok, installed, reboot, loaded, pkgVars, server,
                 rebootVars, releases, stops, historyVars>>

(* The package in hand has been dealt with, well or not. *)
Dealt(whole) ==
  /\ pc' = "install"
  /\ todo' = todo \ {cur}
  /\ cur' = None
  /\ failed' = IF whole THEN failed \ {cur.name} ELSE failed \cup {cur.name}

(* fopen truncates or creates the module's file. *)
Create ==
  /\ pc = "unpack"
  /\ ~InUse(cur.name, root[cur.name])
  /\ root' = [root EXCEPT ![cur.name] = Torn]
  /\ pc' = "write"
  /\ UNCHANGED <<passVars, backups, loaded, pkgVars, server, rebootVars,
                 releases, stops, historyVars>>

(* fopen fails; nothing is put back. *)
CreateFails ==
  /\ pc = "unpack"
  /\ "disk" \in Faults \/ InUse(cur.name, root[cur.name])
  /\ Dealt(FALSE)
  /\ UNCHANGED <<strays, ok, installed, reboot, diskVars, loaded, pkgVars,
                 server, rebootVars, releases, stops, wanted, missed, pending,
                 cancelled>>

(* pkopen fails: the file stays as fopen left it. *)
UnpackFails ==
  /\ pc = "write"
  /\ "disk" \in Faults
  /\ Dealt(FALSE)
  /\ UNCHANGED <<strays, ok, installed, reboot, diskVars, loaded, pkgVars,
                 server, rebootVars, releases, stops, wanted, missed, pending,
                 cancelled>>

(* Mutant: a picture says of the pass what it says of itself. *)
UnpackedJpg ==
  /\ pc = "write"
  /\ \/ /\ cur \notin broken
        /\ root' = [root EXCEPT ![cur.name] = cur.version]
        /\ Dealt(TRUE)
     \/ /\ cur \in broken \/ "disk" \in Faults
        /\ UNCHANGED root
        /\ Dealt(FALSE)
  /\ installed' = TRUE
  /\ reboot' = (cur.name \notin Pictures)
  /\ pending' = (pending \/ cur.name \notin Pictures)
  /\ UNCHANGED <<strays, ok, backups, loaded, pkgVars, server, rebootVars,
                 releases, stops, wanted, missed, cancelled>>

(* What _upd_install remembers of m, for which _unpack returned true. *)
Installs(m) ==
  /\ installed' = TRUE
  /\ reboot' = (reboot \/ m \notin Pictures)
  /\ pending' = (pending \/ m \notin Pictures)

(* The loop has ended, at the end of the package or not: that fwrite failed *)
(* or the package is broken makes no difference to what is returned.        *)
Unpacked ==
  /\ pc = "write"
  /\ \/ /\ cur \notin broken
        /\ root' = [root EXCEPT ![cur.name] = cur.version]
        /\ Dealt(TRUE)
     \/ /\ cur \in broken \/ "disk" \in Faults
        /\ UNCHANGED root
        /\ Dealt(FALSE)
  /\ Installs(cur.name)
  /\ UNCHANGED <<strays, ok, backups, loaded, pkgVars, server, rebootVars,
                 releases, stops, wanted, missed, cancelled>>

(* The t# and t0# files are unpacked beside the modules, but for those whose *)
(* content is there already or for which _unpack fails.  They share nothing  *)
(* with the packages but the flags, which are only ever set: when in the loop *)
(* their turn comes makes no difference.                                     *)
Stray ==
  /\ pc = "install"
  /\ todo = {}
  /\ strays
  /\ strays' = FALSE
  /\ \/ \E m \in Modules : Installs(m)
     \/ UNCHANGED <<installed, reboot, pending>>
  /\ UNCHANGED <<pc, todo, cur, ok, diskVars, loaded, pkgVars, server,
                 rebootVars, releases, stops, wanted, missed, failed, cancelled>>

(* SetTimeoutTrigger removes the trigger of the reboot and sets it anew, but *)
(* for 10 seconds or less, and unless CeSetUserNotificationEx fails.         *)
SetTrigger ==
  \/ RebootWait /\ trigger' = TRUE /\ cancelled' = FALSE
  \/ /\ ~RebootWait \/ "trigger" \in Faults
     /\ trigger' = FALSE
     /\ cancelled' = TRUE

(* All packages have been compared, and the reboot is asked for. *)
Arm ==
  /\ pc = "install"
  /\ todo = {}
  /\ ~strays
  /\ IF installed /\ reboot
     THEN SetTrigger
     ELSE UNCHANGED <<trigger, cancelled>>
  /\ pc' = "junk"
  /\ UNCHANGED <<passVars, diskVars, loaded, pkgVars, server, rebootEv,
                 releases, stops, wanted, missed, failed, pending>>

(* _upd_junk_control renames what no package brings; a MoveFile may fail. *)
Junk ==
  /\ pc = "junk"
  /\ LET junk == {m \in Modules : JunkControl /\ root[m] # None /\ ~Packed(m)} IN
     \E ms \in SUBSET junk :
       /\ ms = junk \/ "disk" \in Faults
       /\ backups' = backups \cup Backup(ms)
       /\ root' = [m \in Modules |-> IF m \in ms THEN None ELSE root[m]]
       /\ failed' = failed \cup (junk \ ms)
  /\ pc' = "clean"
  /\ UNCHANGED <<passVars, loaded, pkgVars, server, rebootVars, releases,
                 stops, wanted, missed, pending, cancelled>>

(* _upd_cleanup, the activity and the trigger of the next pass. *)
Clean ==
  /\ pc = "clean"
  /\ backups' = Cleaned
  /\ pc' = "wait"
  /\ EndPass
  /\ UNCHANGED <<root, loaded, pkgVars, server, rebootVars, releases, stops,
                 historyVars>>

-----------------------------------------------------------------------------
(* The reboot.                                                             *)

Ring ==
  /\ trigger
  /\ trigger' = FALSE
  /\ rebootEv' = (pc # "down")
  /\ UNCHANGED <<pc, passVars, diskVars, loaded, pkgVars, server, releases,
                 stops, historyVars>>

(* ExecProcess of reboot.exe. *)
Reboot ==
  /\ pc = "wait"
  /\ rebootEv
  /\ Whole(Tool)
  /\ pc' = "down"
  /\ rebootEv' = FALSE
  /\ loaded' = [m \in Modules |-> None]
  /\ pending' = FALSE
  /\ cancelled' = FALSE
  /\ UNCHANGED <<passVars, diskVars, pkgVars, server, trigger, releases,
                 stops, wanted, missed, failed>>

(* It is not there, or torn: nothing happens and the event is gone. *)
RebootFails ==
  /\ pc = "wait"
  /\ rebootEv
  /\ ~Whole(Tool)
  /\ rebootEv' = FALSE
  /\ cancelled' = TRUE
  /\ UNCHANGED <<pc, passVars, diskVars, loaded, pkgVars, server, trigger,
                 releases, stops, wanted, missed, failed, pending>>

-----------------------------------------------------------------------------
PassStep ==
  \/ Wake \/ Received \/ ReceiveFails
  \/ \E p \in Packages : Same(p) \/ Rename(p)
  \/ Create \/ CreateFails \/ UnpackFails \/ Unpacked
  \/ Stray \/ Arm \/ Junk \/ Clean

UpdNext ==
  \/ \E m \in Modules : Release(m) \/ Use(m)
  \/ Stop \/ Terminate \/ PowerOff \/ Start
  \/ PassStep
  \/ Ring \/ Reboot \/ RebootFails

UpdSpec == UpdInit /\ [][UpdNext]_updVars

(***************************************************************************)
(* The daemon is started and woken again and again: upd->wakeup is not 0   *)
(* and its trigger is armed in the end, or somebody asks.  What is tried   *)
(* again and again works in the end: no network and no disk fails for ever. *)
(***************************************************************************)
UpdFairness ==
  /\ WF_updVars(Start)
  /\ WF_updVars(PassStep)
  /\ SF_updVars(Received /\ pkgs' = Offered)
  /\ SF_updVars(\E p \in Packages : Rename(p) /\ root[p.name]' = None)
  /\ SF_updVars(Create)
  /\ SF_updVars(Unpacked /\ root' # root)
  /\ SF_updVars(Junk /\ \A m \in Modules : Packed(m) \/ root'[m] = None)

UpdFairSpec == UpdSpec /\ UpdFairness

-----------------------------------------------------------------------------
(* Type correctness of the device and of the pass. *)
UpdTypeOK ==
  /\ pc \in {"down", "wait", "recv", "install", "unpack", "write", "junk",
            "clean"}
  /\ todo \subseteq pkgs
  /\ cur \in todo \cup {None}
  /\ cur = None <=> pc \notin {"unpack", "write"}
  /\ {strays, ok, installed, reboot} \subseteq BOOLEAN
  /\ {trigger, rebootEv, pending, cancelled} \subseteq BOOLEAN
  /\ root \in [Modules -> Files]
  /\ backups \subseteq [name : Modules, content : Contents]
  /\ loaded \in [Modules -> Versions \cup {None}]
  /\ pkgs \subseteq Packages
  /\ broken \subseteq Packages
  /\ server \in [Modules -> Versions \cup {None}]
  /\ releases \in 0 .. MaxReleases
  /\ stops \in 0 .. MaxStops
  /\ wanted \subseteq Modules
  /\ missed \subseteq Modules
  /\ failed \subseteq Modules

(* A device does not lose a module the server has: at any moment it has a    *)
(* whole one of each that was in the last list, but for those the pass has   *)
(* in hand and for what the code does not undo: an installation that failed  *)
(* or was cut short, and a package that recv counted although MoveFile had   *)
(* failed, by which junk control takes the module for one the server has not. *)
ModuleKept ==
  \A m \in wanted : Whole(m) \/ m \in InHand \/ m \in failed \/ m \in missed

(* "Keeping the root directory in a state identical to the directory         *)
(* /profile/pkgs/upd" (upd.cpp:278, in Russian): after a pass that got the   *)
(* packages every module is one that the package directory has, and there    *)
(* are no others, but for those at which an operation failed.                *)
RootMirrorsPackages ==
  pc = "clean" /\ ok =>
    \A m \in Modules \ failed :
      \/ [name |-> m, version |-> root[m]] \in pkgs
      \/ root[m] = None /\ ~Packed(m)

(* What has been installed comes into force: while a module waits for the    *)
(* device to be booted, the daemon never sleeps without the trigger or the   *)
(* event of the reboot, whatever later passes install; unless the reboot     *)
(* that was asked for last was dropped: by the end of the daemon, for want   *)
(* of reboot.exe, or by a SetTimeoutTrigger that set nothing.                *)
RebootFollows ==
  pc = "wait" /\ pending /\ ~cancelled => trigger \/ rebootEv

(* The device comes to hold what the server has, whatever was interrupted    *)
(* or failed, if the daemon can still be started and no package on the card  *)
(* is broken: such a package is never fetched again.                         *)
Bricked == pc = "down" /\ \E m \in Self : ~Whole(m)
UpToDate == <>[](Bricked \/ broken # {} \/ root = server)
=============================================================================
