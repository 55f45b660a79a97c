-------------------------- MODULE UpdInstallProofs --------------------------
(***************************************************************************)
(* Proofs about UpdInstall, for every set of modules, versions, pictures   *)
(* and modules the daemon needs, with and without junk control, and for    *)
(* every number of releases, stops and failures.                           *)
(***************************************************************************)
EXTENDS UpdInstall, TLAPS

(***************************************************************************)
(* The inductive invariant.                                                *)
(***************************************************************************)
Comparing == {"install", "unpack", "write"}

(* Packages are left to look at while they are compared only. *)
NothingLeft == pc \notin Comparing => todo = {}

(* Until junk control has run, the last list is the one of the packages, but *)
(* for the packages that recv has missed.                                    *)
ListIsPacked ==
  pc \in Comparing \cup {"junk"} => \A m \in wanted : Packed(m) \/ m \in missed

(* The module of a package is the one it holds, or failed, or is still to be *)
(* looked at.                                                                *)
Compared ==
  pc \in Comparing \cup {"junk"} =>
    \A m \in Modules : Packed(m) =>
      \/ m \in failed
      \/ [name |-> m, version |-> root[m]] \in pkgs
      \/ \E p \in todo : p.name = m

(* After the pass none is left to look at, and junk control, if it is on, has *)
(* removed the others.                                                        *)
Mirrored ==
  pc = "clean" /\ ok =>
    \A m \in Modules \ failed :
      \/ [name |-> m, version |-> root[m]] \in pkgs
      \/ ~Packed(m) /\ (JunkControl => root[m] = None)

(* A reboot that is due is on its way: signalled, armed, or about to be armed *)
(* by the pass; and only while the daemon runs.                               *)
RebootIsDue ==
  pending /\ ~cancelled =>
    /\ pc # "down"
    /\ \/ trigger
       \/ rebootEv
       \/ installed /\ reboot /\ pc \in Comparing

UpdInv ==
  /\ UpdTypeOK
  /\ NothingLeft
  /\ ListIsPacked
  /\ ModuleKept
  /\ Compared
  /\ Mirrored
  /\ RebootIsDue

USE UpdAssumption DEF passVars, diskVars, pkgVars, rebootVars, historyVars

-----------------------------------------------------------------------------
(* The flags.                                                              *)

(* A module that has been unpacked is installed, and asks for a reboot, which *)
(* is then pending, unless it is a picture.                                   *)
LEMMA InstallsFlags ==
  ASSUME UpdTypeOK, NEW m, Installs(m)
  PROVE  /\ installed' = TRUE
         /\ reboot' \in BOOLEAN /\ (reboot' <=> reboot \/ m \notin Pictures)
         /\ pending' \in BOOLEAN /\ (pending' <=> pending \/ m \notin Pictures)
  <1>1. /\ installed' = TRUE
        /\ reboot' = (reboot \/ m \notin Pictures)
        /\ pending' = (pending \/ m \notin Pictures)
    BY Zenon DEF Installs
  <1>2. reboot' \in BOOLEAN /\ (reboot' <=> reboot \/ m \notin Pictures)
    <2>1. CASE reboot \/ m \notin Pictures
      <3>1. (reboot \/ m \notin Pictures) = TRUE
        BY <2>1, Zenon
      <3> QED BY <1>1, <2>1, <3>1, Zenon
    <2>2. CASE ~(reboot \/ m \notin Pictures)
      <3>1. (reboot \/ m \notin Pictures) = FALSE
        BY <2>2, Zenon
      <3> QED BY <1>1, <2>2, <3>1, Zenon
    <2> QED BY <2>1, <2>2, Zenon
  <1>3. pending' \in BOOLEAN /\ (pending' <=> pending \/ m \notin Pictures)
    <2>1. CASE pending \/ m \notin Pictures
      <3>1. (pending \/ m \notin Pictures) = TRUE
        BY <2>1, Zenon
      <3> QED BY <1>1, <2>1, <3>1, Zenon
    <2>2. CASE ~(pending \/ m \notin Pictures)
      <3>1. (pending \/ m \notin Pictures) = FALSE
        BY <2>2, Zenon
      <3> QED BY <1>1, <2>2, <3>1, Zenon
    <2> QED BY <2>1, <2>2, Zenon
  <1> QED BY <1>1, <1>2, <1>3, Zenon

(* The same, or nothing new, is remembered of the t# and t0# files. *)
LEMMA StrayFlags ==
  ASSUME UpdTypeOK, Stray
  PROVE  \/ UNCHANGED <<installed, reboot, pending>>
         \/ \E m \in Modules : Installs(m)
  BY Zenon DEF Stray

(* A pass that installed something that asks for a reboot arms the trigger, or *)
(* drops the reboot.                                                           *)
LEMMA ArmFlags ==
  ASSUME Arm
  PROVE  /\ installed /\ reboot =>
              \/ trigger' = TRUE /\ cancelled' = FALSE
              \/ trigger' = FALSE /\ cancelled' = TRUE
         /\ ~(installed /\ reboot) => UNCHANGED <<trigger, cancelled>>
  <1>1. CASE installed /\ reboot
    BY <1>1, Zenon DEF Arm, SetTrigger
  <1>2. CASE ~(installed /\ reboot)
    BY <1>2, Zenon DEF Arm
  <1> QED BY <1>1, <1>2, Zenon

(* The end of the daemon cancels a pending reboot. *)
LEMMA EndFlags ==
  ASSUME UpdTypeOK, Stop \/ Terminate
  PROVE  cancelled' \in BOOLEAN /\ (cancelled' <=> cancelled \/ pending)
  <1>1. cancelled' = (cancelled \/ pending)
    BY Zenon DEF Stop, Terminate
  <1>2. CASE cancelled \/ pending
    <2>1. (cancelled \/ pending) = TRUE
      BY <1>2, Zenon
    <2> QED BY <1>1, <1>2, <2>1, Zenon
  <1>3. CASE ~(cancelled \/ pending)
    <2>1. (cancelled \/ pending) = FALSE
      BY <1>3, Zenon
    <2> QED BY <1>1, <1>3, <2>1, Zenon
  <1> QED BY <1>2, <1>3, Zenon

(* The event of the reboot is signalled while the daemon runs. *)
LEMMA RingFlags ==
  ASSUME Ring
  PROVE  rebootEv' \in BOOLEAN /\ (rebootEv' <=> pc # "down")
  <1>1. rebootEv' = (pc # "down")
    BY Zenon DEF Ring
  <1>2. CASE pc # "down"
    <2>1. (pc # "down") = TRUE
      BY <1>2, Zenon
    <2> QED BY <1>1, <1>2, <2>1, Zenon
  <1>3. CASE ~(pc # "down")
    <2>1. (pc # "down") = FALSE
      BY <1>3, Zenon
    <2> QED BY <1>1, <1>3, <2>1, Zenon
  <1> QED BY <1>2, <1>3, Zenon

(* Every step leaves flags. *)
LEMMA FlagsStep ==
  ASSUME UpdTypeOK, UpdNext
  PROVE  /\ {strays, ok, installed, reboot}' \subseteq BOOLEAN
         /\ {trigger, rebootEv, pending, cancelled}' \subseteq BOOLEAN
  <1>0. /\ strays \in BOOLEAN /\ ok \in BOOLEAN /\ installed \in BOOLEAN /\ reboot \in BOOLEAN
        /\ trigger \in BOOLEAN /\ rebootEv \in BOOLEAN /\ pending \in BOOLEAN
        /\ cancelled \in BOOLEAN
    BY Zenon DEF UpdTypeOK
  <1>1. CASE Unpacked
    <2>1. /\ Installs(cur.name)
          /\ UNCHANGED <<strays, ok, trigger, rebootEv, cancelled>>
      BY <1>1 DEF Unpacked
    <2> QED BY <1>0, <2>1, InstallsFlags, Zenon
  <1>2. CASE Arm
    <2>1. trigger' \in BOOLEAN /\ cancelled' \in BOOLEAN
      BY <1>0, <1>2, ArmFlags, Zenon
    <2>2. UNCHANGED <<strays, ok, installed, reboot, rebootEv, pending>>
      BY <1>2 DEF Arm
    <2> QED BY <1>0, <2>1, <2>2, Zenon
  <1>3. CASE Stop
    BY <1>0, <1>3, EndFlags, Zenon DEF Stop, Ends, EndPass
  <1>4. CASE Terminate
    BY <1>0, <1>4, EndFlags, Zenon DEF Terminate, Ends, EndPass
  <1>5. CASE Ring
    BY <1>0, <1>5, RingFlags, Zenon DEF Ring
  <1>6. CASE PowerOff
    BY <1>0, <1>6, Zenon DEF PowerOff, Ends, EndPass
  <1>7. CASE Start \/ Wake \/ Received \/ ReceiveFails
    <2>1. CASE Start \/ Wake
      BY <1>0, <2>1 DEF Start, Wake
    <2>2. CASE Received
      <3>1. strays' \in BOOLEAN
        BY <2>2 DEF Received, LeavesStrays
      <3> QED BY <1>0, <2>2, <3>1 DEF Received
    <2>3. CASE ReceiveFails
      BY <1>0, <2>3 DEF ReceiveFails, historyVars, rebootVars
    <2> QED BY <1>7, <2>1, <2>2, <2>3
  <1>8. CASE Create \/ CreateFails \/ UnpackFails \/ Junk \/ Clean
    <2>1. CASE Create \/ Junk
      BY <1>0, <2>1 DEF Create, Junk
    <2>2. CASE CreateFails \/ UnpackFails
      BY <1>0, <2>2 DEF CreateFails, UnpackFails, Dealt
    <2>3. CASE Clean
      BY <1>0, <2>3 DEF Clean, EndPass
    <2> QED BY <1>8, <2>1, <2>2, <2>3
  <1>9. CASE Reboot \/ RebootFails
    BY <1>0, <1>9 DEF Reboot, RebootFails
  <1>10. CASE \E p \in Packages : Same(p) \/ Rename(p)
    BY <1>0, <1>10 DEF Same, Rename
  <1>11. CASE \E m \in Modules : Release(m) \/ Use(m)
    BY <1>0, <1>11 DEF Release, Use
  <1>12. CASE Stray
    <2>1. /\ strays' = FALSE
          /\ UNCHANGED <<ok, trigger, rebootEv, cancelled>>
      BY <1>12 DEF Stray
    <2>2. /\ installed' \in BOOLEAN /\ reboot' \in BOOLEAN
          /\ pending' \in BOOLEAN
      BY <1>0, <1>12, StrayFlags, InstallsFlags, Zenon
    <2> QED BY <1>0, <2>1, <2>2, Zenon
  <1> QED
    BY <1>1, <1>2, <1>3, <1>4, <1>5, <1>6, <1>7, <1>8, <1>9, <1>10, <1>11, <1>12, Zenon
    DEF UpdNext, PassStep

-----------------------------------------------------------------------------
(* The packages to look at and the one in hand are there, and name a module. *)
LEMMA InHandOf ==
  ASSUME UpdTypeOK
  PROVE  /\ cur # None => cur \in todo /\ cur.name \in Modules /\ cur.version \in Versions
         /\ \A p \in pkgs : p \in Packages /\ p.name \in Modules /\ p.version \in Versions
         /\ todo \subseteq pkgs
         /\ \A p \in Packages : p # None
         /\ InHand \subseteq Modules
  BY DEF UpdTypeOK, Packages, InHand

(* A renamed module is one that was there. *)
LEMMA BackupType ==
  ASSUME UpdTypeOK, NEW ms \in SUBSET Modules, \A m \in ms : root[m] # None
  PROVE  Backup(ms) \subseteq [name : Modules, content : Contents]
  BY DEF UpdTypeOK, Backup, Files

(* A device that has just been set up satisfies the invariant. *)
LEMMA InitInv == UpdInit => UpdInv
  <1> SUFFICES ASSUME UpdInit PROVE UpdInv
    OBVIOUS
  <1>1. Factory \in Versions
    BY DEF Factory
  <1>2. UpdTypeOK
    <2>1. /\ {strays, ok, installed, reboot} \subseteq BOOLEAN
          /\ {trigger, rebootEv, pending, cancelled} \subseteq BOOLEAN
      BY DEF UpdInit, NoPass
    <2>2. /\ root \in [Modules -> Files] /\ loaded \in [Modules -> Versions \cup {None}]
          /\ server \in [Modules -> Versions \cup {None}]
      BY <1>1 DEF UpdInit, Files, Contents
    <2>3. /\ pc = "down" /\ cur = None
          /\ todo = {} /\ pkgs = {} /\ broken = {} /\ backups = {} /\ failed = {}
          /\ wanted = Modules /\ missed = {} /\ releases = 0 /\ stops = 0
      BY DEF UpdInit, NoPass
    <2> QED BY <2>1, <2>2, <2>3 DEF UpdTypeOK
  <1>3. NothingLeft /\ ListIsPacked /\ Compared /\ Mirrored /\ RebootIsDue
    BY DEF UpdInit, NoPass, NothingLeft, ListIsPacked, Compared, Mirrored,
           RebootIsDue, Comparing
  <1>4. ModuleKept
    BY <1>1 DEF UpdInit, ModuleKept, Whole
  <1> QED BY <1>2, <1>3, <1>4 DEF UpdInv

-----------------------------------------------------------------------------
(* Every step leaves the types. *)
LEMMA TypeStep == UpdInv /\ [UpdNext]_updVars => UpdTypeOK'
  <1> SUFFICES ASSUME UpdInv, [UpdNext]_updVars PROVE UpdTypeOK'
    OBVIOUS
  <1>0. UpdTypeOK /\ NothingLeft
    BY DEF UpdInv
  <1>1. CASE UNCHANGED updVars
    BY <1>0, <1>1 DEF UpdTypeOK, updVars
  <1>2. CASE UpdNext
    <2>0. /\ {strays, ok, installed, reboot}' \subseteq BOOLEAN
          /\ {trigger, rebootEv, pending, cancelled}' \subseteq BOOLEAN
      BY <1>0, <1>2, FlagsStep
    <2>1. CASE \E m \in Modules : Release(m) \/ Use(m)
      BY <1>0, <2>0, <2>1 DEF UpdTypeOK, Release, Use, Whole
    <2>2. CASE Stop \/ Terminate \/ PowerOff
      <3>1. Ends /\ loaded' \in [Modules -> Versions \cup {None}]
        BY <1>0, <2>2 DEF UpdTypeOK, Stop, Terminate, PowerOff
      <3>2. InHand \subseteq Modules
        BY <1>0, InHandOf
      <3> QED BY <1>0, <2>0, <3>1, <3>2 DEF UpdTypeOK, Ends, EndPass
    <2>3. CASE Start
      <3>1. backups' \subseteq [name : Modules, content : Contents]
        BY <1>0, <2>3 DEF UpdTypeOK, Start, Cleaned
      <3> QED BY <1>0, <2>0, <2>3, <3>1 DEF UpdTypeOK, Start, Whole
    <2>4. CASE Wake \/ ReceiveFails
      BY <1>0, <2>0, <2>4 DEF UpdTypeOK, Wake, ReceiveFails
    <2>5. CASE Received
      <3>1. /\ pkgs' \subseteq Packages /\ broken' \subseteq Packages
            /\ wanted' \subseteq Modules /\ missed' \subseteq Modules
            /\ todo' = pkgs'
        <4>1. Offered \subseteq Packages /\ todo' = pkgs'
          BY <2>5 DEF Received, Offered
        <4>2. pkgs' \subseteq Packages /\ broken' \subseteq Packages
          BY <1>0, <2>5, <4>1 DEF UpdTypeOK, Received, Fetched
        <4>3. wanted' \subseteq Modules
          BY <2>5, <4>1 DEF Received, Fetched, Packages
        <4>4. missed' \subseteq wanted'
          BY <2>5 DEF Received, Fetched
        <4> QED BY <4>1, <4>2, <4>3, <4>4
      <3> QED BY <1>0, <2>0, <2>5, <3>1 DEF UpdTypeOK, Received
    <2>6. CASE \E p \in Packages : Same(p)
      <3> PICK p \in Packages : Same(p)
        BY <2>6
      <3> QED BY <1>0, <2>0 DEF UpdTypeOK, Same
    <2>7. CASE \E p \in Packages : Rename(p)
      <3>0. PICK p \in Packages : Rename(p)
        BY <2>7
      <3>1. /\ cur' = p /\ p \in todo /\ p # None /\ p.name \in Modules
            /\ pc' = "unpack"
        BY <1>0, <3>0, InHandOf DEF Rename, Packages
      <3>2. root' \in [Modules -> Files]
        BY <1>0, <3>0, <3>1 DEF Rename, UpdTypeOK, Files
      <3>3. backups' \subseteq [name : Modules, content : Contents]
        <4>1. Backup({m \in {p.name} : root[m] # None})
                \subseteq [name : Modules, content : Contents]
          BY <1>0, <3>1, BackupType
        <4> QED BY <1>0, <3>0, <4>1 DEF Rename, UpdTypeOK
      <3> QED BY <1>0, <2>0, <3>0, <3>1, <3>2, <3>3 DEF UpdTypeOK, Rename
    <2>8. CASE Create
      <3>1. root' \in [Modules -> Files]
        BY <1>0, <2>8 DEF UpdTypeOK, Create, Files, Contents
      <3> QED BY <1>0, <2>0, <2>8, <3>1 DEF UpdTypeOK, Create
    <2>9. CASE CreateFails \/ UnpackFails \/ Unpacked
      <3>0. cur # None /\ cur.name \in Modules /\ cur.version \in Versions
        BY <1>0, <2>9, InHandOf DEF UpdTypeOK, CreateFails, UnpackFails, Unpacked
      <3>1. /\ pc' = "install" /\ cur' = None /\ todo' = todo \ {cur}
            /\ failed' \subseteq Modules
        BY <1>0, <2>9, <3>0
        DEF UpdTypeOK, CreateFails, UnpackFails, Unpacked, Dealt
      <3>2. root' \in [Modules -> Files]
        BY <1>0, <2>9, <3>0
        DEF UpdTypeOK, CreateFails, UnpackFails, Unpacked, Files, Contents
      <3>3. UNCHANGED <<backups, loaded, pkgs, broken, server, releases, stops, wanted,
                        missed>>
        BY <2>9 DEF CreateFails, UnpackFails, Unpacked
      <3> QED BY <1>0, <2>0, <3>1, <3>2, <3>3 DEF UpdTypeOK
    <2>10. CASE Stray \/ Arm
      BY <1>0, <2>0, <2>10 DEF UpdTypeOK, Stray, Arm
    <2>11. CASE Junk
      <3>1. PICK ms \in SUBSET {m \in Modules : JunkControl /\ root[m] # None
                                               /\ ~Packed(m)} :
              /\ backups' = backups \cup Backup(ms)
              /\ root' = [m \in Modules |-> IF m \in ms THEN None ELSE root[m]]
        BY <2>11 DEF Junk
      <3>2. failed' \subseteq Modules
        BY <1>0, <2>11 DEF Junk, UpdTypeOK
      <3>3. backups' \subseteq [name : Modules, content : Contents]
        <4>1. Backup(ms) \subseteq [name : Modules, content : Contents]
          BY <1>0, BackupType
        <4> QED BY <1>0, <3>1, <4>1 DEF UpdTypeOK
      <3>4. root' \in [Modules -> Files]
        BY <1>0, <3>1 DEF UpdTypeOK, Files
      <3> QED BY <1>0, <2>0, <2>11, <3>2, <3>3, <3>4 DEF UpdTypeOK, Junk
    <2>12. CASE Clean
      <3>1. backups' \subseteq [name : Modules, content : Contents]
        BY <1>0, <2>12 DEF UpdTypeOK, Clean, Cleaned
      <3> QED BY <1>0, <2>0, <2>12, <3>1 DEF UpdTypeOK, Clean, EndPass
    <2>13. CASE Ring \/ RebootFails
      BY <1>0, <2>0, <2>13 DEF UpdTypeOK, Ring, RebootFails
    <2>14. CASE Reboot
      BY <1>0, <2>0, <2>14 DEF UpdTypeOK, Reboot
    <2> QED
      BY <1>2, <2>1, <2>2, <2>3, <2>4, <2>5, <2>6, <2>7, <2>8, <2>9, <2>10, <2>11,
         <2>12, <2>13, <2>14
      DEF UpdNext, PassStep
  <1> QED BY <1>1, <1>2

-----------------------------------------------------------------------------
(* The steps of a pass, and how they touch the modules.                    *)

(* Packages are left to look at only while they are compared, and the list *)
(* that was received is the one of the packages.                           *)
LEMMA ListStep ==
  UpdInv /\ [UpdNext]_updVars => NothingLeft' /\ ListIsPacked'
  <1> SUFFICES ASSUME UpdInv, [UpdNext]_updVars
               PROVE  NothingLeft' /\ ListIsPacked'
    OBVIOUS
  <1>0. UpdTypeOK /\ NothingLeft /\ ListIsPacked
    BY DEF UpdInv
  <1>1. CASE UNCHANGED updVars
    BY <1>0, <1>1 DEF NothingLeft, ListIsPacked, Packed, updVars
  <1>2. CASE \E m \in Modules : Release(m) \/ Use(m)
    BY <1>0, <1>2 DEF NothingLeft, ListIsPacked, Packed, Release, Use
  <1>3. CASE Stop \/ Terminate \/ PowerOff
    BY <1>3
    DEF NothingLeft, ListIsPacked, Comparing, Stop, Terminate, PowerOff, Ends, EndPass
  <1>4. CASE Start \/ Wake \/ ReceiveFails
    BY <1>0, <1>4
    DEF NothingLeft, ListIsPacked, Comparing, Start, Wake, ReceiveFails
  <1>5. CASE Received
    BY <1>5 DEF NothingLeft, ListIsPacked, Comparing, Packed, Received, Fetched
  <1>6. CASE \E p \in Packages : Same(p) \/ Rename(p)
    BY <1>0, <1>6 DEF NothingLeft, ListIsPacked, Comparing, Packed, Same, Rename
  <1>7. CASE Create \/ CreateFails \/ UnpackFails \/ Unpacked
    BY <1>0, <1>7
    DEF NothingLeft, ListIsPacked, Comparing, Packed, Create, CreateFails,
        UnpackFails, Unpacked, Dealt
  <1>8. CASE Stray \/ Arm \/ Junk
    BY <1>0, <1>8 DEF NothingLeft, ListIsPacked, Comparing, Packed, Stray, Arm, Junk
  <1>9. CASE Clean
    BY <1>0, <1>9 DEF NothingLeft, ListIsPacked, Comparing, Clean, EndPass
  <1>10. CASE Ring \/ Reboot \/ RebootFails
    BY <1>0, <1>10
    DEF NothingLeft, ListIsPacked, Comparing, Packed, Ring, Reboot, RebootFails
  <1> QED
    BY <1>1, <1>2, <1>3, <1>4, <1>5, <1>6, <1>7, <1>8, <1>9, <1>10
    DEF UpdNext, PassStep

(* A module that is given up is in hand or has failed, or no package of it came. *)
LEMMA KeptStep == UpdInv /\ [UpdNext]_updVars => ModuleKept'
  <1> SUFFICES ASSUME UpdInv, [UpdNext]_updVars, NEW m \in wanted'
               PROVE  (Whole(m) \/ m \in InHand \/ m \in failed \/ m \in missed)'
    BY DEF ModuleKept
  <1>0. UpdTypeOK /\ NothingLeft /\ ListIsPacked /\ ModuleKept
    BY DEF UpdInv
  <1>a. /\ cur # None => cur \in todo /\ cur.name \in Modules /\ cur.version \in Versions
        /\ \A p \in pkgs : p \in Packages /\ p.name \in Modules /\ p.version \in Versions
        /\ todo \subseteq pkgs
    BY <1>0, InHandOf
  <1>b. /\ wanted \subseteq Modules /\ root \in [Modules -> Files]
        /\ cur = None <=> pc \notin {"unpack", "write"}
    BY <1>0 DEF UpdTypeOK
  <1>1. CASE UNCHANGED updVars
    BY <1>0, <1>1 DEF ModuleKept, Whole, InHand, updVars
  <1>2. CASE \E n \in Modules : Release(n) \/ Use(n)
    BY <1>0, <1>2 DEF ModuleKept, Whole, InHand, Release, Use
  <1>3. CASE Stop \/ Terminate \/ PowerOff
    <2>1. /\ wanted' = wanted /\ missed' = missed /\ root' = root
          /\ failed' = failed \cup InHand
      BY <1>3 DEF Stop, Terminate, PowerOff, Ends
    <2> QED BY <1>0, <2>1 DEF ModuleKept, Whole
  <1>4. CASE Start \/ Wake \/ ReceiveFails
    BY <1>0, <1>4 DEF ModuleKept, Whole, InHand, Start, Wake, ReceiveFails
  <1>5. CASE Received
    <2>1. m \in Modules
      BY <1>5 DEF Received, Fetched, Offered, Packages
    <2>2. m \in missed' \/ \E p \in todo' : p.name = m
      BY <1>5 DEF Received, Fetched
    <2> QED BY <2>1, <2>2 DEF Whole, InHand
  <1>6. CASE \E p \in Packages : Same(p)
    <2>1. PICK p \in Packages : Same(p)
      BY <1>6
    <2>2. /\ wanted' = wanted /\ missed' = missed /\ root' = root /\ todo' = todo \ {p}
          /\ failed' = failed \ {p.name} /\ root[p.name] = p.version
      BY <2>1 DEF Same
    <2>3. p.version \in Versions
      BY DEF Packages
    <2> QED BY <1>0, <2>2, <2>3 DEF ModuleKept, Whole, InHand
  <1>7. CASE \E p \in Packages : Rename(p)
    <2>1. PICK p \in Packages : Rename(p)
      BY <1>7
    <2>2. /\ wanted' = wanted /\ missed' = missed /\ todo' = todo /\ failed' = failed /\ p \in todo
          /\ \/ root' = [root EXCEPT ![p.name] = None]
             \/ root' = root
      BY <2>1 DEF Rename
    <2>3. m # p.name => root'[m] = root[m]
      BY <1>b, <2>2
    <2> QED BY <1>0, <1>b, <2>2, <2>3 DEF ModuleKept, Whole, InHand
  <1>8. CASE Create
    <2>1. /\ wanted' = wanted /\ missed' = missed /\ todo' = todo /\ failed' = failed /\ cur \in todo
          /\ root' = [root EXCEPT ![cur.name] = Torn]
      BY <1>a, <1>b, <1>8 DEF Create
    <2>2. m # cur.name => root'[m] = root[m]
      BY <1>b, <2>1
    <2> QED BY <1>0, <1>b, <2>1, <2>2 DEF ModuleKept, Whole, InHand
  <1>9. CASE CreateFails \/ UnpackFails \/ Unpacked
    <2>1. /\ wanted' = wanted /\ missed' = missed /\ todo' = todo \ {cur} /\ cur \in todo
          /\ cur.name \in Modules /\ cur.version \in Versions
      BY <1>a, <1>b, <1>9 DEF CreateFails, UnpackFails, Unpacked, Dealt
    <2>2. \/ root' = root /\ failed' = failed \cup {cur.name}
          \/ /\ root' = [root EXCEPT ![cur.name] = cur.version]
             /\ failed' = failed \ {cur.name}
      BY <1>9 DEF CreateFails, UnpackFails, Unpacked, Dealt
    <2>3. m # cur.name => root'[m] = root[m] /\ (m \in failed => m \in failed')
      BY <1>b, <2>1, <2>2
    <2>4. m = cur.name => m \in failed' \/ root'[m] \in Versions
      BY <1>b, <2>1, <2>2
    <2> QED BY <1>0, <1>b, <2>1, <2>3, <2>4 DEF ModuleKept, Whole, InHand
  <1>10. CASE Stray \/ Arm
    BY <1>0, <1>10 DEF ModuleKept, Whole, InHand, Stray, Arm
  <1>11. CASE Junk
    <2>1. /\ wanted' = wanted /\ missed' = missed /\ todo' = todo /\ failed \subseteq failed'
          /\ Packed(m) \/ m \in missed
      BY <1>0, <1>11 DEF Junk, ListIsPacked
    <2>2. Packed(m) => root'[m] = root[m]
      BY <1>b, <1>11, <2>1 DEF Junk
    <2> QED BY <1>0, <1>b, <2>1, <2>2 DEF ModuleKept, Whole, InHand
  <1>12. CASE Clean
    <2>1. todo = {}
      BY <1>0, <1>12 DEF NothingLeft, Comparing, Clean
    <2> QED BY <1>0, <1>12, <2>1 DEF ModuleKept, Whole, InHand, Clean, EndPass
  <1>13. CASE Ring \/ Reboot \/ RebootFails
    BY <1>0, <1>13 DEF ModuleKept, Whole, InHand, Ring, Reboot, RebootFails
  <1> QED
    BY <1>1, <1>2, <1>3, <1>4, <1>5, <1>6, <1>7, <1>8, <1>9, <1>10, <1>11, <1>12,
       <1>13
    DEF UpdNext, PassStep

(* A package leaves the list when its module is the one it holds, or failed. *)
LEMMA ComparedStep == UpdInv /\ [UpdNext]_updVars => Compared'
  <1> SUFFICES ASSUME UpdInv, [UpdNext]_updVars,
                      pc' \in Comparing \cup {"junk"},
                      NEW m \in Modules, Packed(m)'
               PROVE  (\/ m \in failed
                       \/ [name |-> m, version |-> root[m]] \in pkgs
                       \/ \E p \in todo : p.name = m)'
    BY DEF Compared
  <1>0. UpdTypeOK /\ Compared
    BY DEF UpdInv
  <1>a. /\ cur # None => cur \in todo /\ cur.name \in Modules /\ cur.version \in Versions
        /\ \A p \in pkgs : p \in Packages /\ p.name \in Modules /\ p.version \in Versions
        /\ todo \subseteq pkgs
    BY <1>0, InHandOf
  <1>b. /\ root \in [Modules -> Files]
        /\ cur = None <=> pc \notin {"unpack", "write"}
    BY <1>0 DEF UpdTypeOK
  <1>c. \A p \in Packages : [name |-> p.name, version |-> p.version] = p
    BY DEF Packages
  <1>1. CASE UNCHANGED updVars
    BY <1>0, <1>1 DEF Compared, Packed, updVars
  <1>2. CASE \E n \in Modules : Release(n) \/ Use(n)
    BY <1>0, <1>2 DEF Compared, Packed, Release, Use
  <1>3. CASE Stop \/ Terminate \/ PowerOff \/ Start \/ Wake \/ ReceiveFails \/ Junk
             \/ Clean \/ Reboot
    BY <1>3
    DEF Comparing, Stop, Terminate, PowerOff, Ends, Start, Wake, ReceiveFails, Junk,
        Clean, Reboot
  <1>4. CASE Received
    BY <1>4 DEF Received, Packed
  <1>5. CASE \E p \in Packages : Same(p)
    <2>1. PICK p \in Packages : Same(p)
      BY <1>5
    <2>2. /\ pc = "install" /\ p \in pkgs
          /\ root' = root /\ pkgs' = pkgs /\ todo' = todo \ {p}
          /\ failed' = failed \ {p.name} /\ root[p.name] = p.version
      BY <1>a, <2>1 DEF Same
    <2>3. m = p.name => [name |-> m, version |-> root[m]] \in pkgs
      BY <1>c, <2>2
    <2> QED BY <1>0, <2>2, <2>3 DEF Compared, Packed, Comparing
  <1>6. CASE \E p \in Packages : Rename(p)
    <2>1. PICK p \in Packages : Rename(p)
      BY <1>6
    <2>2. /\ pc = "install" /\ pkgs' = pkgs /\ todo' = todo /\ failed' = failed
          /\ p \in todo
          /\ \/ root' = [root EXCEPT ![p.name] = None]
             \/ root' = root
      BY <2>1 DEF Rename
    <2>3. m # p.name => root'[m] = root[m]
      BY <1>b, <2>2
    <2> QED BY <1>0, <2>2, <2>3 DEF Compared, Packed, Comparing
  <1>7. CASE Create
    <2>1. /\ pc = "unpack" /\ pkgs' = pkgs /\ todo' = todo /\ failed' = failed
          /\ cur \in todo /\ root' = [root EXCEPT ![cur.name] = Torn]
      BY <1>a, <1>b, <1>7 DEF Create
    <2>2. m # cur.name => root'[m] = root[m]
      BY <1>b, <2>1
    <2> QED BY <1>0, <2>1, <2>2 DEF Compared, Packed, Comparing
  <1>8. CASE CreateFails \/ UnpackFails \/ Unpacked
    <2>1. /\ pc \in {"unpack", "write"} /\ pkgs' = pkgs /\ todo' = todo \ {cur}
          /\ cur \in pkgs /\ cur \in Packages /\ cur.name \in Modules
      BY <1>a, <1>b, <1>8 DEF CreateFails, UnpackFails, Unpacked, Dealt
    <2>2. \/ root' = root /\ failed' = failed \cup {cur.name}
          \/ /\ root' = [root EXCEPT ![cur.name] = cur.version]
             /\ failed' = failed \ {cur.name}
      BY <1>8 DEF CreateFails, UnpackFails, Unpacked, Dealt
    <2>3. m # cur.name => root'[m] = root[m] /\ (m \in failed => m \in failed')
      BY <1>b, <2>1, <2>2
    <2>4. m = cur.name => m \in failed' \/ [name |-> m, version |-> root'[m]] \in pkgs'
      BY <1>b, <1>c, <2>1, <2>2
    <2> QED BY <1>0, <2>1, <2>3, <2>4 DEF Compared, Packed, Comparing
  <1>9. CASE Stray \/ Arm
    BY <1>0, <1>9 DEF Compared, Packed, Comparing, Stray, Arm
  <1>10. CASE Ring \/ RebootFails
    BY <1>0, <1>10 DEF Compared, Packed, Ring, RebootFails
  <1> QED
    BY <1>1, <1>2, <1>3, <1>4, <1>5, <1>6, <1>7, <1>8, <1>9, <1>10
    DEF UpdNext, PassStep

(* Junk control leaves what the packages bring, and what it failed at. *)
LEMMA MirroredStep == UpdInv /\ [UpdNext]_updVars => Mirrored'
  <1> SUFFICES ASSUME UpdInv, [UpdNext]_updVars, pc' = "clean", ok',
                      NEW m \in Modules, m \notin failed'
               PROVE  (\/ [name |-> m, version |-> root[m]] \in pkgs
                       \/ ~Packed(m) /\ (JunkControl => root[m] = None))'
    BY DEF Mirrored
  <1>0. UpdTypeOK /\ NothingLeft /\ Compared /\ Mirrored
    BY DEF UpdInv
  <1>1. CASE UNCHANGED updVars
    BY <1>0, <1>1 DEF Mirrored, Packed, updVars
  <1>2. CASE \E n \in Modules : Release(n) \/ Use(n)
    BY <1>0, <1>2 DEF Mirrored, Packed, Release, Use
  <1>3. CASE ReceiveFails
    BY <1>3 DEF ReceiveFails
  <1>4. CASE Junk
    <2>1. PICK ms \in SUBSET {n \in Modules : JunkControl /\ root[n] # None /\ ~Packed(n)} :
            /\ root' = [n \in Modules |-> IF n \in ms THEN None ELSE root[n]]
            /\ failed' = failed \cup ({n \in Modules : JunkControl /\ root[n] # None
                                                       /\ ~Packed(n)} \ ms)
      BY <1>4 DEF Junk
    <2>2. pc = "junk" /\ pkgs' = pkgs
      BY <1>4 DEF Junk
    <2>3. CASE Packed(m)
      <3>1. [name |-> m, version |-> root[m]] \in pkgs
        BY <1>0, <2>1, <2>2, <2>3 DEF Compared, NothingLeft, Comparing
      <3>2. root'[m] = root[m]
        BY <2>1, <2>3
      <3> QED BY <2>2, <3>1, <3>2
    <2>4. CASE ~Packed(m)
      <3>1. JunkControl => root'[m] = None
        BY <2>1, <2>4
      <3>2. ~Packed(m)'
        BY <2>2, <2>4 DEF Packed
      <3> QED BY <3>1, <3>2
    <2> QED BY <2>3, <2>4
  <1>5. CASE Ring
    BY <1>0, <1>5 DEF Mirrored, Packed, Ring
  <1>6. CASE Stop \/ Terminate \/ PowerOff \/ Start \/ Wake \/ Received
    BY <1>6 DEF Stop, Terminate, PowerOff, Ends, Start, Wake, Received
  <1>7. CASE \/ \E p \in Packages : Same(p) \/ Rename(p)
             \/ Create \/ CreateFails \/ UnpackFails \/ Unpacked
    BY <1>7
    DEF Same, Rename, Create, CreateFails, UnpackFails, Unpacked, Dealt
  <1>8. CASE Stray \/ Arm \/ Clean \/ Reboot \/ RebootFails
    BY <1>8 DEF Stray, Arm, Clean, Reboot, RebootFails
  <1> QED
    BY <1>1, <1>2, <1>3, <1>4, <1>5, <1>6, <1>7, <1>8 DEF UpdNext, PassStep

(* A reboot that is due passes from the pass to the trigger and to the event. *)
LEMMA RebootStep == UpdInv /\ [UpdNext]_updVars => RebootIsDue'
  <1> SUFFICES ASSUME UpdInv, [UpdNext]_updVars, pending', ~cancelled'
               PROVE  (/\ pc # "down"
                       /\ \/ trigger
                          \/ rebootEv
                          \/ installed /\ reboot /\ pc \in Comparing)'
    BY Zenon DEF RebootIsDue
  <1>0. UpdTypeOK /\ RebootIsDue
    BY DEF UpdInv
  <1>1. CASE UNCHANGED updVars
    BY <1>0, <1>1 DEF RebootIsDue, updVars
  <1>2. CASE \E n \in Modules : Release(n) \/ Use(n)
    <2>1. UNCHANGED <<pc, installed, reboot, trigger, rebootEv, pending, cancelled>>
      BY <1>2 DEF Release, Use
    <2> QED BY <1>0, <2>1 DEF RebootIsDue
  <1>3. CASE Stop \/ Terminate
    <2>1. ~(cancelled \/ pending)
      BY <1>0, <1>3, EndFlags, Zenon
    <2>2. pending' = pending
      BY <1>3 DEF Stop, Terminate
    <2> QED BY <2>1, <2>2
  <1>4. CASE PowerOff \/ Reboot
    BY <1>4 DEF PowerOff, Reboot
  <1>5. CASE Start
    BY <1>0, <1>5 DEF RebootIsDue, Start
  <1>6. CASE Wake \/ Received \/ ReceiveFails
    BY <1>0, <1>6 DEF RebootIsDue, Comparing, Wake, Received, ReceiveFails
  <1>7. CASE \/ \E p \in Packages : Same(p) \/ Rename(p)
             \/ Create \/ CreateFails \/ UnpackFails
    BY <1>0, <1>7
    DEF RebootIsDue, Comparing, Same, Rename, Create, CreateFails, UnpackFails, Dealt
  <1>8. ASSUME NEW n, Installs(n), pc' = "install", pc \in Comparing,
               UNCHANGED <<trigger, rebootEv, cancelled>>
        PROVE  (/\ pc # "down"
                /\ \/ trigger
                   \/ rebootEv
                   \/ installed /\ reboot /\ pc \in Comparing)'
    <2>1. /\ installed' /\ (reboot' <=> reboot \/ n \notin Pictures)
          /\ (pending' <=> pending \/ n \notin Pictures)
      BY <1>0, <1>8, InstallsFlags, Zenon
    <2>2. CASE n \notin Pictures
      BY <1>8, <2>1, <2>2 DEF Comparing
    <2>3. CASE n \in Pictures
      <3>1. trigger \/ rebootEv \/ (installed /\ reboot)
        BY <1>0, <1>8, <2>1, <2>3, Zenon DEF RebootIsDue
      <3>2. trigger' \/ rebootEv' \/ (installed' /\ reboot')
        BY <1>8, <2>1, <3>1
      <3> QED BY <1>8, <3>2 DEF Comparing
    <2> QED BY <2>2, <2>3
  <1>9. CASE Unpacked
    <2>1. /\ Installs(cur.name) /\ pc' = "install" /\ pc \in Comparing
          /\ UNCHANGED <<trigger, rebootEv, cancelled>>
      BY <1>9 DEF Unpacked, Dealt, Comparing
    <2> QED BY <1>8, <2>1
  <1>10. CASE Stray
    <2>1. /\ pc' = "install" /\ pc \in Comparing
          /\ UNCHANGED <<trigger, rebootEv, cancelled>>
      BY <1>10 DEF Stray, Comparing
    <2>2. CASE UNCHANGED <<installed, reboot, pending>>
      BY <1>0, <2>1, <2>2 DEF RebootIsDue, Comparing
    <2> QED BY <1>0, <1>8, <1>10, <2>1, <2>2, StrayFlags
  <1>11. CASE Arm
    <2>1. pc' = "junk" /\ pending' = pending /\ rebootEv' = rebootEv
      BY <1>11 DEF Arm
    <2>2. CASE installed /\ reboot
      BY <1>11, <2>1, <2>2, ArmFlags
    <2>3. CASE ~(installed /\ reboot)
      <3>1. trigger' = trigger /\ cancelled' = cancelled
        BY <1>11, <2>3, ArmFlags
      <3> QED BY <1>0, <2>1, <2>3, <3>1 DEF RebootIsDue
    <2> QED BY <2>2, <2>3
  <1>12. CASE Junk \/ Clean
    BY <1>0, <1>12 DEF RebootIsDue, Comparing, Junk, Clean
  <1>13. CASE Ring
    <2>1. rebootEv' <=> pc # "down"
      BY <1>13, RingFlags, Zenon
    <2>2. pc' = pc /\ pending' = pending /\ cancelled' = cancelled
      BY <1>13 DEF Ring
    <2> QED BY <1>0, <2>1, <2>2 DEF RebootIsDue
  <1>14. CASE RebootFails
    BY <1>14 DEF RebootFails
  <1> QED
    BY <1>1, <1>2, <1>3, <1>4, <1>5, <1>6, <1>7, <1>8, <1>9, <1>10, <1>11, <1>12,
       <1>13, <1>14
    DEF UpdNext, PassStep

-----------------------------------------------------------------------------
(* UpdInv is an invariant of the daemon. *)
LEMMA Invariant == UpdSpec => []UpdInv
  <1>1. UpdInv /\ [UpdNext]_updVars => UpdInv'
    BY TypeStep, ListStep, KeptStep, ComparedStep, MirroredStep, RebootStep
    DEF UpdInv
  <1> QED BY InitInv, <1>1, PTL DEF UpdSpec

(* The device and the pass have their types. *)
THEOREM TypeCorrect == UpdSpec => []UpdTypeOK
  <1>1. UpdInv => UpdTypeOK
    BY DEF UpdInv
  <1> QED BY Invariant, <1>1, PTL

(* Every module of the last list is whole, in hand, or failed, or recv left   *)
(* no package of it: the device is never left without one for another reason, *)
(* whenever it is stopped.                                                    *)
THEOREM ModulesAreKept == UpdSpec => []ModuleKept
  <1>1. UpdInv => ModuleKept
    BY DEF UpdInv
  <1> QED BY Invariant, <1>1, PTL

(* With junk control, a pass that got the packages leaves the root directory  *)
(* a copy of them, but for the modules at which an operation failed.          *)
THEOREM PassMirrors ==
  ASSUME JunkControl PROVE UpdSpec => []RootMirrorsPackages
  <1>1. UpdInv => RootMirrorsPackages
    BY DEF UpdInv, Mirrored, RootMirrorsPackages
  <1> QED BY Invariant, <1>1, PTL

(* Without it the modules that no package brings stay, and the same holds of  *)
(* the others.                                                                *)
THEOREM PassInstalls ==
  UpdSpec => [](pc = "clean" /\ ok =>
                  \A m \in Modules \ failed :
                    Packed(m) => [name |-> m, version |-> root[m]] \in pkgs)
  <1>1. UpdInv => (pc = "clean" /\ ok =>
                     \A m \in Modules \ failed :
                       Packed(m) => [name |-> m, version |-> root[m]] \in pkgs)
    BY DEF UpdInv, Mirrored
  <1> QED BY Invariant, <1>1, PTL

(* While a module waits for a reboot the daemon does not sleep without one    *)
(* being armed or signalled, unless the last one that was asked for has been  *)
(* dropped.                                                                   *)
THEOREM RebootIsNotForgotten == UpdSpec => []RebootFollows
  <1>1. UpdInv => RebootFollows
    BY DEF UpdInv, RebootIsDue, RebootFollows, Comparing
  <1> QED BY Invariant, <1>1, PTL
=============================================================================
