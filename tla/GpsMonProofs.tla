---------------------------- MODULE GpsMonProofs ----------------------------
(***************************************************************************)
(* Proofs about GpsMon, for every number of readers, whichever of the      *)
(* processes die and wherever they are when they do.                       *)
(***************************************************************************)
EXTENDS GpsMon, TLAPS

(***************************************************************************)
(* The inductive invariant.                                                *)
(***************************************************************************)

(* Inside the section the lock guards. *)
Section == {"copy", "copyRest", "unlock"}

Position == [on : BOOLEAN, position : BOOLEAN]

GpsTypeOK ==
  /\ rpc \in [Readers -> Section \cup {"idle", "map", "lock", "closeMap", "closeLock"}]
  /\ info \in [Readers -> Position]
  /\ l \in Position
  /\ shared \in Position
  /\ free \in BOOLEAN
  /\ mappers \subseteq lockers
  /\ lockers \subseteq Readers \cup {"gpsmon"}

(* A thread has its handles as long as it works with them; a reader has none *)
(* between its calls.                                                        *)
HandlesHeld ==
  /\ gpc \notin {"end", "createLock"} => "gpsmon" \in lockers
  /\ gpc \in {"view", "loop", "gps", "lock", "closeGps", "closeMap"} \cup Section
       => "gpsmon" \in mappers
  /\ gpc = "closeLock" => "gpsmon" \notin mappers
  /\ host = "down" => gpc = "end"
  /\ \A r \in Readers :
       /\ r \in lockers <=> rpc[r] # "idle"
       /\ r \in mappers <=> rpc[r] \in {"lock", "closeMap"} \cup Section

(* One thread at a time is in the section, and none while the lock is free. *)
OneInSection ==
  /\ free => gpc \notin Section /\ \A r \in Readers : rpc[r] \notin Section
  /\ \A r \in Readers :
       rpc[r] \in Section =>
         /\ gpc \notin Section
         /\ \A q \in Readers : rpc[q] \in Section => q = r

Consistent(p) == p.position => p.on

(* Half a copy is in the memory only where nobody reads it: GpsProc is at it, *)
(* or died at it with the lock, which then stays taken until the last handle  *)
(* to it, and before that to the memory, is closed.                           *)
SharedIsConsistent ==
  /\ mappers = {} => shared = Zero
  /\ gpc = "copyRest" => shared.on = l.on
  /\ ~Consistent(shared) =>
       /\ ~free
       /\ gpc \notin {"copy", "unlock"}
       /\ \A r \in Readers : rpc[r] \notin Section

AnswersConsistent ==
  /\ Consistent(l)
  /\ \A r \in Readers :
       /\ rpc[r] # "copyRest" => Consistent(info[r])
       /\ rpc[r] = "copyRest" => info[r].on = shared.on

GpsInv ==
  /\ GpsTypeOK
  /\ HandlesHeld
  /\ OneInSection
  /\ SharedIsConsistent
  /\ AnswersConsistent

-----------------------------------------------------------------------------
(***************************************************************************)
(* What the steps do to the lock and the memory.                           *)
(***************************************************************************)

(* An empty position is a position. *)
LEMMA ZeroType == Zero \in Position
BY DEF Zero, Position

(* What ReadGps measures is a whole position. *)
LEMMA MeasuredType == \A m \in Measured : m \in Position /\ Consistent(m)
<1>1. \A m \in [on : {TRUE}, position : BOOLEAN] : m \in Position /\ Consistent(m)
  BY DEF Position, Consistent
<1>2. ~Zero.position
  BY DEF Zero
<1> QED
  BY <1>1, <1>2, ZeroType DEF Measured, Consistent

(* The lock and the memory are gone with their last handles. *)
LEMMA Dropped ==
  ASSUME GpsTypeOK, NEW p
  PROVE  /\ DropLock(p) => /\ lockers' = lockers \ {p}
                           /\ free' \in BOOLEAN
                           /\ free' => free
         /\ DropMap(p) => /\ mappers' = mappers \ {p}
                          /\ shared' \in {shared, Zero}
                          /\ shared' # shared => mappers' = {}
                          /\ mappers' = {} => shared' = Zero
<1>1. ASSUME DropLock(p)
      PROVE  /\ lockers' = lockers \ {p}
             /\ free' \in BOOLEAN
             /\ free' => free
  <2>1. lockers' = lockers \ {p} /\ free' = (free /\ lockers' # {})
    BY <1>1 DEF DropLock
  <2>2. CASE free /\ lockers' # {}
    BY <2>1, <2>2, Zenon
  <2>3. CASE ~(free /\ lockers' # {})
    BY <2>1, <2>3, Zenon
  <2> QED
    BY <2>1, <2>2, <2>3
<1>2. ASSUME DropMap(p)
      PROVE  /\ mappers' = mappers \ {p}
             /\ shared' \in {shared, Zero}
             /\ shared' # shared => mappers' = {}
             /\ mappers' = {} => shared' = Zero
  BY <1>2 DEF DropMap
<1> QED
  BY <1>1, <1>2

(* A lock that is created is free, and one that is opened stays as it is. *)
LEMMA LockCreated ==
  ASSUME GpsTypeOK, CreateLock
  PROVE  /\ free' \in BOOLEAN
         /\ free' <=> free \/ lockers = {}
<1>1. free' = (free \/ lockers = {})
  BY DEF CreateLock
<1>2. CASE free \/ lockers = {}
  BY <1>1, <1>2, Zenon
<1>3. CASE ~(free \/ lockers = {})
  BY <1>1, <1>3, Zenon
<1> QED
  BY <1>2, <1>3

-----------------------------------------------------------------------------
(***************************************************************************)
(* The steps of daemons-host and of GpsProc.                               *)
(***************************************************************************)
LEMMA HostStep ==
  ASSUME GpsInv, StartDaemon \/ Kill \/ StopReturns \/ Exit \/ Crash
  PROVE  GpsInv'
<1> USE GpsAssumption
    DEF GpsInv, GpsTypeOK, HandlesHeld, OneInSection, SharedIsConsistent,
        AnswersConsistent, Consistent, Section, Zero, hostVars, lockVars, mapVars, readVars
<1>1. CASE StartDaemon \/ Kill \/ StopReturns
  BY <1>1 DEF StartDaemon, Kill, StopReturns
<1>2. CASE Exit \/ Crash
  <2>1. /\ host' = "down" /\ gpc' = "end" /\ l' = Zero
        /\ UNCHANGED <<rpc, info>>
        /\ DropLock("gpsmon") /\ DropMap("gpsmon")
    BY <1>2 DEF Exit, Crash, ProcessEnds
  <2>2. /\ lockers' = lockers \ {"gpsmon"} /\ mappers' = mappers \ {"gpsmon"}
        /\ free' \in BOOLEAN /\ (free' => free)
        /\ shared' \in {shared, Zero} /\ (shared' # shared => mappers' = {})
        /\ mappers' = {} => shared' = Zero
    BY <2>1, Dropped
  <2>3. l' \in Position
    BY <2>1 DEF Position
  <2>4. shared' \in Position
    BY <2>2, ZeroType
  <2> HIDE DEF DropLock, DropMap
  <2>5. GpsTypeOK'
    BY <2>1, <2>2, <2>3, <2>4
  <2>6. HandlesHeld' /\ OneInSection'
    BY <2>1, <2>2
  <2>7. SharedIsConsistent'
    BY <2>1, <2>2
  <2>8. AnswersConsistent'
    BY <2>1, <2>2
  <2> QED
    BY <2>5, <2>6, <2>7, <2>8
<1> QED
  BY <1>1, <1>2

(* The thread of gpsmon keeps the invariant. *)
LEMMA MonitorStep ==
  ASSUME GpsInv, GpsProc \/ Cycle
  PROVE  GpsInv'
<1> USE GpsAssumption
    DEF GpsInv, GpsTypeOK, HandlesHeld, OneInSection, SharedIsConsistent,
        AnswersConsistent, Consistent, Section, Zero, hostVars, lockVars, mapVars, readVars
<1>1. CASE CreateLock
  <2>1. /\ gpc = "createLock" /\ gpc' = "createMap"
        /\ lockers' = lockers \cup {"gpsmon"}
        /\ UNCHANGED <<host, l, mappers, shared, rpc, info>>
    BY <1>1 DEF CreateLock
  <2>2. free' \in BOOLEAN /\ (free' <=> free \/ lockers = {})
    BY <1>1, LockCreated
  <2> QED
    BY <2>1, <2>2
<1>2. CASE CreateMap
  <2>1. /\ gpc = "createMap" /\ gpc' = "view"
        /\ mappers' = mappers \cup {"gpsmon"}
        /\ UNCHANGED <<host, l, free, lockers, shared, rpc, info>>
    BY <1>2 DEF CreateMap
  <2> QED
    BY <2>1
<1>3. CASE MapView
  <2>1. /\ gpc = "view" /\ gpc' \in {"loop", "closeMap"}
        /\ UNCHANGED <<host, l, free, lockers, mappers, shared, rpc, info>>
    BY <1>3 DEF MapView
  <2> QED
    BY <2>1
<1>4. CASE Wait
  BY <1>4 DEF Wait
<1>5. CASE Cycle
  <2>1. l' \in Position /\ Consistent(l')
    BY <1>5, MeasuredType DEF Cycle
  <2> QED
    BY <1>5, <2>1 DEF Cycle
<1>6. CASE Lock
  BY <1>6 DEF Lock
<1>7. CASE CopyIn
  <2>1. CASE gpc = "copy"
    <3>1. /\ gpc' = "copyRest"
          /\ shared' \in Position
          /\ shared'.on = l.on
          /\ UNCHANGED <<host, l, free, lockers, mappers, rpc, info>>
      BY <1>7, <2>1 DEF CopyIn, Position
    <3> QED
      BY <2>1, <3>1
  <2>2. CASE gpc = "copyRest"
    <3>1. /\ gpc' = "unlock"
          /\ shared' \in Position
          /\ shared'.on = shared.on
          /\ shared'.position = l.position
          /\ UNCHANGED <<host, l, free, lockers, mappers, rpc, info>>
      BY <1>7, <2>2 DEF CopyIn, Position
    <3> QED
      BY <2>2, <3>1
  <2> QED
    BY <1>7, <2>1, <2>2 DEF CopyIn
<1>8. CASE Unlock
  BY <1>8 DEF Unlock
<1>9. CASE CloseGps
  BY <1>9 DEF CloseGps, Position
<1>10. CASE CloseHandles
  <2>1. CASE gpc = "closeMap"
    <3>1. /\ gpc' = "closeLock" /\ DropMap("gpsmon")
          /\ UNCHANGED <<host, l, free, lockers, rpc, info>>
      BY <1>10, <2>1 DEF CloseHandles
    <3>2. /\ mappers' = mappers \ {"gpsmon"}
          /\ shared' \in {shared, Zero} /\ (shared' # shared => mappers' = {})
          /\ mappers' = {} => shared' = Zero
      BY <3>1, Dropped
    <3>3. shared' \in Position
      BY <3>2, ZeroType
    <3> QED
      BY <2>1, <3>1, <3>2, <3>3
  <2>2. CASE gpc = "closeLock"
    <3>1. /\ gpc' = "end" /\ DropLock("gpsmon")
          /\ UNCHANGED <<host, l, mappers, shared, rpc, info>>
      BY <1>10, <2>2 DEF CloseHandles
    <3>2. lockers' = lockers \ {"gpsmon"} /\ free' \in BOOLEAN /\ (free' => free)
      BY <3>1, Dropped
    <3> QED
      BY <2>2, <3>1, <3>2
  <2> QED
    BY <1>10, <2>1, <2>2 DEF CloseHandles
<1> QED
  BY <1>1, <1>2, <1>3, <1>4, <1>5, <1>6, <1>7, <1>8, <1>9, <1>10 DEF GpsProc

-----------------------------------------------------------------------------
(***************************************************************************)
(* The steps of a reader.                                                  *)
(***************************************************************************)
LEMMA ReaderStep ==
  ASSUME GpsInv, NEW r \in Readers, OpenLock(r) \/ Reading(r) \/ ReaderDies(r)
  PROVE  GpsInv'
<1> USE GpsAssumption
    DEF GpsInv, GpsTypeOK, HandlesHeld, OneInSection, SharedIsConsistent,
        AnswersConsistent, Consistent, Section, Zero, hostVars, lockVars, mapVars, readVars
<1>0. r # "gpsmon"
  OBVIOUS
<1>1. CASE OpenLock(r)
  BY <1>0, <1>1, ZeroType DEF OpenLock
<1>2. CASE OpenMap(r)
  BY <1>0, <1>2 DEF OpenMap
<1>3. CASE Take(r)
  <2>1. rpc[r] = "lock" /\ UNCHANGED <<host, gpc, l, lockers, mappers, shared, info>>
    BY <1>3 DEF Take
  <2>2. free' \in BOOLEAN /\ ~free'
    BY <1>3 DEF Take
  <2>3. CASE free
    <3>1. rpc' = [rpc EXCEPT ![r] = "copy"]
      BY <1>3, <2>3 DEF Take
    <3> QED
      BY <1>0, <2>1, <2>2, <2>3, <3>1
  <2>4. CASE ~free
    <3>1. rpc' = [rpc EXCEPT ![r] = "closeMap"]
      BY <1>3, <2>4 DEF Take
    <3> QED
      BY <1>0, <2>1, <2>2, <2>4, <3>1
  <2> QED
    BY <2>3, <2>4
<1>4. CASE CopyOut(r)
  <2>1. UNCHANGED <<host, gpc, l, free, lockers, mappers, shared>>
    BY <1>4 DEF CopyOut
  <2>2. CASE rpc[r] = "copy"
    <3>1. /\ rpc' = [rpc EXCEPT ![r] = "copyRest"]
          /\ info' = [info EXCEPT ![r].on = shared.on]
      BY <1>4, <2>2 DEF CopyOut
    <3>2. /\ info' \in [Readers -> Position]
          /\ info'[r].on = shared.on
          /\ \A q \in Readers : q # r => info'[q] = info[q]
      BY <3>1 DEF Position
    <3> QED
      BY <2>1, <2>2, <3>1, <3>2
  <2>3. CASE rpc[r] = "copyRest"
    <3>1. /\ rpc' = [rpc EXCEPT ![r] = "unlock"]
          /\ info' = [info EXCEPT ![r].position = shared.position]
      BY <1>4, <2>3 DEF CopyOut
    <3>2. /\ info' \in [Readers -> Position]
          /\ info'[r].on = info[r].on
          /\ info'[r].position = shared.position
          /\ \A q \in Readers : q # r => info'[q] = info[q]
      BY <3>1 DEF Position
    <3> QED
      BY <2>1, <2>3, <3>1, <3>2
  <2> QED
    BY <1>4, <2>2, <2>3 DEF CopyOut
<1>5. CASE Give(r)
  BY <1>0, <1>5 DEF Give
<1>6. CASE CloseMap(r)
  <2>1. /\ rpc[r] = "closeMap" /\ DropMap(r)
        /\ rpc' = [rpc EXCEPT ![r] = "closeLock"]
        /\ UNCHANGED <<host, gpc, l, free, lockers, info>>
    BY <1>6 DEF CloseMap
  <2>2. /\ mappers' = mappers \ {r}
        /\ shared' \in {shared, Zero} /\ (shared' # shared => mappers' = {})
        /\ mappers' = {} => shared' = Zero
    BY <2>1, Dropped
  <2>3. shared' \in Position
    BY <2>2, ZeroType
  <2> QED
    BY <1>0, <2>1, <2>2, <2>3
<1>7. CASE CloseLock(r)
  <2>1. /\ rpc[r] = "closeLock" /\ DropLock(r)
        /\ rpc' = [rpc EXCEPT ![r] = "idle"]
        /\ info' = [info EXCEPT ![r] = Zero]
        /\ UNCHANGED <<host, gpc, l, mappers, shared>>
    BY <1>7 DEF CloseLock
  <2>2. lockers' = lockers \ {r} /\ free' \in BOOLEAN /\ (free' => free)
    BY <2>1, Dropped
  <2> QED
    BY <1>0, <2>1, <2>2, ZeroType
<1>8. CASE ReaderDies(r)
  <2>1. /\ DropLock(r) /\ DropMap(r)
        /\ rpc' = [rpc EXCEPT ![r] = "idle"]
        /\ info' = [info EXCEPT ![r] = Zero]
        /\ UNCHANGED <<host, gpc, l>>
    BY <1>8 DEF ReaderDies
  <2>2. /\ lockers' = lockers \ {r} /\ mappers' = mappers \ {r}
        /\ free' \in BOOLEAN /\ (free' => free)
        /\ shared' \in {shared, Zero} /\ (shared' # shared => mappers' = {})
        /\ mappers' = {} => shared' = Zero
    BY <2>1, Dropped
  <2>3. shared' \in Position
    BY <2>2, ZeroType
  <2>4. GpsTypeOK'
    BY <1>0, <2>1, <2>2, <2>3, ZeroType
  <2>5. HandlesHeld' /\ OneInSection'
    BY <1>0, <2>1, <2>2
  <2>6. SharedIsConsistent'
    BY <1>0, <2>1, <2>2
  <2>7. AnswersConsistent'
    BY <1>0, <2>1, <2>2
  <2> QED
    BY <2>4, <2>5, <2>6, <2>7
<1> QED
  BY <1>1, <1>2, <1>3, <1>4, <1>5, <1>6, <1>7, <1>8 DEF Reading

-----------------------------------------------------------------------------
(* The initial states satisfy the invariant. *)
LEMMA InitInv == GpsInit => GpsInv
<1> SUFFICES ASSUME GpsInit
             PROVE  GpsInv
  OBVIOUS
<1>1. GpsTypeOK
  BY ZeroType DEF GpsInit, GpsTypeOK, Section
<1>2. HandlesHeld /\ OneInSection
  BY DEF GpsInit, HandlesHeld, OneInSection, Section
<1>3. SharedIsConsistent /\ AnswersConsistent
  BY DEF GpsInit, SharedIsConsistent, AnswersConsistent, Consistent, Zero
<1> QED
  BY <1>1, <1>2, <1>3 DEF GpsInv

(* GpsInv is an invariant of gpsmon and its readers. *)
LEMMA Invariance == GpsSpec => []GpsInv
<1>1. GpsInv /\ UNCHANGED gpsVars => GpsInv'
  BY DEF GpsInv, GpsTypeOK, HandlesHeld, OneInSection, SharedIsConsistent,
         AnswersConsistent, Consistent, gpsVars, hostVars, lockVars, mapVars, readVars
<1>2. GpsInv /\ [GpsNext]_gpsVars => GpsInv'
  BY <1>1, HostStep, MonitorStep, ReaderStep DEF GpsNext
<1> QED
  BY <1>2, InitInv, PTL DEF GpsSpec

-----------------------------------------------------------------------------
(***************************************************************************)
(* The theorems.                                                           *)
(***************************************************************************)

(* The event is a lock: GpsProc and the readers are never inside the        *)
(* section it guards two at a time, although it is destroyed and created    *)
(* again, and each of them may die with it.                                 *)
THEOREM LockExcludes == GpsSpec => []OneInSection
BY Invariance, PTL DEF GpsInv

(* omobus_location never returns a position that is half of one measurement *)
(* and half of another, nor one that a GpsProc which was terminated in the  *)
(* middle of its copy has left behind.                                      *)
THEOREM AnswersAreConsistent == GpsSpec => []ReadIsConsistent
<1>1. GpsInv => ReadIsConsistent
  BY DEF GpsInv, AnswersConsistent, Consistent, ReadIsConsistent
<1> QED
  BY <1>1, Invariance, PTL
=============================================================================
