------------------------------- MODULE GpsMon -------------------------------
(***************************************************************************)
(* The position of the device: gpsmon.d (gpsmon.cpp), a thread of          *)
(* daemons-host, writes it to shared memory, and omobus_location           *)
(* (daemons-helper.cpp) reads it in other processes.  A named auto-reset   *)
(* event is the lock of the memory.  Like the memory it is created by      *)
(* whoever comes first, lives as long as somebody has a handle to it, and  *)
(* stays taken when its owner dies while others have handles.              *)
(*                                                                         *)
(* Of omobus_location_t the model keeps two fields, copied one after the   *)
(* other: whether the monitoring is on (gpsmon_status is 1; unknown, off,  *)
(* no port and no data are one value) and whether there is a position      *)
(* (location_status and the coordinates; valid or cached).  The packages   *)
(* and the trace of the daemon are left out.                               *)
(***************************************************************************)
CONSTANT
  Readers   (* Threads of other processes that read the position.          *)

ASSUME GpsAssumption == "gpsmon" \notin Readers

VARIABLES
  host,     (* daemons-host: "down", "up", "stopping" inside stop_daemon,  *)
            (* "stopped" after it.                                         *)
  gpc,      (* Where GpsProc is; "end" when there is no such thread.       *)
  l,        (* GpsProc: its position; "on" exactly while the GPS is open.  *)
  free,     (* The state of the lock: TRUE when it is set.                 *)
  lockers,  (* Those with a handle to the lock; it exists when there are.  *)
  mappers,  (* Those with a handle to the shared memory.                   *)
  writable, (* The memory was created PAGE_READWRITE.                      *)
  shared,   (* The shared memory.                                          *)
  rpc,      (* Where each reader is in omobus_location.                    *)
  info      (* The answer of the reader, while it is in the call.          *)

hostVars == <<host, gpc, l>>
lockVars == <<free, lockers>>
mapVars  == <<mappers, writable>>
readVars == <<rpc, info>>
gpsVars  == <<hostVars, lockVars, mapVars, shared, readVars>>

Zero == [on |-> FALSE, position |-> FALSE]

GpsInit ==
  /\ host = "down" /\ gpc = "end"
  /\ l = Zero
  /\ free = FALSE /\ lockers = {}
  /\ mappers = {} /\ writable = FALSE
  /\ shared = Zero
  /\ rpc = [r \in Readers |-> "idle"]
  /\ info = [r \in Readers |-> Zero]

-----------------------------------------------------------------------------
(* daemons-host and its thread GpsProc.                                    *)

(* start_daemon. *)
StartDaemon ==
  /\ host = "down"
  /\ host' = "up"
  /\ gpc' = "createLock"
  /\ UNCHANGED <<l, lockVars, mapVars, shared, readVars>>

(* stop_daemon sets hKill. *)
Kill ==
  /\ host = "up"
  /\ host' = "stopping"
  /\ UNCHANGED <<gpc, l, lockVars, mapVars, shared, readVars>>

(* The thread has ended, or 5 seconds are over and it is terminated where it *)
(* is: its handles stay open, and so does the lock stay taken.               *)
StopReturns ==
  /\ host = "stopping"
  /\ host' = "stopped"
  /\ gpc' = "end"
  /\ UNCHANGED <<l, lockVars, mapVars, shared, readVars>>

(* p closes its handle: the lock and the memory go with their last handle. *)
DropLock(p) ==
  /\ lockers' = lockers \ {p}
  /\ free' = (free /\ lockers' # {})

DropMap(p) ==
  /\ mappers' = mappers \ {p}
  /\ writable' = (writable /\ mappers' # {})
  /\ shared' = IF mappers' = {} THEN Zero ELSE shared

(* The process ends, or dies at any moment: the system closes its handles. *)
ProcessEnds ==
  /\ host' = "down"
  /\ gpc' = "end"
  /\ l' = Zero
  /\ DropLock("gpsmon") /\ DropMap("gpsmon")
  /\ UNCHANGED readVars

Exit  == host = "stopped" /\ ProcessEnds
Crash == host # "down" /\ ProcessEnds

(* A handle to the lock, created set when there is none. *)
CreateLock ==
  /\ gpc = "createLock"
  /\ free' = (free \/ lockers = {})
  /\ lockers' = lockers \cup {"gpsmon"}
  /\ gpc' = "createMap"
  /\ UNCHANGED <<host, l, mapVars, shared, readVars>>

CreateMap ==
  /\ gpc = "createMap"
  /\ mappers' = mappers \cup {"gpsmon"}
  /\ writable' = (writable \/ mappers = {})
  /\ gpc' = "view"
  /\ UNCHANGED <<host, l, lockVars, shared, readVars>>

(* No writable view of a memory a reader created: the thread returns. *)
MapView ==
  /\ gpc = "view"
  /\ gpc' = IF writable THEN "loop" ELSE "closeMap"
  /\ UNCHANGED <<host, l, lockVars, mapVars, shared, readVars>>

(* hKill is the first of the events waited for; else a wait that ends with  *)
(* its time-out begins a cycle.                                             *)
Wait ==
  /\ gpc = "loop"
  /\ gpc' = IF host = "up" THEN "gps" ELSE "closeGps"
  /\ UNCHANGED <<host, l, lockVars, mapVars, shared, readVars>>

(* OpenGps and ReadGps leave the device open, with a new position, with the *)
(* last one while it is young enough, or with none, or they leave it closed. *)
Measured == {Zero} \cup [on : {TRUE}, position : BOOLEAN]

(* A cycle: a measurement in the working time, CloseGps outside.  The driver *)
(* answers when it likes.                                                    *)
Cycle ==
  /\ gpc = "gps"
  /\ l' \in Measured
  /\ gpc' = "lock"
  /\ UNCHANGED <<host, lockVars, mapVars, shared, readVars>>

(* The lock, or after a second and a half nothing is written. *)
Lock ==
  /\ gpc = "lock"
  /\ gpc' = IF free THEN "copy" ELSE "loop"
  /\ free' = FALSE
  /\ UNCHANGED <<host, l, lockers, mapVars, shared, readVars>>

(* memcpy, half by half. *)
CopyIn ==
  /\ \/ gpc = "copy" /\ gpc' = "copyRest" /\ shared' = [shared EXCEPT !.on = l.on]
     \/ gpc = "copyRest" /\ gpc' = "unlock" /\ shared' = [shared EXCEPT !.position = l.position]
  /\ UNCHANGED <<host, l, lockVars, mapVars, readVars>>

Unlock ==
  /\ gpc = "unlock"
  /\ free' = TRUE
  /\ gpc' = "loop"
  /\ UNCHANGED <<host, l, lockers, mapVars, shared, readVars>>

(* The end of the thread: the GPS, the memory and the lock are closed. *)
CloseGps ==
  /\ gpc = "closeGps"
  /\ l' = Zero
  /\ gpc' = "closeMap"
  /\ UNCHANGED <<host, lockVars, mapVars, shared, readVars>>

CloseHandles ==
  /\ \/ /\ gpc = "closeMap"
        /\ DropMap("gpsmon")
        /\ gpc' = "closeLock"
        /\ UNCHANGED lockVars
     \/ /\ gpc = "closeLock"
        /\ DropLock("gpsmon")
        /\ gpc' = "end"
        /\ UNCHANGED <<mapVars, shared>>
  /\ UNCHANGED <<host, l, readVars>>

-----------------------------------------------------------------------------
(* omobus_location in reader r.                                            *)

(* OpenEvent fails, and the answer is Zero, when there is no lock. *)
OpenLock(r) ==
  /\ rpc[r] = "idle"
  /\ lockers # {}
  /\ lockers' = lockers \cup {r}
  /\ rpc' = [rpc EXCEPT ![r] = "map"]
  /\ info' = [info EXCEPT ![r] = Zero]
  /\ UNCHANGED <<hostVars, free, mapVars, shared>>

(* A memory that did not exist is created PAGE_READONLY and closed again. *)
OpenMap(r) ==
  /\ rpc[r] = "map"
  /\ mappers' = mappers \cup {r}
  /\ rpc' = [rpc EXCEPT ![r] = IF mappers = {} THEN "closeMap" ELSE "lock"]
  /\ UNCHANGED <<hostVars, lockVars, writable, shared, info>>

(* Mutant: the memory is read also when the lock was not got in time. *)
TakeAnyway(r) ==
  /\ rpc[r] = "lock"
  /\ free' = FALSE
  /\ rpc' = [rpc EXCEPT ![r] = "copy"]
  /\ UNCHANGED <<hostVars, lockers, mapVars, shared, info>>

(* Mutant: the lock is waited for without a limit. *)
TakeInfinite(r) ==
  /\ rpc[r] = "lock"
  /\ free
  /\ free' = FALSE
  /\ rpc' = [rpc EXCEPT ![r] = "copy"]
  /\ UNCHANGED <<hostVars, lockers, mapVars, shared, info>>

(* The lock, or after a second the answer stays Zero. *)
Take(r) ==
  /\ rpc[r] = "lock"
  /\ rpc' = [rpc EXCEPT ![r] = IF free THEN "copy" ELSE "closeMap"]
  /\ free' = FALSE
  /\ UNCHANGED <<hostVars, lockers, mapVars, shared, info>>

CopyOut(r) ==
  /\ \/ /\ rpc[r] = "copy"
        /\ rpc' = [rpc EXCEPT ![r] = "copyRest"]
        /\ info' = [info EXCEPT ![r].on = shared.on]
     \/ /\ rpc[r] = "copyRest"
        /\ rpc' = [rpc EXCEPT ![r] = "unlock"]
        /\ info' = [info EXCEPT ![r].position = shared.position]
  /\ UNCHANGED <<hostVars, lockVars, mapVars, shared>>

Give(r) ==
  /\ rpc[r] = "unlock"
  /\ free' = TRUE
  /\ rpc' = [rpc EXCEPT ![r] = "closeMap"]
  /\ UNCHANGED <<hostVars, lockers, mapVars, shared, info>>

CloseMap(r) ==
  /\ rpc[r] = "closeMap"
  /\ DropMap(r)
  /\ rpc' = [rpc EXCEPT ![r] = "closeLock"]
  /\ UNCHANGED <<hostVars, lockVars, info>>

(* The caller has its answer. *)
CloseLock(r) ==
  /\ rpc[r] = "closeLock"
  /\ DropLock(r)
  /\ rpc' = [rpc EXCEPT ![r] = "idle"]
  /\ info' = [info EXCEPT ![r] = Zero]
  /\ UNCHANGED <<hostVars, mapVars, shared>>

(* The process of the reader dies in the call, and is started again. *)
ReaderDies(r) ==
  /\ rpc[r] # "idle"
  /\ DropLock(r) /\ DropMap(r)
  /\ rpc' = [rpc EXCEPT ![r] = "idle"]
  /\ info' = [info EXCEPT ![r] = Zero]
  /\ UNCHANGED hostVars

-----------------------------------------------------------------------------
GpsProc == \/ CreateLock \/ CreateMap \/ MapView \/ Wait \/ Lock \/ CopyIn
           \/ Unlock \/ CloseGps \/ CloseHandles

Reading(r) == OpenMap(r) \/ Take(r) \/ CopyOut(r) \/ Give(r) \/ CloseMap(r) \/ CloseLock(r)

GpsNext ==
  \/ StartDaemon \/ Kill \/ StopReturns \/ Exit \/ Crash
  \/ GpsProc \/ Cycle
  \/ \E r \in Readers : OpenLock(r) \/ Reading(r) \/ ReaderDies(r)

GpsSpec == GpsInit /\ [][GpsNext]_gpsVars

(* Threads that can run do, stop_daemon waits 5 seconds and the process then *)
(* ends.  Nothing is assumed of the driver, of the user or of the readers.   *)
GpsFairSpec ==
  /\ GpsSpec
  /\ WF_gpsVars(GpsProc) /\ WF_gpsVars(StopReturns) /\ WF_gpsVars(Exit)
  /\ \A r \in Readers : WF_gpsVars(Reading(r))

-----------------------------------------------------------------------------
(* An answer is never half old and half new: it has a position only with the *)
(* status "on", which is so in every position GpsProc ever has.  This is     *)
(* about the copies on both sides, with any of the processes dying in the    *)
(* middle of its own, and about the lock and the memory being destroyed and  *)
(* created again while another process is using one of them.                 *)
ReadIsConsistent ==
  \A r \in Readers :
    rpc[r] # "copyRest" /\ info[r].position => info[r].on

(* A dead owner of the lock stops nobody: every call of omobus_location      *)
(* returns, and daemons-host ends after stop_daemon, whatever the driver     *)
(* does and whoever died with the lock.                                      *)
NobodyStuck ==
  /\ \A r \in Readers : rpc[r] # "idle" ~> rpc[r] = "idle"
  /\ host = "stopping" ~> host = "down"
=============================================================================
