----------------------------- MODULE Transport -----------------------------
(***************************************************************************)
(* The transport of daemons-host, shared by the threads of all daemons:    *)
(* _daemons_pk_send and _daemons_pk_recv around one connection             *)
(* (daemons-host/conmgr.cpp) and the counter _stayup, with the main thread *)
(* that polls the counter (_wait), stops the daemons one after the other   *)
(* (_stop and stop_daemon of each) and closes the connection at the end.   *)
(*                                                                         *)
(* _stayup_cs guards the counter and is held while the last user closes    *)
(* the connection; _tran_cs guards the connection and is held while it is  *)
(* opened and a server is looked for, not while data is transferred.       *)
(***************************************************************************)
EXTENDS Naturals, FiniteSets

CONSTANTS
  Threads,  (* The daemons' threads.                                        *)
  Main,     (* The main thread.                                             *)
  Nobody    (* The owner of a critical section that is free.                *)

ASSUME TransportAssumption ==
  /\ IsFiniteSet(Threads)
  /\ Main \notin Threads
  /\ Nobody \notin Threads \cup {Main}

VARIABLES
  pc,        (* Where each daemon's thread is.                              *)
  pcMain,    (* Where the main thread is.                                   *)
  stayup,    (* _stayup                                                     *)
  stayLock,  (* The owner of _stayup_cs.                                    *)
  tranLock,  (* The owner of _tran_cs.                                      *)
  net,       (* "connection" names a network to connect to.                 *)
  conn,      (* _hConnection: none, up (CONNMGR_STATUS_CONNECTED), or off   *)
             (* (a handle with any other status).                           *)
  riders,    (* Threads that were given a server over the current handle    *)
             (* and have not finished their transfer.                       *)
  doubted,   (* History: the last query of the current handle failed or did *)
             (* not find it connected.                                      *)
  awake,     (* The main thread keeps the device from suspending.           *)
  kill,      (* Daemons whose hKill is set.                                 *)
  asked      (* History: OMOBUS_SRV_ONLINE was set to stop the host.        *)

lockVars == <<stayLock, tranLock>>
connVars == <<conn, riders, doubted>>
mainVars == <<pcMain, awake, kill, asked>>
transportVars == <<pc, stayup, lockVars, net, connVars, mainVars>>

(* A thread whose transfer is counted. *)
Counted == {"counted", "status", "reopen", "establish", "probe", "transfer",
            "uncount"}
Places  == Counted \cup {"out", "enter", "close", "release", "exited",
                         "killed", "killedCounted"}

InFlight == {t \in Threads : pc[t] \in Counted}

TransportInit ==
  /\ pc = [t \in Threads |-> "out"]
  /\ pcMain = "wait"
  /\ stayup = 0
  /\ stayLock = Nobody
  /\ tranLock = Nobody
  /\ net \in BOOLEAN
  /\ conn = "none"
  /\ riders = {}
  /\ doubted = FALSE
  /\ awake = FALSE
  /\ kill = {}
  /\ asked = FALSE

Goto(t, place) == pc' = [pc EXCEPT ![t] = place]

-----------------------------------------------------------------------------
(* A daemon's thread.                                                      *)

(* Mutant: the transfer is counted only once a server is found. *)
EnterUncounted(t) ==
  /\ pc[t] = "out"
  /\ t \notin kill
  /\ Goto(t, "counted")
  /\ UNCHANGED <<stayup, lockVars, net, connVars, mainVars>>

(* The daemon has something to send or to fetch. *)
Enter(t) ==
  /\ pc[t] = "out"
  /\ t \notin kill
  /\ Goto(t, "enter")
  /\ UNCHANGED <<stayup, lockVars, net, connVars, mainVars>>

(* Between two transfers the thread finds hKill set and returns. *)
Exit(t) ==
  /\ pc[t] = "out"
  /\ t \in kill
  /\ Goto(t, "exited")
  /\ UNCHANGED <<stayup, lockVars, net, connVars, mainVars>>

(* _stayup_increment *)
Increment(t) ==
  /\ pc[t] = "enter"
  /\ stayLock = Nobody
  /\ stayup' = stayup + 1
  /\ Goto(t, "counted")
  /\ UNCHANGED <<lockVars, net, connVars, mainVars>>

(* GetValidServer takes _tran_cs. *)
LockTran(t) ==
  /\ pc[t] = "counted"
  /\ tranLock = Nobody
  /\ tranLock' = t
  /\ Goto(t, IF net THEN "status" ELSE "probe")
  /\ UNCHANGED <<stayup, stayLock, net, connVars, mainVars>>

(* Mutant: _tran_cs is not left on the way out. *)
NoServerLocked(t) ==
  /\ UNCHANGED tranLock
  /\ Goto(t, "uncount")

(* GetValidServer returns NULL: no transfer. *)
NoServer(t) ==
  /\ tranLock' = Nobody
  /\ Goto(t, "uncount")

(* Mutant: an early return skips _stayup_decrement. *)
NotReadyReturns(t) ==
  /\ pc[t] = "status"
  /\ tranLock' = Nobody
  /\ Goto(t, "out")
  /\ UNCHANGED <<stayup, stayLock, net, connVars, mainVars>>

(* The connection manager is not ready, or the network is unknown to it. *)
NotReady(t) ==
  /\ pc[t] = "status"
  /\ NoServer(t)
  /\ UNCHANGED <<stayup, stayLock, net, connVars, mainVars>>

(* _OpenConn uses the connection there is if ConnMgrConnectionStatus says   *)
(* that it is connected; it opens another if there is none, if the status is *)
(* any other one, and if the query fails, which it may do on any handle.     *)
Status(t) ==
  /\ pc[t] = "status"
  /\ \/ conn = "up" /\ doubted' = FALSE /\ Goto(t, "probe")
     \/ doubted' = TRUE /\ Goto(t, "reopen")
  /\ UNCHANGED <<stayup, lockVars, net, conn, riders, mainVars>>

(* _CloseConn lets the handle go. *)
Drop ==
  /\ conn' = "none"
  /\ riders' = {}
  /\ doubted' = FALSE

Reopen(t) ==
  /\ pc[t] = "reopen"
  /\ Drop
  /\ Goto(t, "establish")
  /\ UNCHANGED <<stayup, lockVars, net, mainVars>>

(* ConnMgrEstablishConnectionSync; CONNMGR_STATUS_PHONEOFF is good enough,  *)
(* and an attempt that failed may leave a handle.                            *)
Establish(t) ==
  /\ pc[t] = "establish"
  /\ \/ /\ conn' \in {"up", "off"}
        /\ Goto(t, "probe")
        /\ UNCHANGED tranLock
     \/ /\ conn' \in {"none", "off"}
        /\ NoServer(t)
  /\ UNCHANGED <<stayup, stayLock, net, riders, doubted, mainVars>>

(* _find_host: the first server that answers, *)
Probe(t) ==
  /\ pc[t] = "probe"
  /\ riders' = IF conn = "none" THEN riders ELSE riders \cup {t}
  /\ tranLock' = Nobody
  /\ Goto(t, "transfer")
  /\ UNCHANGED <<stayup, stayLock, net, conn, doubted, mainVars>>

(* or none. *)
ProbeNone(t) ==
  /\ pc[t] = "probe"
  /\ NoServer(t)
  /\ UNCHANGED <<stayup, stayLock, net, connVars, mainVars>>

(* FtpSendPk or FtpRecvPk returns. *)
Transfer(t) ==
  /\ pc[t] = "transfer"
  /\ riders' = riders \ {t}
  /\ Goto(t, "uncount")
  /\ UNCHANGED <<stayup, lockVars, net, conn, doubted, mainVars>>

(* Mutant: the section is left before CloseConn is called. *)
DecrementUnlocked(t) ==
  /\ pc[t] = "uncount"
  /\ stayLock = Nobody
  /\ stayup' = IF stayup > 0 THEN stayup - 1 ELSE 0
  /\ Goto(t, IF stayup <= 1 THEN "close" ELSE "out")
  /\ UNCHANGED <<lockVars, net, connVars, mainVars>>

(* Mutant: every transfer closes the connection when it is done. *)
DecrementCloses(t) ==
  /\ pc[t] = "uncount"
  /\ stayLock = Nobody
  /\ stayup' = IF stayup > 0 THEN stayup - 1 ELSE 0
  /\ stayLock' = t
  /\ Goto(t, "close")
  /\ UNCHANGED <<tranLock, net, connVars, mainVars>>

(* _stayup_decrement: the last one goes on to close the connection, and *)
(* keeps _stayup_cs.                                                    *)
Decrement(t) ==
  /\ pc[t] = "uncount"
  /\ stayLock = Nobody
  /\ stayup' = IF stayup > 0 THEN stayup - 1 ELSE 0
  /\ IF stayup <= 1
     THEN stayLock' = t /\ Goto(t, "close")
     ELSE UNCHANGED stayLock /\ Goto(t, "out")
  /\ UNCHANGED <<tranLock, net, connVars, mainVars>>

(* CloseConn takes _tran_cs, *)
Close(t) ==
  /\ pc[t] = "close"
  /\ tranLock = Nobody
  /\ tranLock' = t
  /\ Goto(t, "release")
  /\ UNCHANGED <<stayup, stayLock, net, connVars, mainVars>>

(* releases the handle and leaves both sections. *)
Release(t) ==
  /\ pc[t] = "release"
  /\ Drop
  /\ tranLock' = Nobody
  /\ stayLock' = Nobody
  /\ Goto(t, "out")
  /\ UNCHANGED <<stayup, net, mainVars>>

-----------------------------------------------------------------------------
(* The main thread and the rest of the device.                             *)

(* _wait looks at the counter every two seconds, inside _stayup_cs. *)
PollDue ==
  /\ pcMain = "wait"
  /\ pcMain' = "poll"
  /\ UNCHANGED <<pc, stayup, lockVars, net, connVars, awake, kill, asked>>

Poll ==
  /\ pcMain = "poll"
  /\ stayLock = Nobody
  /\ awake' = (stayup > 0)
  /\ pcMain' = "wait"
  /\ UNCHANGED <<pc, stayup, lockVars, net, connVars, kill, asked>>

(* daemons-kill, reconf or upd ask the host to stop. *)
AskStop ==
  /\ asked' = TRUE
  /\ UNCHANGED <<pc, stayup, lockVars, net, connVars, pcMain, awake, kill>>

(* _wait ends and _stop begins. *)
StopBegins ==
  /\ pcMain = "wait"
  /\ asked
  /\ pcMain' = "stop"
  /\ awake' = FALSE
  /\ UNCHANGED <<pc, stayup, lockVars, net, connVars, kill, asked>>

Killed(t) == pc[t] \in {"killed", "killedCounted"}
Ended(t)  == pc[t] = "exited" \/ Killed(t)

(* stop_daemon of the next daemon sets its hKill and waits 5 seconds. *)
StopNext(t) ==
  /\ pcMain = "stop"
  /\ t \notin kill
  /\ \A u \in kill : Ended(u)
  /\ kill' = kill \cup {t}
  /\ UNCHANGED <<pc, pcMain, stayup, lockVars, net, connVars, awake, asked>>

(* The thread did not get back to its wait in time: TerminateThread.  The *)
(* sections it is in are left owned by it, its transfer stays counted.    *)
Terminate(t) ==
  /\ pcMain = "stop"
  /\ t \in kill
  /\ ~Ended(t)
  /\ pc[t] # "out"
  /\ Goto(t, IF pc[t] \in Counted THEN "killedCounted" ELSE "killed")
  /\ riders' = riders \ {t}
  /\ UNCHANGED <<pcMain, stayup, lockVars, net, conn, doubted, awake, kill,
                 asked>>

(* All daemons are stopped; main goes on to its CloseConn. *)
StopEnds ==
  /\ pcMain = "stop"
  /\ kill = Threads
  /\ \A t \in Threads : Ended(t)
  /\ pcMain' = "close"
  /\ UNCHANGED <<pc, stayup, lockVars, net, connVars, awake, kill, asked>>

(* Mutant: the section is not left. *)
CloseMainStays ==
  /\ pcMain = "close"
  /\ tranLock = Nobody
  /\ tranLock' = Main
  /\ Drop
  /\ pcMain' = "ended"
  /\ UNCHANGED <<pc, stayup, stayLock, net, awake, kill, asked>>

CloseMain ==
  /\ pcMain = "close"
  /\ tranLock = Nobody
  /\ Drop
  /\ pcMain' = "ended"
  /\ UNCHANGED <<pc, stayup, lockVars, net, awake, kill, asked>>

(* The link breaks, *)
Lose ==
  /\ conn = "up"
  /\ conn' = "off"
  /\ UNCHANGED <<pc, stayup, lockVars, net, riders, doubted, mainVars>>

(* or a handle that was not connected becomes so: the phone is on again. *)
Resume ==
  /\ conn = "off"
  /\ conn' = "up"
  /\ UNCHANGED <<pc, stayup, lockVars, net, riders, doubted, mainVars>>

-----------------------------------------------------------------------------
InGetValidServer(t) ==
  \/ LockTran(t) \/ NotReady(t) \/ Status(t) \/ Reopen(t) \/ Establish(t)
  \/ Probe(t) \/ ProbeNone(t)

ThreadStep(t) ==
  \/ Exit(t) \/ Increment(t) \/ InGetValidServer(t) \/ Transfer(t)
  \/ Decrement(t) \/ Close(t) \/ Release(t)

MainStep ==
  \/ PollDue \/ Poll \/ StopBegins \/ StopEnds \/ CloseMain
  \/ \E t \in Threads : StopNext(t)

TransportNext ==
  \/ \E t \in Threads : Enter(t) \/ ThreadStep(t) \/ Terminate(t)
  \/ MainStep
  \/ AskStop
  \/ Lose
  \/ Resume

TransportSpec == TransportInit /\ [][TransportNext]_transportVars

(***************************************************************************)
(* Every thread is scheduled, and gets a critical section that is free     *)
(* again and again.  Every call inside a transfer has a timeout.  The main *)
(* thread sees its event at the end of a poll, and stop_daemon waits for 5 *)
(* seconds only.                                                           *)
(***************************************************************************)
TransportFairness ==
  /\ \A t \in Threads : WF_transportVars(ThreadStep(t))
  /\ \A t \in Threads : SF_transportVars(Increment(t))
  /\ \A t \in Threads : SF_transportVars(LockTran(t))
  /\ \A t \in Threads : SF_transportVars(Decrement(t))
  /\ SF_transportVars(Poll)
  /\ SF_transportVars(StopBegins)
  /\ WF_transportVars(StopEnds \/ CloseMain
                        \/ \E t \in Threads : StopNext(t) \/ Terminate(t))

TransportFairSpec == TransportSpec /\ TransportFairness

-----------------------------------------------------------------------------
(* Type correctness of the transport's state. *)
TransportTypeOK ==
  /\ pc \in [Threads -> Places]
  /\ pcMain \in {"wait", "poll", "stop", "close", "ended"}
  /\ stayup \in Nat
  /\ stayLock \in Threads \cup {Nobody}
  /\ tranLock \in Threads \cup {Nobody}
  /\ net \in BOOLEAN
  /\ conn \in {"none", "up", "off"}
  /\ riders \subseteq Threads
  /\ doubted \in BOOLEAN
  /\ awake \in BOOLEAN
  /\ kill \subseteq Threads
  /\ asked \in BOOLEAN

(* The counter is the number of transfers under way and of those that were  *)
(* cut short by TerminateThread: it never runs below, where the connection  *)
(* would be closed and the device suspended under a transfer.               *)
CountIsExact ==
  stayup = Cardinality(InFlight)
             + Cardinality({t \in Threads : pc[t] = "killedCounted"})

(* The connection is closed under a transfer that runs over it in one way     *)
(* only: another thread is in _OpenConn, and its query of the handle failed   *)
(* or did not find it connected.  Neither the last user of the connection nor *)
(* the end of the host takes it from a transfer, in whatever state it is.     *)
ConnectionKept ==
  [][conn # "none" /\ conn' = "none" /\ riders # {}
       => /\ doubted
          /\ \E t \in Threads : pc[t] = "reopen" /\ pc'[t] = "establish"]_transportVars

(* No connection is left open without a transfer that pays for it: when the *)
(* counter is zero and its section free, there is no handle.                *)
ClosedWhenQuiet == stayup = 0 /\ stayLock = Nobody => conn = "none"

(* The thread that closes the connection inside _stayup_cs never waits for  *)
(* _tran_cs, which GetValidServer holds for a minute and more: so neither   *)
(* the main thread's poll nor another daemon is held up behind it.          *)
CloseNeverWaits == \A t \in Threads : pc[t] = "close" => tranLock = Nobody

(* The host stops when it is asked to, unless it terminated a thread inside *)
(* GetValidServer or CloseConn: _tran_cs is then never left, and the main   *)
(* thread waits for it for ever in its last CloseConn.                      *)
StopCompletes ==
  asked ~> \/ pcMain = "ended"
           \/ \E t \in Threads : tranLock = t /\ Killed(t)
=============================================================================
