--------------------------- MODULE TransportProofs ---------------------------
(***************************************************************************)
(* Proofs about Transport, for every number of daemons, whenever the host  *)
(* is asked to stop and whichever threads are terminated.                  *)
(***************************************************************************)
EXTENDS Transport, TLAPS, FiniteSetTheorems

(***************************************************************************)
(* The inductive invariant.                                                *)
(***************************************************************************)

(* Threads whose transfer is counted in stayup, now or for ever. *)
Users == {t \in Threads : pc[t] \in Counted \cup {"killedCounted"}}

(* Where a thread holds _tran_cs, unless it was terminated there. *)
InTran == {"status", "reopen", "establish", "probe", "release"}

CountOfUsers == stayup = Cardinality(Users)

(* A thread inside a critical section owns it. *)
SectionsHeld ==
  \A t \in Threads :
    /\ pc[t] \in InTran => tranLock = t
    /\ pc[t] \in {"close", "release"} => stayLock = t

(* The owner of a critical section is inside it, or was terminated inside: a *)
(* thread that kept _tran_cs without being counted was closing the           *)
(* connection, and kept _stayup_cs too.                                      *)
SectionsOwned ==
  \A t \in Threads :
    /\ tranLock = t => \/ pc[t] \in InTran \cup {"killedCounted"}
                       \/ pc[t] = "killed" /\ stayLock = t
    /\ stayLock = t => pc[t] \in {"close", "release", "killed"}

(* _stayup_cs is kept from one step to the next only by the thread that took *)
(* the counter to zero.                                                      *)
KeptAtZero == stayLock # Nobody => stayup = 0

RidersTransfer == \A t \in riders : pc[t] = "transfer"

(* What _OpenConn has seen of the connection holds until it leaves _tran_cs. *)
SeenIsTrue ==
  \A t \in Threads :
    /\ pc[t] = "reopen" => doubted
    /\ pc[t] = "establish" => conn = "none" /\ riders = {}

(* The main thread closes the connection after the last daemon. *)
MainIsLast ==
  pcMain \in {"close", "ended"} => kill = Threads /\ \A t \in Threads : Ended(t)

TransportInv ==
  /\ TransportTypeOK
  /\ CountOfUsers
  /\ SectionsHeld
  /\ SectionsOwned
  /\ KeptAtZero
  /\ RidersTransfer
  /\ SeenIsTrue
  /\ MainIsLast
  /\ ClosedWhenQuiet

-----------------------------------------------------------------------------
(***************************************************************************)
(* Counting.                                                               *)
(***************************************************************************)

(* The threads that are counted are finitely many. *)
LEMMA UsersFinite == IsFiniteSet(Users) /\ Cardinality(Users) \in Nat
<1>1. Users \in SUBSET Threads
  BY DEF Users
<1> QED
  BY <1>1, TransportAssumption, FS_Subset, FS_CardinalityType

(* The two terms of CountIsExact count disjoint sets that make up Users. *)
LEMMA UsersAreTwo ==
  Cardinality(Users) = Cardinality(InFlight)
                         + Cardinality({t \in Threads : pc[t] = "killedCounted"})
<1> DEFINE Cut == {t \in Threads : pc[t] = "killedCounted"}
<1>1. Users = InFlight \cup Cut /\ InFlight \cap Cut = {}
  BY DEF Users, InFlight, Counted
<1>2. IsFiniteSet(InFlight) /\ IsFiniteSet(Cut)
  <2>1. InFlight \in SUBSET Threads /\ Cut \in SUBSET Threads
    BY DEF InFlight
  <2> QED
    BY <2>1, TransportAssumption, FS_Subset
<1>3. Cardinality(InFlight \cup Cut)
        = Cardinality(InFlight) + Cardinality(Cut) - Cardinality(InFlight \cap Cut)
  BY <1>2, FS_Union
<1>4. Cardinality(InFlight \cap Cut) = 0
  BY <1>1, FS_EmptySet
<1>5. Cardinality(InFlight) \in Nat /\ Cardinality(Cut) \in Nat
  BY <1>2, FS_CardinalityType
<1> HIDE DEF Cut
<1>6. Cardinality(Users) = Cardinality(InFlight) + Cardinality(Cut)
  BY <1>1, <1>3, <1>4, <1>5
<1> QED
  BY <1>6 DEF Cut

(* Under a counted transfer the counter is not zero. *)
LEMMA CountedIsPositive ==
  ASSUME CountOfUsers, NEW t \in Users
  PROVE  stayup > 0
<1>1. Cardinality(Users) # 0
  BY UsersFinite, FS_EmptySet
<1> QED
  BY <1>1, UsersFinite DEF CountOfUsers

(* A step counts one transfer more with its thread, or one less with its     *)
(* thread, or leaves both as they are.                                       *)
LEMMA UsersStep ==
  ASSUME TransportTypeOK, [TransportNext]_transportVars
  PROVE  \/ UNCHANGED <<Users, stayup>>
         \/ \E t \in Threads : t \notin Users /\ Users' = Users \cup {t} /\ stayup' = stayup + 1
         \/ \E t \in Users : /\ Users' = Users \ {t}
                             /\ stayup' = IF stayup > 0 THEN stayup - 1 ELSE 0
<1> USE DEF TransportTypeOK, Goto, lockVars, connVars, mainVars
<1>1. ASSUME NEW t \in Threads, Increment(t)
      PROVE  t \notin Users /\ Users' = Users \cup {t} /\ stayup' = stayup + 1
  BY <1>1 DEF Increment, Users, Counted
<1>2. ASSUME NEW t \in Threads, Decrement(t)
      PROVE  /\ t \in Users /\ Users' = Users \ {t}
             /\ stayup' = IF stayup > 0 THEN stayup - 1 ELSE 0
  BY <1>2 DEF Decrement, Users, Counted
<1>3. ASSUME NEW t \in Threads,
             Enter(t) \/ Exit(t) \/ Close(t) \/ Release(t) \/ Transfer(t)
      PROVE  UNCHANGED <<Users, stayup>>
  BY <1>3 DEF Enter, Exit, Close, Release, Transfer, Users, Counted
<1>4. ASSUME NEW t \in Threads, InGetValidServer(t)
      PROVE  UNCHANGED <<Users, stayup>>
  BY <1>4 DEF InGetValidServer, LockTran, NotReady, Status, Reopen, Establish,
              Probe, ProbeNone, NoServer, Users, Counted
<1>5. ASSUME NEW t \in Threads, Terminate(t)
      PROVE  UNCHANGED <<Users, stayup>>
  BY <1>5 DEF Terminate, Ended, Killed, Users, Counted
<1>6. CASE MainStep \/ AskStop \/ Lose \/ Resume
  BY <1>6 DEF MainStep, PollDue, Poll, StopBegins, StopEnds, CloseMain, StopNext,
              AskStop, Lose, Resume, Users
<1>7. CASE UNCHANGED transportVars
  BY <1>7 DEF transportVars, Users
<1> QED
  BY <1>1, <1>2, <1>3, <1>4, <1>5, <1>6, <1>7 DEF TransportNext, ThreadStep

(* The counter and the threads that are counted change together. *)
LEMMA CountStep ==
  ASSUME TransportInv, [TransportNext]_transportVars
  PROVE  CountOfUsers'
<1>1. stayup = Cardinality(Users) /\ stayup \in Nat
  BY UsersFinite DEF TransportInv, CountOfUsers
<1>2. CASE UNCHANGED <<Users, stayup>>
  BY <1>1, <1>2 DEF CountOfUsers
<1>3. ASSUME NEW t \in Threads, t \notin Users, Users' = Users \cup {t}, stayup' = stayup + 1
      PROVE  CountOfUsers'
  BY <1>1, <1>3, UsersFinite, FS_AddElement DEF CountOfUsers
<1>4. ASSUME NEW t \in Users, Users' = Users \ {t},
             stayup' = IF stayup > 0 THEN stayup - 1 ELSE 0
      PROVE  CountOfUsers'
  <2>1. stayup > 0
    BY CountedIsPositive DEF TransportInv
  <2>2. Cardinality(Users \ {t}) = Cardinality(Users) - 1
    BY UsersFinite, FS_RemoveElement
  <2> QED
    BY <1>1, <1>4, <2>1, <2>2 DEF CountOfUsers
<1> QED
  BY <1>2, <1>3, <1>4, UsersStep DEF TransportInv

-----------------------------------------------------------------------------
(***************************************************************************)
(* The other parts of the invariant.                                       *)
(***************************************************************************)

(* Every step keeps the types. *)
LEMMA TypeStep ==
  ASSUME TransportTypeOK, [TransportNext]_transportVars
  PROVE  TransportTypeOK'
<1> USE TransportAssumption
    DEF TransportTypeOK, Places, Counted, Goto, lockVars, connVars, mainVars
<1>1. ASSUME NEW t \in Threads, Enter(t) \/ Exit(t) \/ Increment(t) \/ Close(t)
      PROVE  TransportTypeOK'
  BY <1>1 DEF Enter, Exit, Increment, Close
<1>2. ASSUME NEW t \in Threads, Release(t) \/ Transfer(t)
      PROVE  TransportTypeOK'
  <2>1. CASE Release(t)
    BY <2>1 DEF Release, Drop
  <2>2. CASE Transfer(t)
    BY <2>2 DEF Transfer
  <2> QED
    BY <1>2, <2>1, <2>2
<1>3. ASSUME NEW t \in Threads, InGetValidServer(t)
      PROVE  TransportTypeOK'
  <2>1. CASE LockTran(t)
    BY <2>1 DEF LockTran
  <2>2. CASE NotReady(t) \/ ProbeNone(t)
    BY <2>2 DEF NotReady, ProbeNone, NoServer
  <2>3. CASE Status(t)
    BY <2>3 DEF Status
  <2>4. CASE Reopen(t)
    BY <2>4 DEF Reopen, Drop
  <2>5. CASE Establish(t)
    BY <2>5 DEF Establish, NoServer
  <2>6. CASE Probe(t)
    BY <2>6 DEF Probe
  <2> QED
    BY <1>3, <2>1, <2>2, <2>3, <2>4, <2>5, <2>6 DEF InGetValidServer
<1>4. ASSUME NEW t \in Threads, Decrement(t)
      PROVE  TransportTypeOK'
  BY <1>4 DEF Decrement
<1>5. ASSUME NEW t \in Threads, Terminate(t)
      PROVE  TransportTypeOK'
  BY <1>5 DEF Terminate
<1>6. ASSUME NEW t \in Threads, StopNext(t)
      PROVE  TransportTypeOK'
  BY <1>6 DEF StopNext
<1>7. CASE PollDue \/ StopBegins \/ StopEnds
  BY <1>7 DEF PollDue, StopBegins, StopEnds
<1>8. CASE Poll
  <2>1. awake' \in BOOLEAN
    <3>1. awake' = (stayup > 0)
      BY <1>8 DEF Poll
    <3>2. CASE stayup > 0
      BY <3>1, <3>2, Zenon
    <3>3. CASE ~(stayup > 0)
      <4>1. (stayup > 0) = FALSE
        BY <3>3
      <4> QED
        BY <3>1, <4>1, Zenon
    <3> QED
      BY <3>2, <3>3
  <2>2. /\ pcMain' = "wait"
        /\ UNCHANGED <<pc, stayup, lockVars, net, connVars, kill, asked>>
    BY <1>8 DEF Poll
  <2> QED
    BY <2>1, <2>2
<1>9. CASE CloseMain \/ AskStop \/ Lose \/ Resume \/ UNCHANGED transportVars
  <2>1. CASE CloseMain
    BY <2>1 DEF CloseMain, Drop
  <2>2. CASE AskStop
    BY <2>2 DEF AskStop
  <2>3. CASE Lose \/ Resume
    BY <2>3 DEF Lose, Resume
  <2>4. CASE UNCHANGED transportVars
    BY <2>4 DEF transportVars
  <2> QED
    BY <1>9, <2>1, <2>2, <2>3, <2>4
<1> QED
  BY <1>1, <1>2, <1>3, <1>4, <1>5, <1>6, <1>7, <1>8, <1>9 DEF MainStep, TransportNext, ThreadStep

(* Each step keeps what the invariant says of the critical sections and the *)
(* connection; the counter enters only by what it says about single threads. *)
Sections ==
  /\ SectionsHeld
  /\ SectionsOwned
  /\ KeptAtZero
  /\ RidersTransfer
  /\ SeenIsTrue
  /\ MainIsLast
  /\ ClosedWhenQuiet

(* Every step keeps the sections and the connection as they are owned. *)
LEMMA SectionsStep ==
  ASSUME TransportInv, [TransportNext]_transportVars
  PROVE  Sections'
<1>1. TransportTypeOK /\ Sections
  BY DEF TransportInv, Sections
<1>2. \A t \in Threads : pc[t] \in Counted \cup {"killedCounted"} => stayup > 0
  BY CountedIsPositive DEF TransportInv, Users
<1> USE <1>1, <1>2, TransportAssumption
    DEF TransportTypeOK, Sections, SectionsHeld, SectionsOwned, InTran, KeptAtZero,
        RidersTransfer, SeenIsTrue, MainIsLast, ClosedWhenQuiet, Counted, Goto,
        Ended, Killed, lockVars, connVars, mainVars
<1>3. ASSUME NEW t \in Threads, Enter(t) \/ Exit(t) \/ Transfer(t)
      PROVE  Sections'
  BY <1>3 DEF Enter, Exit, Transfer
<1>4. ASSUME NEW t \in Threads, Increment(t)
      PROVE  Sections'
  BY <1>4 DEF Increment
<1>5. ASSUME NEW t \in Threads, LockTran(t)
      PROVE  Sections'
  BY <1>5 DEF LockTran
<1>6. ASSUME NEW t \in Threads, NotReady(t) \/ ProbeNone(t)
      PROVE  Sections'
  BY <1>6 DEF NotReady, ProbeNone, NoServer
<1>7. ASSUME NEW t \in Threads, Status(t)
      PROVE  Sections'
  BY <1>7 DEF Status
<1>8. ASSUME NEW t \in Threads, Reopen(t)
      PROVE  Sections'
  BY <1>8 DEF Reopen, Drop
<1>9. ASSUME NEW t \in Threads, Establish(t)
      PROVE  Sections'
  BY <1>9 DEF Establish, NoServer
<1>10. ASSUME NEW t \in Threads, Probe(t)
       PROVE  Sections'
  BY <1>10 DEF Probe
<1>11. ASSUME NEW t \in Threads, Decrement(t)
       PROVE  Sections'
  BY <1>11 DEF Decrement
<1>12. ASSUME NEW t \in Threads, Close(t)
       PROVE  Sections'
  BY <1>12 DEF Close
<1>13. ASSUME NEW t \in Threads, Release(t)
       PROVE  Sections'
  BY <1>13 DEF Release, Drop
<1>14. ASSUME NEW t \in Threads, Terminate(t)
       PROVE  Sections'
  BY <1>14 DEF Terminate
<1>15. CASE MainStep
  BY <1>15 DEF MainStep, PollDue, Poll, StopBegins, StopEnds, CloseMain, Drop, StopNext
<1>16. CASE AskStop \/ Lose \/ Resume \/ UNCHANGED transportVars
  BY <1>16 DEF AskStop, Lose, Resume, transportVars
<1> QED
  BY <1>3, <1>4, <1>5, <1>6, <1>7, <1>8, <1>9, <1>10, <1>11, <1>12, <1>13, <1>14,
     <1>15, <1>16 DEF TransportNext, ThreadStep, InGetValidServer

(* The initial states satisfy the invariant. *)
LEMMA InitInv == TransportInit => TransportInv
<1> SUFFICES ASSUME TransportInit
             PROVE  TransportInv
  OBVIOUS
<1>1. TransportTypeOK
  BY DEF TransportInit, TransportTypeOK, Places
<1>2. CountOfUsers
  <2>1. Users = {}
    BY DEF TransportInit, Users, Counted
  <2> QED
    BY <2>1, FS_EmptySet DEF TransportInit, CountOfUsers
<1>3. Sections
  BY TransportAssumption
     DEF TransportInit, Sections, SectionsHeld, SectionsOwned, InTran, KeptAtZero,
         RidersTransfer, SeenIsTrue, MainIsLast, ClosedWhenQuiet
<1> QED
  BY <1>1, <1>2, <1>3 DEF TransportInv, Sections

(* TransportInv is an invariant of the transport. *)
LEMMA Invariance == TransportSpec => []TransportInv
<1>1. TransportInv /\ [TransportNext]_transportVars => TransportInv'
  BY TypeStep, CountStep, SectionsStep DEF TransportInv, Sections
<1> QED
  BY <1>1, InitInv, PTL DEF TransportSpec

-----------------------------------------------------------------------------
(***************************************************************************)
(* The theorems.                                                           *)
(***************************************************************************)

(* The state of the transport, _stayup, its two critical sections and the  *)
(* connection, is always well formed.                                      *)
THEOREM TypeCorrect == TransportSpec => []TransportTypeOK
BY Invariance, PTL DEF TransportInv

(* _stayup_increment and _stayup_decrement keep the number of transfers     *)
(* exactly, those that TerminateThread cut short included: however the      *)
(* daemons interleave and the host is stopped, it never runs below.         *)
THEOREM CounterIsExact == TransportSpec => []CountIsExact
<1>1. TransportInv => CountIsExact
  BY UsersAreTwo DEF TransportInv, CountOfUsers, CountIsExact
<1> QED
  BY <1>1, Invariance, PTL

(* _stayup_decrement leaves no connection open after the last transfer. *)
THEOREM ConnectionClosed == TransportSpec => []ClosedWhenQuiet
BY Invariance, PTL DEF TransportInv

(* CloseConn inside _stayup_cs never waits for a GetValidServer: no other    *)
(* thread is in _tran_cs, nor was one terminated in it.                      *)
THEOREM ClosingIsQuick == TransportSpec => []CloseNeverWaits
<1>1. TransportInv => CloseNeverWaits
  <2> SUFFICES ASSUME TransportInv, NEW t \in Threads, pc[t] = "close",
                      NEW u \in Threads, tranLock = u
               PROVE  FALSE
    BY DEF CloseNeverWaits, TransportInv, TransportTypeOK
  <2>1. stayLock = t /\ stayup = 0
    BY TransportAssumption DEF TransportInv, SectionsHeld, KeptAtZero
  <2>2. u \notin Users
    BY <2>1, CountedIsPositive DEF TransportInv
  <2>3. u # t => stayLock # u
    BY <2>1
  <2> QED
    BY <2>1, <2>2, <2>3
       DEF TransportInv, SectionsOwned, SectionsHeld, InTran, Users, Counted
<1> QED
  BY <1>1, Invariance, PTL

(* The last _stayup_decrement and the end of the host never let a handle go  *)
(* over which a transfer runs, whatever its state; _OpenConn does so only if *)
(* its query of the handle failed or did not find it connected.              *)
THEOREM ConnectionIsKept == TransportSpec => ConnectionKept
<1> DEFINE LetGo == conn # "none" /\ conn' = "none" /\ riders # {}
           ByOpenConn == /\ doubted
                         /\ \E t \in Threads : pc[t] = "reopen" /\ pc'[t] = "establish"
<1>1. TransportInv /\ [TransportNext]_transportVars
        => [LetGo => ByOpenConn]_transportVars
  <2> SUFFICES ASSUME TransportInv, TransportNext, LetGo
               PROVE  ByOpenConn
    OBVIOUS
  <2> USE DEF lockVars, connVars, mainVars
  <2>1. (\E t \in Threads : Reopen(t) \/ Establish(t) \/ Release(t)) \/ CloseMain
    BY DEF TransportNext, ThreadStep, InGetValidServer, MainStep, Enter, Exit, Increment,
           LockTran, NotReady, NoServer, Status, Probe, ProbeNone, Transfer, Decrement,
           Close, Terminate, PollDue, Poll, StopBegins, StopEnds, StopNext, AskStop, Lose,
           Resume
  <2>2. ASSUME NEW t \in Threads, Reopen(t) \/ Establish(t)
        PROVE  ByOpenConn
    BY <2>2 DEF TransportInv, TransportTypeOK, SeenIsTrue, Reopen, Establish, Goto
  <2>3. ASSUME NEW t \in Threads, Release(t)
        PROVE  FALSE
    <3>1. stayup = 0
      BY <2>3, TransportAssumption DEF Release, TransportInv, SectionsHeld, KeptAtZero
    <3>2. Users = {}
      BY <3>1, CountedIsPositive DEF TransportInv
    <3> QED
      BY <3>2 DEF TransportInv, RidersTransfer, TransportTypeOK, Users, Counted
  <2>4. ASSUME CloseMain
        PROVE  FALSE
    BY <2>4 DEF CloseMain, TransportInv, MainIsLast, RidersTransfer, Ended, Killed,
                TransportTypeOK
  <2> QED
    BY <2>1, <2>2, <2>3, <2>4
<1> QED
  BY <1>1, Invariance, PTL DEF TransportSpec, ConnectionKept
=============================================================================
