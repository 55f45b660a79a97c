---------------------------- MODULE OutboxProofs ----------------------------
(***************************************************************************)
(* Proofs about Outbox, for every set of packages, with and without a      *)
(* wake-up interval, for any of the faults and any number of stops.       *)
(***************************************************************************)
EXTENDS Outbox, TLAPS

(***************************************************************************)
(* The inductive invariant.                                                *)
(***************************************************************************)

(* What the thread is going to upload is in the directory: only the thread *)
(* itself takes files away.                                                *)
TodoIsThere == todo \subseteq visible

(* The thread has a current file exactly while it uploads or deletes it, and *)
(* deletes it only once the server has confirmed it.                         *)
CurIsListed ==
  /\ pc \in {"put", "delete"} => cur \in todo
  /\ pc \notin {"put", "delete"} => cur = NoPackage
  /\ pc = "delete" => server[cur] = "whole" \/ cur \in cut

(* The list belongs to one pass, and a pass without error works it off. *)
ListOfPass ==
  /\ pc \in {"down", "wait", "peek", "find", "list"} => listed = {} /\ todo = {}
  /\ pc = "arm" /\ ok => todo = {}
  /\ ok => \A k \in listed \ todo : server[k] = "whole" \/ k \in cut

(* Between the arming of the trigger and ResetEvent the trigger is armed, *)
(* unless that failed.                                                    *)
Armed == pc = "reset" /\ Wakeup => timer \/ unarmed

(* The server has received written packages only, whole or in part. *)
ReceivedIsPublished == received \cup cut \subseteq published

OutboxInv ==
  /\ OutboxTypeOK
  /\ NotLost
  /\ TodoIsThere
  /\ CurIsListed
  /\ ListOfPass
  /\ Armed
  /\ WakeUpIsSet
  /\ ReceivedIsPublished

-----------------------------------------------------------------------------
(* The invariant holds at first, is kept by every step, and holds always. *)
LEMMA InitInv == OutboxInit => OutboxInv
<1> SUFFICES ASSUME OutboxInit
             PROVE  OutboxInv
  OBVIOUS
<1>1. stops \in 0 .. MaxStops
  BY OutboxAssumption DEF OutboxInit
<1>2. OutboxTypeOK
  BY <1>1 DEF OutboxInit, DirInit, OutboxTypeOK, Places
<1>3. NotLost /\ TodoIsThere /\ CurIsListed /\ ListOfPass
  BY DEF OutboxInit, DirInit, NotLost, TodoIsThere, CurIsListed, ListOfPass
<1>4. Armed /\ WakeUpIsSet /\ ReceivedIsPublished
  BY DEF OutboxInit, DirInit, Armed, WakeUpIsSet, ReceivedIsPublished
<1> QED
  BY <1>2, <1>3, <1>4 DEF OutboxInv

(* Every step keeps the invariant. *)
LEMMA StepInv == OutboxInv /\ [OutboxNext]_outboxVars => OutboxInv'
<1> SUFFICES ASSUME OutboxInv, [OutboxNext]_outboxVars
             PROVE  OutboxInv'
  OBVIOUS
<1>0. ASSUME Confirm
      PROVE  Complete \/ (cut' = cut \cup {cur} /\ UNCHANGED <<server, received>>)
  BY <1>0 DEF Confirm
<1> USE OutboxAssumption
    DEF OutboxInv, OutboxTypeOK, Places, NotLost, TodoIsThere, CurIsListed,
        ListOfPass, Armed, WakeUpIsSet, ReceivedIsPublished,
        dirVars, passVars, serverVars
<1>1. CASE \E k \in Packages : Store(k)
  BY <1>1 DEF Store, Publish
<1>2. CASE \E k \in Packages : Put(k)
  BY <1>2 DEF Put
<1>3. CASE Ask
  BY <1>3 DEF Ask, SetNameEvent
<1>4. CASE Ring
  BY <1>4 DEF Ring, SetNameEvent
<1>5. CASE Start
  BY <1>5 DEF Start
<1>6. CASE Stop
  <2>1. stops' \in 0 .. MaxStops
    BY <1>6 DEF Stop
  <2> QED
    BY <1>6, <2>1 DEF Stop, RemoveTrigger
<1>7. CASE Crash
  <2>1. stops' \in 0 .. MaxStops
    BY <1>7 DEF Crash
  <2> QED
    BY <1>7, <2>1 DEF Crash
<1>8. CASE Wake
  BY <1>8 DEF Wake
<1>9. CASE Peek
  BY <1>9 DEF Peek
<1>10. CASE Find
  BY <1>10 DEF Find
<1>11. CASE FindNone
  BY <1>11 DEF FindNone
<1>12. CASE List
  BY <1>12 DEF List
<1>13. CASE Refuse
  BY <1>13 DEF Refuse
<1>14. CASE Confirm /\ Complete
  BY <1>14 DEF Confirm, Complete
<1>15. CASE Confirm /\ cut' = cut \cup {cur} /\ UNCHANGED <<server, received>>
  BY <1>15 DEF Confirm
<1>16. CASE Break
  <2>1. CASE UNCHANGED serverVars
    BY <1>16, <2>1 DEF Break
  <2>2. CASE Complete
    <3>1. cur \in Packages \cap published
      BY <1>16 DEF Break
    <3>2. /\ server' \in [Packages -> {"none", "part", "whole"}]
          /\ received' \subseteq Packages /\ cut' \subseteq Packages
      BY <2>2, <3>1 DEF Complete
    <3>3. OutboxTypeOK' /\ TodoIsThere' /\ CurIsListed' /\ Armed' /\ WakeUpIsSet'
      BY <1>16, <3>2 DEF Break
    <3>4. NotLost' /\ ReceivedIsPublished' /\ ListOfPass'
      BY <1>16, <2>2, <3>1 DEF Break, Complete
    <3> QED
      BY <3>3, <3>4
  <2> QED
    BY <1>16, <2>1, <2>2 DEF Break
<1>17. CASE Delete
  BY <1>17 DEF Delete, Take
<1>18. CASE Done
  BY <1>18 DEF Done
<1>19. CASE Arm
  BY <1>19 DEF Arm
<1>20. CASE Reset
  BY <1>20 DEF Reset
<1>21. CASE UNCHANGED outboxVars
  BY <1>21 DEF outboxVars
<1> QED
  BY <1>0, <1>1, <1>2, <1>3, <1>4, <1>5, <1>6, <1>7, <1>8, <1>9, <1>10, <1>11,
     <1>12, <1>13, <1>14, <1>15, <1>16, <1>17, <1>18, <1>19, <1>20, <1>21
     DEF OutboxNext, ThreadStep

(* OutboxInv is an invariant of the sender. *)
LEMMA Invariance == OutboxSpec => []OutboxInv
BY InitInv, StepInv, PTL DEF OutboxSpec

-----------------------------------------------------------------------------
(***************************************************************************)
(* The theorems.                                                           *)
(***************************************************************************)

(* The state of the acts daemon is always well formed: the list of _fsend, *)
(* its current file, the event and the trigger.                            *)
THEOREM TypeCorrect == OutboxSpec => []OutboxTypeOK
BY Invariance, PTL DEF OutboxInv

(* No package is lost by _ftpmove, which deletes a file only after the     *)
(* server has confirmed it, wherever the pass breaks off, unless the file  *)
(* could not be read to its end: then what was confirmed is a part.        *)
THEOREM PackagesNotLost == OutboxSpec => []NotLost
BY Invariance, PTL DEF OutboxInv

(* The result of _fsend is true: OMOBUS_OK means that all it listed is on  *)
(* the server, but for files whose reading ended early.                    *)
THEOREM ResultIsTrue == OutboxSpec => []OkMeansSent
<1>1. OutboxInv => OkMeansSent
  BY DEF OutboxInv, ListOfPass, OkMeansSent
<1> QED
  BY <1>1, Invariance, PTL

(* With a wake-up interval ActProc never waits with neither its event set  *)
(* nor the trigger armed, unless SetTimeoutTrigger failed after its pass.  *)
THEOREM WakeUpIsThere == OutboxSpec => []WakeUpIsSet
BY Invariance, PTL DEF OutboxInv

(* The daemon implements the abstract delivery: what it uploads was written *)
(* to the directory, and what the server has received stays received, until *)
(* it takes a part for the whole.                                           *)
THEOREM Implements == OutboxSpec => DeliveryPromise
<1>1. OutboxInit => Promise!DeliveryInit
  BY DEF OutboxInit, DirInit, Promise!DeliveryInit
<1>2. OutboxInv /\ [OutboxNext]_outboxVars
        => [Promise!DeliveryNext]_(Promise!deliveryVars)
  <2> SUFFICES ASSUME OutboxInv, [OutboxNext]_outboxVars
               PROVE  \/ Promise!DeliveryNext
                      \/ UNCHANGED <<published, received, cut>>
    BY DEF Promise!deliveryVars
  <2>1. ASSUME NEW k \in Packages, Store(k)
        PROVE  Promise!Hand(k)
    BY <2>1 DEF Store, Publish, serverVars, Promise!Hand
  <2>2. CASE Confirm \/ Break
    <3>1. cur \in Packages /\ cur \in published
      BY <2>2 DEF Confirm, Break, OutboxInv, CurIsListed, TodoIsThere, OutboxTypeOK
    <3>2. UNCHANGED published
      BY <2>2 DEF Confirm, Break, dirVars
    <3>3. ASSUME received' = received \cup {cur}, cut' = cut \ {cur}
          PROVE  Promise!Deliver(cur) \/ UNCHANGED <<published, received, cut>>
      BY <3>1, <3>2, <3>3 DEF Promise!Deliver
    <3>4. ASSUME cut' = cut \cup {cur}, UNCHANGED received
          PROVE  Promise!Spoil(cur) \/ UNCHANGED <<published, received, cut>>
      BY <3>1, <3>2, <3>4 DEF Promise!Spoil
    <3>5. \/ received' = received \cup {cur} /\ cut' = cut \ {cur}
          \/ cut' = cut \cup {cur} /\ UNCHANGED received
          \/ UNCHANGED <<received, cut>>
      BY <2>2 DEF Confirm, Break, Complete, serverVars
    <3> QED
      BY <3>1, <3>2, <3>3, <3>4, <3>5 DEF Promise!DeliveryNext
  <2>3. CASE \/ Ask \/ Ring \/ Start \/ Stop \/ Crash \/ Wake \/ Peek \/ Find
             \/ FindNone \/ List \/ (\E k \in Packages : Put(k)) \/ Refuse
             \/ Delete \/ Done \/ Arm \/ Reset
    BY <2>3 DEF Ask, Ring, Start, Stop, Crash, Wake, Peek, Find, FindNone, List,
                Put, Refuse, Delete, Take, Done, Arm, Reset, dirVars, serverVars
  <2>4. CASE UNCHANGED outboxVars
    BY <2>4 DEF outboxVars, dirVars, serverVars
  <2> QED
    BY <2>1, <2>2, <2>3, <2>4 DEF OutboxNext, ThreadStep, Promise!DeliveryNext
<1> QED
  BY <1>1, <1>2, Invariance, PTL
     DEF OutboxSpec, DeliveryPromise, Promise!DeliverySpec
=============================================================================
