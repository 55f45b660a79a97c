------------------------- MODULE HostLifecycleProofs -------------------------
(***************************************************************************)
(* Proofs about HostLifecycle, for every number of lives of daemons-host   *)
(* and of requests to stop, whatever may fail.                             *)
(***************************************************************************)
EXTENDS HostLifecycle, TLAPS

(***************************************************************************)
(* The inductive invariant.                                                *)
(***************************************************************************)

(* Each host is in a place of its own program, and a running daemons-host is *)
(* one of the lives counted.                                                 *)
PlacesOfHosts ==
  /\ at["daemons"] # "loop"
  /\ at["terminals"] \in {"off", "created", "loop"}
  /\ at["daemons"] # "off" => life \in Lives

(* Nothing is reported of a life that has not begun, nor a stop of one that *)
(* has not been stopped.                                                    *)
ReportsOfLives ==
  /\ \A n \in started : n <= life
  /\ \A n \in Lives : n > life => stopped[n] = 0
  /\ at["daemons"] \in {"created", "start"} => life \notin started
  /\ at["daemons"] \in {"created", "start", "alive", "load", "reset", "wait", "stop"}
       => stopped[life] = 0

(* The alive value is another life's until _SetAliveValue, and gone after  *)
(* _DeleteAliveValue.                                                      *)
AliveOfLife ==
  /\ at["daemons"] \in {"created", "start", "alive"} => alive < life
  /\ at["daemons"] \in {"load", "reset", "wait", "stop", "delete"} => alive = life
  /\ at["daemons"] = "delete" => stopped[life] > 0
  /\ at["daemons"] = "close" => alive = 0

(* A life whose start was reported has its stop reported, or its alive value *)
(* is still there for the next one to find, or it never set one.             *)
StopOwed ==
  \A n \in started :
    \/ stopped[n] > 0
    \/ n \in early
    \/ alive = n
    \/ n = life /\ at["daemons"] = "alive"

(* Once a life has reported its start, the value it found is settled. *)
FoundIsReported ==
  at["daemons"] \in {"start", "alive"} \/ life \in started =>
    alive \in {0, life} \/ stopped[alive] > 0

(* The value a start will find is that of a life with no stop reported yet, *)
(* unless a process ended right between the report and the removal.         *)
NotYetReported ==
  at["daemons"] \in {"off", "created"} =>
    alive = 0 \/ stopped[alive] = 0 \/ alive \in twice

HostInv ==
  /\ HostTypeOK
  /\ PlacesOfHosts
  /\ ReportsOfLives
  /\ AliveOfLife
  /\ StopOwed
  /\ FoundIsReported
  /\ NotYetReported
  /\ StopReportedOnce

-----------------------------------------------------------------------------
(***************************************************************************)
(* Types and places.                                                       *)
(***************************************************************************)
DaemonsPlaces ==
  {"off", "created", "start", "alive", "load", "reset", "wait", "stop", "delete",
   "close"}

TypeInv == HostTypeOK /\ PlacesOfHosts

(* What ends with processes leaves the places and the events well formed. *)
LEMMA GoneType ==
  ASSUME TypeInv, NEW hs \in SUBSET Hosts, Gone(hs)
  PROVE  /\ at' \in [Hosts -> DaemonsPlaces \cup {"loop"}]
         /\ \A h \in Hosts : at'[h] \in {at[h], "off"}
         /\ ears' \in {"none", "reset", "listen", "quit"}
         /\ ears' # "none" <=> at'["terminals"] = "loop"
         /\ signalled' \in [Hosts -> BOOLEAN]
         /\ \A h \in Hosts : signalled'[h] => at'[h] # "off"
<1> USE DEF TypeInv, HostTypeOK, PlacesOfHosts, Gone, Hosts, DaemonsPlaces
<1>1. /\ at' \in [Hosts -> DaemonsPlaces \cup {"loop"}]
      /\ \A h \in Hosts : at'[h] = IF h \in hs THEN "off" ELSE at[h]
  OBVIOUS
<1>2. /\ signalled' \in [Hosts -> BOOLEAN]
      /\ \A h \in Hosts : signalled'[h] = IF h \in hs THEN FALSE ELSE signalled[h]
  OBVIOUS
<1>3. \A h \in Hosts : signalled'[h] => at'[h] # "off"
  BY <1>1, <1>2
<1>4. /\ ears' \in {"none", "reset", "listen", "quit"}
      /\ ears' # "none" <=> at'["terminals"] = "loop"
  BY <1>1
<1> QED
  BY <1>1, <1>2, <1>3, <1>4

(* Every step keeps the types and the places. *)
LEMMA TypeStep ==
  ASSUME TypeInv, [HostNext]_hostVars
  PROVE  TypeInv'
<1> USE HostAssumption
    DEF TypeInv, HostTypeOK, PlacesOfHosts, Hosts, Lives, Goto, reportVars, historyVars,
        toolVars
<1>1. ASSUME NEW h \in Hosts, Create(h)
      PROVE  TypeInv'
  BY <1>1 DEF Create
<1>2. ASSUME NEW h \in Hosts, NoConf(h)
      PROVE  TypeInv'
  BY <1>2, GoneType DEF NoConf, DaemonsPlaces
<1>3. ASSUME NEW h \in Hosts, Kill(h)
      PROVE  TypeInv'
  BY <1>3 DEF Kill
<1>4. ASSUME NEW h \in Hosts, KillEnds(h)
      PROVE  TypeInv'
  BY <1>4 DEF KillEnds
<1>5. ASSUME NEW h \in Hosts, Crash(h)
      PROVE  TypeInv'
  BY <1>5, GoneType DEF Crash, CutOff, DaemonsPlaces
<1>6. CASE ReportLost
  BY <1>6 DEF ReportLost, ReportStopOf, AtMost2
<1>7. CASE ReportStart \/ SetAlive \/ Load
  BY <1>7 DEF ReportStart, SetAlive, Load
<1>8. CASE Reset
  BY <1>8 DEF Reset
<1>9. CASE StopSeen \/ DeleteAlive \/ Poll
  BY <1>9 DEF StopSeen, DeleteAlive, Poll
<1>10. CASE ReportStop
  BY <1>10 DEF ReportStop, ReportStopOf, AtMost2
<1>11. CASE Exit
  BY <1>11, GoneType DEF Exit, DaemonsPlaces
<1>12. CASE Show
  BY <1>12 DEF Show
<1>13. CASE Listen
  BY <1>13 DEF Listen
<1>14. CASE Hear
  BY <1>14 DEF Hear
<1>15. CASE Close
  BY <1>15, GoneType DEF Close, DaemonsPlaces
<1>16. CASE AskBoth
  BY <1>16 DEF AskBoth
<1>17. CASE Reboot \/ PowerOff
  BY <1>17, GoneType DEF Reboot, PowerOff, CutOff, DaemonsPlaces
<1>18. CASE UNCHANGED hostVars
  BY <1>18 DEF hostVars
<1> QED
  BY <1>1, <1>2, <1>3, <1>4, <1>5, <1>6, <1>7, <1>8, <1>9, <1>10, <1>11, <1>12,
     <1>13, <1>14, <1>15, <1>16, <1>17, <1>18 DEF HostNext, DaemonsStep, TerminalsStep

-----------------------------------------------------------------------------
(***************************************************************************)
(* The reports.                                                            *)
(***************************************************************************)
Reports ==
  /\ ReportsOfLives
  /\ AliveOfLife
  /\ StopOwed
  /\ FoundIsReported
  /\ NotYetReported
  /\ StopReportedOnce

(* What the reports are about: no step of terminals-host and of the tools    *)
(* that ask for a stop changes it.                                           *)
reported == <<at["daemons"], alive, life, started, stopped, early, twice>>

(* Steps that report nothing leave what reports are about as it is. *)
LEMMA OthersReportNothing ==
  ASSUME TypeInv, NEW h \in Hosts,
         \/ h = "terminals" /\ (Create(h) \/ NoConf(h) \/ Crash(h))
         \/ Kill(h) \/ KillEnds(h) \/ Show \/ Listen \/ Hear \/ Close \/ AskBoth
         \/ UNCHANGED hostVars
  PROVE  UNCHANGED reported
BY DEF reported, TypeInv, HostTypeOK, Hosts, Goto, Gone, reportVars, historyVars,
       toolVars, hostVars, Create, NoConf, Crash, Kill, KillEnds, Show, Listen, Hear,
       Close, AskBoth

(* A daemons-host that is cut off leaves what the next one will report. *)
LEMMA CutOffStep ==
  ASSUME HostInv, Gone(Hosts) \/ Gone({"daemons"}), CutOff,
         UNCHANGED <<alive, life, started, stopped>>
  PROVE  Reports'
<1>1. at'["daemons"] = "off"
  BY DEF Gone, Hosts
<1>2. ReportsOfLives' /\ AliveOfLife'
  BY <1>1 DEF HostInv, HostTypeOK, ReportsOfLives, AliveOfLife
<1>3. StopOwed'
  BY <1>1 DEF HostInv, HostTypeOK, StopOwed, CutOff
<1>4. FoundIsReported'
  BY <1>1 DEF HostInv, HostTypeOK, FoundIsReported
<1>5. NotYetReported' /\ StopReportedOnce'
  <2>1. \A n \in twice : n \in twice'
    BY DEF CutOff
  <2>2. CASE alive = 0
    BY <2>1, <2>2 DEF HostInv, NotYetReported, StopReportedOnce
  <2>3. CASE alive # 0 /\ at["daemons"] \in {"start", "alive"}
    <3>1. alive \in twice'
      BY <2>3 DEF CutOff
    <3> QED
      BY <2>1, <3>1 DEF HostInv, NotYetReported, StopReportedOnce
  <2>4. CASE at["daemons"] = "delete"
    <3>1. alive = life /\ life \in twice'
      BY <2>4 DEF HostInv, AliveOfLife, CutOff
    <3> QED
      BY <2>1, <3>1 DEF HostInv, NotYetReported, StopReportedOnce
  <2>5. CASE at["daemons"] \in {"off", "created"}
    BY <2>1, <2>5 DEF HostInv, NotYetReported, StopReportedOnce
  <2>6. CASE at["daemons"] \in {"load", "reset", "wait", "stop"}
    BY <2>1, <2>6 DEF HostInv, AliveOfLife, ReportsOfLives, NotYetReported, StopReportedOnce
  <2>7. CASE at["daemons"] = "close"
    BY <2>2, <2>7 DEF HostInv, AliveOfLife
  <2> QED
    BY <2>2, <2>3, <2>4, <2>5, <2>6, <2>7 DEF HostInv, HostTypeOK, PlacesOfHosts, Hosts
<1> QED
  BY <1>2, <1>3, <1>4, <1>5 DEF Reports

(* Every step keeps what the invariant says of the reports. *)
LEMMA ReportsStep ==
  ASSUME HostInv, [HostNext]_hostVars
  PROVE  Reports'
<1> USE HostAssumption
    DEF HostInv, HostTypeOK, PlacesOfHosts, Reports, ReportsOfLives, AliveOfLife,
        StopOwed, FoundIsReported, NotYetReported, StopReportedOnce, Lives
<1>0. "daemons" \in Hosts
  BY DEF Hosts
<1>1. CASE UNCHANGED reported
  BY <1>1 DEF reported
<1>2. CASE Create("daemons")
  BY <1>0, <1>2 DEF Create, Goto, reportVars, historyVars
<1>3. CASE NoConf("daemons")
  BY <1>0, <1>3 DEF NoConf, Gone, reportVars, historyVars
<1>4. CASE ReportLost
  <2>1. at'["daemons"] = "start"
    BY <1>0, <1>4 DEF ReportLost, Goto
  <2>2. CASE alive = 0
    BY <1>4, <2>1, <2>2 DEF ReportLost, historyVars
  <2>3. CASE alive # 0
    <3>1. stopped' = [stopped EXCEPT ![alive] = AtMost2(@ + 1)]
      BY <1>4, <2>3 DEF ReportLost, ReportStopOf
    <3>2. alive \in Lives /\ alive # life
      BY <1>4, <2>3 DEF ReportLost
    <3>3. \A n \in Lives : n # alive => stopped'[n] = stopped[n]
      BY <3>1
    <3>4. /\ stopped'[alive] \in {1, 2}
          /\ stopped'[alive] > 1 => stopped[alive] # 0
      BY <3>1, <3>2 DEF AtMost2
    <3> QED
      BY <1>4, <2>1, <2>3, <3>2, <3>3, <3>4 DEF ReportLost, historyVars
  <2> QED
    BY <2>2, <2>3
<1>5. CASE ReportStart
  BY <1>0, <1>5 DEF ReportStart, Goto, historyVars
<1>6. CASE SetAlive
  BY <1>0, <1>6 DEF SetAlive, Goto, reportVars, historyVars
<1>7. CASE Load \/ Reset \/ StopSeen \/ Poll
  BY <1>0, <1>7 DEF Load, Reset, StopSeen, Poll, Goto, reportVars, historyVars
<1>8. CASE ReportStop
  <2>1. at'["daemons"] = "delete"
    BY <1>0, <1>8 DEF ReportStop, Goto
  <2>2. stopped[life] = 0 /\ life \in Lives /\ alive = life
    BY <1>8 DEF ReportStop
  <2>3. stopped'[life] = 1 /\ \A n \in Lives : n # life => stopped'[n] = stopped[n]
    BY <1>8, <2>2 DEF ReportStop, ReportStopOf, AtMost2
  <2>4. UNCHANGED <<alive, life, started, early, twice>>
    BY <1>8 DEF ReportStop, historyVars
  <2>5. ReportsOfLives' /\ AliveOfLife'
    BY <2>1, <2>2, <2>3, <2>4
  <2>6. StopOwed'
    BY <2>1, <2>2, <2>3, <2>4
  <2>7. FoundIsReported' /\ NotYetReported' /\ StopReportedOnce'
    BY <2>1, <2>2, <2>3, <2>4
  <2> QED
    BY <2>5, <2>6, <2>7
<1>9. CASE DeleteAlive
  BY <1>0, <1>9 DEF DeleteAlive, Goto, reportVars, historyVars
<1>10. CASE Exit
  BY <1>0, <1>10 DEF Exit, Gone, reportVars, historyVars
<1>11. CASE Crash("daemons") \/ Reboot \/ PowerOff
  BY <1>11, CutOffStep DEF Crash, Reboot, PowerOff, reportVars
<1> HIDE DEF HostInv, HostTypeOK, Reports
<1>12. ASSUME NEW h \in Hosts,
              \/ h = "terminals" /\ (Create(h) \/ NoConf(h) \/ Crash(h))
              \/ Kill(h) \/ KillEnds(h) \/ Show \/ Listen \/ Hear \/ Close \/ AskBoth
              \/ UNCHANGED hostVars
       PROVE  Reports'
  BY <1>1, <1>12, OthersReportNothing DEF HostInv, TypeInv
<1>13. ASSUME NEW h \in Hosts, Create(h) \/ NoConf(h) \/ Crash(h)
       PROVE  Reports'
  <2>1. CASE h = "daemons"
    BY <1>2, <1>3, <1>11, <1>13, <2>1
  <2>2. CASE h = "terminals"
    BY <1>12, <1>13, <2>2
  <2> QED
    BY <2>1, <2>2 DEF Hosts
<1> QED
  BY <1>0, <1>4, <1>5, <1>6, <1>7, <1>8, <1>9, <1>10, <1>11, <1>12, <1>13
     DEF HostNext, DaemonsStep, TerminalsStep

-----------------------------------------------------------------------------
(* The initial states satisfy the invariant. *)
LEMMA InitInv == HostInit => HostInv
<1> SUFFICES ASSUME HostInit
             PROVE  HostInv
  OBVIOUS
<1>1. HostTypeOK /\ PlacesOfHosts
  BY HostAssumption DEF HostInit, HostTypeOK, PlacesOfHosts, Hosts, Lives
<1>2. ReportsOfLives /\ AliveOfLife /\ StopOwed
  BY DEF HostInit, ReportsOfLives, AliveOfLife, StopOwed, Hosts
<1>3. FoundIsReported /\ NotYetReported /\ StopReportedOnce
  BY DEF HostInit, FoundIsReported, NotYetReported, StopReportedOnce, Hosts
<1> QED
  BY <1>1, <1>2, <1>3 DEF HostInv

(* HostInv is an invariant of the two hosts. *)
LEMMA Invariance == HostSpec => []HostInv
<1>1. HostInv /\ [HostNext]_hostVars => HostInv'
  BY TypeStep, ReportsStep DEF HostInv, TypeInv, Reports
<1> QED
  BY <1>1, InitInv, PTL DEF HostSpec

-----------------------------------------------------------------------------
(***************************************************************************)
(* The theorems.                                                           *)
(***************************************************************************)

(* The state of both hosts, of their events and of the reports is always *)
(* well formed; an event is never signalled without its process.         *)
THEOREM TypeCorrect == HostSpec => []HostTypeOK
BY Invariance, PTL DEF HostInv

(* Whatever ends daemons-host, the report of the next start comes after a   *)
(* report of every stop before it: by the life itself, or by the next one   *)
(* from the alive value, but for a life that was cut off before             *)
(* _SetAliveValue.                                                          *)
THEOREM StopsAreReported == HostSpec => []EveryStopReported
<1>1. HostInv => EveryStopReported
  <2> SUFFICES ASSUME HostInv, life \in started, NEW n \in started, n < life
               PROVE  stopped[n] > 0 \/ n \in early
    BY DEF EveryStopReported
  <2>1. CASE alive = n
    BY <2>1 DEF HostInv, FoundIsReported, HostTypeOK, Lives
  <2>2. CASE alive # n
    BY <2>2 DEF HostInv, StopOwed, HostTypeOK, Lives
  <2> QED
    BY <2>1, <2>2
<1> QED
  BY <1>1, Invariance, PTL

(* _StoreIncorrectStopActivity does not report again what was reported: only *)
(* an end of the process between a report and the change of the alive value  *)
(* doubles a report.                                                         *)
THEOREM NoStopTwice == HostSpec => []StopReportedOnce
BY Invariance, PTL DEF HostInv
=============================================================================
