--------------------------- MODULE HostLifecycle ---------------------------
(***************************************************************************)
(* How daemons-host and terminals-host start, wait to be stopped and       *)
(* report it (daemons-host.cpp, terminals-host.cpp), with the tools that   *)
(* stop them: daemons-kill, terminals-kill and reboot.                     *)
(*                                                                         *)
(* A host runs while its named event exists; the same event, signalled,    *)
(* asks it to stop.  daemons-host keeps a date in the registry, the alive  *)
(* value, while it runs; a value found at the start says that the process  *)
(* before it ended without a report, and is reported as its stop.          *)
(* The lives of daemons-host are numbered from 1; the alive value is       *)
(* represented by the life that wrote it, and 0 when there is none.        *)
(***************************************************************************)
EXTENDS Naturals, FiniteSets

CONSTANTS
  Faults,     (* Of "conf", "crash" and "power", those that may happen.    *)
  MaxLives,   (* Bound on the lives of daemons-host.                       *)
  MaxTries    (* Requests to stop that a tool makes, 11 in the code.       *)

ASSUME HostAssumption ==
  /\ Faults \subseteq {"conf", "crash", "power"}
  /\ MaxLives \in Nat /\ MaxTries \in Nat \ {0}

Hosts == {"daemons", "terminals"}
Lives == 1 .. MaxLives

VARIABLES
  at,         (* Where each host is; "off" when it does not run.           *)
  ears,       (* WaitProc of terminals-host: none, about to reset the      *)
              (* event, listening, or it has posted WM_QUIT.               *)
  signalled,  (* The event of each host is set.                            *)
  alive,      (* The alive value.                                          *)
  life,       (* How many lives daemons-host has had.                      *)
  kill,       (* Requests made so far by each of the two kill tools.       *)
  boot,       (* Requests made so far by reboot.                           *)
  started,    (* Reported: the lives with a start.                         *)
  stopped,    (* Reported: how often each life was reported to have        *)
              (* stopped, up to 2.                                         *)
  early,      (* History: lives that ended before they set the alive value *)
              (* and after their start was reported.                       *)
  twice       (* History: lives whose alive value outlived the report of   *)
              (* their stop because a process ended at that very moment.   *)

reportVars  == <<started, stopped>>
historyVars == <<early, twice>>
toolVars    == <<kill, boot>>
hostVars    == <<at, ears, signalled, alive, life, toolVars, reportVars,
                 historyVars>>

Goto(h, place) == at' = [at EXCEPT ![h] = place]
AtMost2(n)     == IF n > 2 THEN 2 ELSE n
ReportStopOf(n) == stopped' = [stopped EXCEPT ![n] = AtMost2(@ + 1)]

(* Mutant: the event outlives the process with its signal. *)
GoneSignalled(hs) ==
  /\ at' = [h \in Hosts |-> IF h \in hs THEN "off" ELSE at[h]]
  /\ ears' = IF "terminals" \in hs THEN "none" ELSE ears
  /\ UNCHANGED signalled

(* What ends with the processes hs, however they end.  The event goes with *)
(* the last handle to it.                                                  *)
Gone(hs) ==
  /\ at' = [h \in Hosts |-> IF h \in hs THEN "off" ELSE at[h]]
  /\ signalled' = [h \in Hosts |-> IF h \in hs THEN FALSE ELSE signalled[h]]
  /\ ears' = IF "terminals" \in hs THEN "none" ELSE ears

HostInit ==
  /\ at = [h \in Hosts |-> "off"]
  /\ ears = "none"
  /\ signalled = [h \in Hosts |-> FALSE]
  /\ alive = 0
  /\ life = 0
  /\ kill = [h \in Hosts |-> 0]
  /\ boot = 0
  /\ started = {}
  /\ stopped = [n \in Lives |-> 0]
  /\ early = {}
  /\ twice = {}

-----------------------------------------------------------------------------
(* Both hosts: the event is created; it must not exist yet.                *)

Create(h) ==
  /\ at[h] = "off"
  /\ h = "daemons" => life < MaxLives
  /\ Goto(h, "created")
  /\ life' = IF h = "daemons" THEN life + 1 ELSE life
  /\ UNCHANGED <<ears, signalled, alive, toolVars, reportVars, historyVars>>

(* The list of plug-ins is not configured: return -1. *)
NoConf(h) ==
  /\ at[h] = "created"
  /\ "conf" \in Faults
  /\ Gone({h})
  /\ UNCHANGED <<alive, life, toolVars, reportVars, historyVars>>

-----------------------------------------------------------------------------
(* daemons-host.                                                           *)

(* Mutant: the alive value is set before the last one has been looked at. *)
ReportLostLate ==
  /\ at["daemons"] = "created"
  /\ Goto("daemons", "start")
  /\ alive' = life
  /\ UNCHANGED <<ears, signalled, life, toolVars, reportVars, historyVars>>

(* _StoreIncorrectStopActivity.  The value stays. *)
ReportLost ==
  /\ at["daemons"] = "created"
  /\ Goto("daemons", "start")
  /\ IF alive = 0 THEN UNCHANGED stopped ELSE ReportStopOf(alive)
  /\ UNCHANGED <<ears, signalled, alive, life, toolVars, started, historyVars>>

(* _StoreProcActivity(true). *)
ReportStart ==
  /\ at["daemons"] = "start"
  /\ Goto("daemons", "alive")
  /\ started' = started \cup {life}
  /\ UNCHANGED <<ears, signalled, alive, life, toolVars, stopped,
                 historyVars>>

(* The first _SetAliveValue. *)
SetAlive ==
  /\ at["daemons"] = "alive"
  /\ Goto("daemons", "load")
  /\ alive' = life
  /\ UNCHANGED <<ears, signalled, life, toolVars, reportVars, historyVars>>

(* _start has started a plug-in, or none: then there is no _wait. *)
Load ==
  /\ at["daemons"] = "load"
  /\ \/ Goto("daemons", "reset")
     \/ "conf" \in Faults /\ Goto("daemons", "stop")
  /\ UNCHANGED <<ears, signalled, alive, life, toolVars, reportVars,
                 historyVars>>

(* _wait begins with ResetEvent. *)
Reset ==
  /\ at["daemons"] = "reset"
  /\ Goto("daemons", "wait")
  /\ signalled' = [signalled EXCEPT !["daemons"] = FALSE]
  /\ UNCHANGED <<ears, alive, life, toolVars, reportVars, historyVars>>

(* Mutant: every round of _wait resets the event. *)
PollResets ==
  /\ at["daemons"] = "wait"
  /\ alive' = life
  /\ signalled' = [signalled EXCEPT !["daemons"] = FALSE]
  /\ UNCHANGED <<at, ears, life, toolVars, reportVars, historyVars>>

(* Two seconds without a request. *)
Poll ==
  /\ at["daemons"] = "wait"
  /\ ~signalled["daemons"]
  /\ alive' = life
  /\ UNCHANGED <<at, ears, signalled, life, toolVars, reportVars, historyVars>>

StopSeen ==
  /\ at["daemons"] = "wait"
  /\ signalled["daemons"]
  /\ Goto("daemons", "stop")
  /\ UNCHANGED <<ears, signalled, alive, life, toolVars, reportVars,
                 historyVars>>

(* _stop has stopped the plug-ins; _StoreProcActivity(false). *)
ReportStop ==
  /\ at["daemons"] = "stop"
  /\ Goto("daemons", "delete")
  /\ ReportStopOf(life)
  /\ UNCHANGED <<ears, signalled, alive, life, toolVars, started,
                 historyVars>>

(* Mutant: the value is deleted by the start that reports it only. *)
DeleteAliveNever ==
  /\ at["daemons"] = "delete"
  /\ Goto("daemons", "close")
  /\ UNCHANGED <<ears, signalled, alive, life, toolVars, reportVars,
                 historyVars>>

(* _DeleteAliveValue. *)
DeleteAlive ==
  /\ at["daemons"] = "delete"
  /\ Goto("daemons", "close")
  /\ alive' = 0
  /\ UNCHANGED <<ears, signalled, life, toolVars, reportVars, historyVars>>

(* The last lines of _tmain: the event is closed. *)
Exit ==
  /\ at["daemons"] = "close"
  /\ Gone({"daemons"})
  /\ UNCHANGED <<alive, life, toolVars, reportVars, historyVars>>

-----------------------------------------------------------------------------
(* terminals-host.                                                         *)

(* The window is shown and WaitProc created. *)
Show ==
  /\ at["terminals"] = "created"
  /\ Goto("terminals", "loop")
  /\ ears' = "reset"
  /\ UNCHANGED <<signalled, alive, life, toolVars, reportVars, historyVars>>

(* WaitProc begins with ResetEvent. *)
Listen ==
  /\ ears = "reset"
  /\ ears' = "listen"
  /\ signalled' = [signalled EXCEPT !["terminals"] = FALSE]
  /\ UNCHANGED <<at, alive, life, toolVars, reportVars, historyVars>>

(* It posts WM_QUIT and returns. *)
Hear ==
  /\ ears = "listen"
  /\ signalled["terminals"]
  /\ ears' = "quit"
  /\ UNCHANGED <<at, signalled, alive, life, toolVars, reportVars, historyVars>>

(* The message loop ends, at WM_QUIT or when the user closes the window; the *)
(* process ends, and WaitProc with it.                                       *)
Close ==
  /\ at["terminals"] = "loop"
  /\ Gone({"terminals"})
  /\ UNCHANGED <<alive, life, toolVars, reportVars, historyVars>>

-----------------------------------------------------------------------------
(* The tools.                                                              *)

Starting(h) ==
  \/ at[h] \in {"created", "start", "alive", "load", "reset"}
  \/ h = "terminals" /\ ears = "reset"

(* A kill tool sets the event, then sleeps for five seconds.  A host gets    *)
(* through its start before the tool, which goes on for a minute, gives up.  *)
Kill(h) ==
  /\ at[h] # "off"
  /\ kill[h] < MaxTries
  /\ kill[h] = MaxTries - 1 => ~Starting(h)
  /\ kill' = [kill EXCEPT ![h] = @ + 1]
  /\ signalled' = [signalled EXCEPT ![h] = TRUE]
  /\ UNCHANGED <<at, ears, alive, life, boot, reportVars, historyVars>>

(* The tool finds the host gone, or has tried often enough. *)
KillEnds(h) ==
  /\ kill[h] > 0
  /\ at[h] = "off" \/ kill[h] = MaxTries
  /\ kill' = [kill EXCEPT ![h] = 0]
  /\ UNCHANGED <<at, ears, signalled, alive, life, boot, reportVars,
                 historyVars>>

(* reboot sets both events, then sleeps. *)
AskBoth ==
  /\ boot < MaxTries
  /\ boot > 0 => \A h \in Hosts : at[h] # "off"
  /\ boot' = boot + 1
  /\ signalled' = [h \in Hosts |-> at[h] # "off"]
  /\ UNCHANGED <<at, ears, alive, life, kill, reportVars, historyVars>>

(* What is remembered of a life of daemons-host that is cut off. *)
CutOff ==
  /\ early' = early \cup {n \in {life} : at["daemons"] = "alive"}
  /\ twice' = twice
       \cup {n \in {life} : at["daemons"] = "delete"}
       \cup {n \in {alive} : alive # 0 /\ at["daemons"] \in {"start", "alive"}}

(* ExitWindowsEx: a host is gone, not both, or reboot has tried enough. *)
Reboot ==
  /\ boot > 0
  /\ boot = MaxTries \/ \E h \in Hosts : at[h] = "off"
  /\ Gone(Hosts)
  /\ CutOff
  /\ boot' = 0
  /\ kill' = [h \in Hosts |-> 0]
  /\ UNCHANGED <<alive, life, reportVars>>

(* The device loses power, or is reset. *)
PowerOff ==
  /\ "power" \in Faults
  /\ \E h \in Hosts : at[h] # "off"
  /\ Gone(Hosts)
  /\ CutOff
  /\ boot' = 0
  /\ kill' = [h \in Hosts |-> 0]
  /\ UNCHANGED <<alive, life, reportVars>>

(* A host dies. *)
Crash(h) ==
  /\ "crash" \in Faults
  /\ at[h] # "off"
  /\ Gone({h})
  /\ IF h = "daemons"
     THEN CutOff
     ELSE UNCHANGED historyVars
  /\ UNCHANGED <<alive, life, toolVars, reportVars>>

-----------------------------------------------------------------------------
DaemonsStep ==
  \/ ReportLost \/ ReportStart \/ SetAlive \/ Load \/ Reset
  \/ StopSeen \/ ReportStop \/ DeleteAlive \/ Exit

TerminalsStep == Show \/ Listen \/ Hear

HostNext ==
  \/ \E h \in Hosts : Create(h) \/ NoConf(h) \/ Kill(h) \/ KillEnds(h) \/ Crash(h)
  \/ DaemonsStep \/ Poll
  \/ TerminalsStep \/ Close
  \/ AskBoth \/ Reboot \/ PowerOff

HostSpec == HostInit /\ [][HostNext]_hostVars

(***************************************************************************)
(* Both hosts go on by themselves, the message loop ends once WM_QUIT is   *)
(* posted, and a kill tool goes on asking.                                 *)
(***************************************************************************)
HostFairness ==
  /\ WF_hostVars(DaemonsStep)
  /\ WF_hostVars(TerminalsStep)
  /\ WF_hostVars(Close /\ ears = "quit")
  /\ \A h \in Hosts : WF_hostVars(Kill(h) /\ kill[h] > 0) /\ WF_hostVars(KillEnds(h))

HostFairSpec == HostSpec /\ HostFairness

-----------------------------------------------------------------------------
(* Type correctness of the hosts, the tools and the reports. *)
HostTypeOK ==
  /\ at \in [Hosts -> {"off", "created", "start", "alive", "load", "reset",
                       "wait", "stop", "delete", "close", "loop"}]
  /\ ears \in {"none", "reset", "listen", "quit"}
  /\ ears # "none" <=> at["terminals"] = "loop"
  /\ signalled \in [Hosts -> BOOLEAN]
  /\ \A h \in Hosts : signalled[h] => at[h] # "off"
  /\ alive \in 0 .. life
  /\ life \in 0 .. MaxLives
  /\ kill \in [Hosts -> 0 .. MaxTries]
  /\ boot \in 0 .. MaxTries
  /\ stopped \in [Lives -> 0 .. 2]
  /\ started \cup early \cup twice \subseteq Lives

(* Every stop is reported, orderly or not, by the process itself or by the   *)
(* next one: once a start is reported, each earlier life with a start has a  *)
(* stop, unless it ended between the report of its start and _SetAliveValue. *)
EveryStopReported ==
  life \in started => \A n \in started : n < life => stopped[n] > 0 \/ n \in early

(* No stop is reported twice, unless a process ended between a report of the *)
(* stop and the removal or replacement of the alive value.                   *)
StopReportedOnce == \A n \in Lives : stopped[n] > 1 => n \in twice

(* A tool that wants a host to stop stops it, although a host that has just  *)
(* been started erases the request.                                          *)
KillWorks == \A h \in Hosts : kill[h] = 1 ~> at[h] = "off"

(* "An incorrect stop is possible only when the device is switched off, the  *)
(* battery removed or the process falls" (daemons-host.cpp:460, in Russian): *)
(* without such an event no start finds an alive value.                      *)
NoFault == Faults \cap {"crash", "power"} = {}
LostByFaultOnly == NoFault => at["daemons"] # "created" \/ alive = 0
=============================================================================
