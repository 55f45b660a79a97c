------------------------------ MODULE Session ------------------------------
(***************************************************************************)
(* The user's session in terminals-host: the working day (work.cpp), the   *)
(* visits to accounts opened by two independent plug-ins (activity.cpp and *)
(* routes.cpp), the screens between them (a_tab.cpp, merch.cpp) and the    *)
(* documents written meanwhile.  The plug-ins do not call each other: they *)
(* share the values of put_conf and get_conf, all lost with the process.   *)
(*                                                                         *)
(* Cookies, w_%x and a_%x or r_%x of the second, are represented by the    *)
(* number of the day or of the visit: two begins of one second, or with a  *)
(* clock set back between them, are not modelled.  get_conf returns a      *)
(* pointer; one that a plug-in keeps is represented by the value it points *)
(* to, and reading it after that value was erased gives Garbage.           *)
(***************************************************************************)
EXTENDS Naturals

CONSTANTS
  Accounts,   (* Accounts a visit may be paid to.                          *)
  MaxDays,    (* Bound on the working days.                                *)
  MaxVisits,  (* Bound on the visits.                                      *)
  MaxDocs,    (* Bound on the documents of a visit.                        *)
  Byte,       (* Values of byte_t, 256 in the code.                        *)
  None,       (* A value that is not set; in a report, an empty attribute. *)
  Garbage     (* What a dangling pointer reads.                            *)

Plugins == {"activity", "routes"}
Visits  == 1 .. MaxVisits
Days    == 1 .. MaxDays
Screens == {"off", "root", "work", "route", "activity", "tab", "merch", "tasks"}

(* The plug-ins in the list "terminals": those that open visits, whether a_tab *)
(* splits the screen, and whether it is loaded before merch.                   *)
Loadings == [visits : SUBSET Plugins, split : BOOLEAN, merchOnTab : BOOLEAN]

(* A visit the user has open. *)
OpenVisits == [by : Plugins, a : Visits, account : Accounts, docs : BOOLEAN,
               written : 0 .. MaxDocs]

ASSUME SessionAssumption ==
  /\ MaxDays \in Nat /\ MaxVisits \in Nat /\ MaxDocs \in Nat
  /\ Byte \in Nat \ {0}
  /\ None \notin Nat \cup Accounts \cup OpenVisits
  /\ Garbage \notin Nat \cup Accounts \cup {None}

VARIABLES
  loading,   (* The configuration.                                         *)
  screen,    (* CURRENT_SCREEN; "off" when terminals-host does not run.    *)
  wCookie,   (* W_COOKIE.                                                  *)
  aCookie,   (* A_COOKIE.                                                  *)
  account,   (* ACCOUNT_ID.                                                *)
  count,     (* ACTIVITY_DOCS.                                             *)
  day,       (* work.cpp: its own copy of the cookie of the day.           *)
  mem,       (* Each visit plug-in: the cookies, the account and whether a *)
             (* document is mandatory.                                     *)
  loc,       (* location.cpp: what it read when its screen was shown.      *)
  days,      (* Days so far.                                               *)
  visits,    (* Visits so far.                                             *)
  visit,     (* History: the visit the user has open.                      *)
  out,       (* History: the package the last step wrote.                  *)
  crossed    (* History: since terminals-host started, a visit was ended   *)
             (* by the plug-in that did not begin it.                      *)

confVars    == <<wCookie, aCookie, account, count>>
countVars   == <<days, visits>>
sessionVars == <<loading, screen, confVars, day, mem, loc, countVars, visit, out,
                 crossed>>

Package(kind, w, a, acc) == [kind |-> kind, w |-> w, a |-> a, account |-> acc]
Nothing == Package("nothing", None, None, None)

(* The results of WriteOmobusXmlPk are ignored: the package may be missing. *)
Report(p) == out' \in {p, Nothing}

(* Reading a pointer into the value of the cookie of the day, or of the visit. *)
Deref(p, current) == IF p \in {None, current} THEN p ELSE Garbage

Forgotten == [w |-> None, a |-> None, account |-> None, docs |-> FALSE]

(* put_conf(CURRENT_SCREEN): OnHide and OnShow of location.cpp, which is on *)
(* the activity screen only and sees the values already set.                *)
GoTo(s) ==
  /\ screen' = s
  /\ loc' = IF s = "activity"
            THEN [w |-> wCookie', a |-> aCookie', account |-> account']
            ELSE [loc EXCEPT !.account = None]

SessionInit ==
  /\ loading \in Loadings
  /\ screen = "off"
  /\ wCookie = None /\ aCookie = None /\ account = None /\ count = 0
  /\ day = None
  /\ mem = [p \in Plugins |-> Forgotten]
  /\ loc = [w |-> None, a |-> None, account |-> None]
  /\ days = 0 /\ visits = 0
  /\ visit = None /\ out = Nothing /\ crossed = FALSE

-----------------------------------------------------------------------------
(* terminals-host.                                                         *)

(* It starts with the root screen and no values of the plug-ins. *)
Launch ==
  /\ screen = "off"
  /\ screen' = "root"
  /\ wCookie' = None /\ aCookie' = None /\ account' = None /\ count' = 0
  /\ day' = None
  /\ mem' = [p \in Plugins |-> Forgotten]
  /\ loc' = [w |-> None, a |-> None, account |-> None]
  /\ visit' = None /\ out' = Nothing /\ crossed' = FALSE
  /\ UNCHANGED <<loading, countVars>>

(* It is closed or dies in any screen, and reports no end of anything. *)
Quit ==
  /\ screen # "off"
  /\ screen' = "off"
  /\ visit' = None
  /\ out' = Nothing
  /\ UNCHANGED <<loading, confVars, day, mem, loc, countVars, crossed>>

-----------------------------------------------------------------------------
(* work.cpp.                                                               *)

StartWorkDay ==
  /\ screen = "root"
  /\ days < MaxDays
  /\ days' = days + 1
  /\ wCookie' = days + 1
  /\ day' = days + 1
  /\ Report(Package("dayBegin", day', None, None))
  /\ UNCHANGED <<loading, aCookie, account, count, mem, visits, visit, crossed>>
  /\ GoTo("work")

StopWorkDay ==
  /\ screen = "work"
  /\ Report(Package("dayEnd", day, None, None))
  /\ wCookie' = None
  /\ day' = None
  /\ UNCHANGED <<loading, aCookie, account, count, mem, countVars, visit, crossed>>
  /\ GoTo("root")

-----------------------------------------------------------------------------
(* activity.cpp and routes.cpp.                                            *)

(* A visit of plug-in p that reads the cookie of the day at w begins. *)
BeginVisit(p, w) ==
  /\ visits < MaxVisits
  /\ visits' = visits + 1
  /\ aCookie' = visits'
  /\ \E acc \in Accounts, docs \in BOOLEAN :
       /\ account' = acc
       /\ mem' = [mem EXCEPT ![p] = [w |-> w, a |-> visits', account |-> acc,
                                     docs |-> docs]]
       /\ visit' = [by |-> p, a |-> visits', account |-> acc, docs |-> docs,
                    written |-> 0]
       /\ Report(Package("begin", Deref(w, wCookie), visits', acc))
  /\ UNCHANGED <<loading, wCookie, count, day, days, crossed>>
  /\ GoTo("activity")

(* Mutant: a visit is ended without looking at the documents. *)
EnoughAlways(p) == TRUE

(* The mandatory document is there: count is compared after a cast to byte_t. *)
Enough(p) == mem[p].docs => count % Byte > 0

(* Plug-in p ends a visit, with what it keeps of the last one it began.      *)
(* Whatever else it clears, it keeps w_cookie.                               *)
EndVisit(p, keptA) ==
  /\ screen \in {"activity", "tab"}
  /\ Enough(p)
  /\ Report(Package("end", Deref(mem[p].w, wCookie), mem[p].a, mem[p].account))
  /\ account' = None
  /\ count' = 0
  /\ mem' = [mem EXCEPT ![p] = [w |-> @.w, a |-> keptA, account |-> None,
                                docs |-> FALSE]]
  /\ visit' = None
  /\ crossed' = (crossed \/ visit.by # p)
  /\ UNCHANGED <<loading, wCookie, day, countVars>>

(* OnStart of activity.cpp. *)
StartActivity ==
  /\ "activity" \in loading.visits
  /\ screen = "work"
  /\ BeginVisit("activity", wCookie)

(* Mutant: ACTIVITY_DOCS is not cleared. *)
StopActivityCounts ==
  /\ "activity" \in loading.visits
  /\ screen \in {"activity", "tab"}
  /\ Enough("activity")
  /\ Report(Package("end", Deref(mem["activity"].w, wCookie), mem["activity"].a,
                    mem["activity"].account))
  /\ account' = None
  /\ mem' = [mem EXCEPT !["activity"] = [@ EXCEPT !.account = None, !.docs = FALSE]]
  /\ visit' = None
  /\ crossed' = (crossed \/ visit.by # "activity")
  /\ UNCHANGED <<loading, wCookie, aCookie, count, day, countVars>>
  /\ GoTo("work")

(* OnStop of activity.cpp: A_COOKIE and its own a_cookie stay. *)
StopActivity ==
  /\ "activity" \in loading.visits
  /\ EndVisit("activity", mem["activity"].a)
  /\ UNCHANGED aCookie
  /\ GoTo("work")

StartRoute ==
  /\ "routes" \in loading.visits
  /\ screen = "work"
  /\ mem' = [mem EXCEPT !["routes"].w = wCookie]
  /\ out' = Nothing
  /\ UNCHANGED <<loading, confVars, day, countVars, visit, crossed>>
  /\ GoTo("route")

StopRoute ==
  /\ "routes" \in loading.visits
  /\ screen = "route"
  /\ mem' = [mem EXCEPT !["routes"].w = None]
  /\ out' = Nothing
  /\ UNCHANGED <<loading, confVars, day, countVars, visit, crossed>>
  /\ GoTo("work")

(* Mutant: A_COOKIE is left as it is. *)
StartRouteVisitSilent ==
  /\ "routes" \in loading.visits
  /\ screen = "route"
  /\ visits < MaxVisits
  /\ visits' = visits + 1
  /\ \E acc \in Accounts, docs \in BOOLEAN :
       /\ account' = acc
       /\ mem' = [mem EXCEPT !["routes"] = [w |-> @.w, a |-> visits',
                                            account |-> acc, docs |-> docs]]
       /\ visit' = [by |-> "routes", a |-> visits', account |-> acc,
                    docs |-> docs, written |-> 0]
  /\ out' = Nothing
  /\ UNCHANGED <<loading, wCookie, aCookie, count, day, days, crossed>>
  /\ GoTo("activity")

(* OnStartActivity of routes.cpp: w_cookie was read by StartRoute. *)
StartRouteVisit ==
  /\ "routes" \in loading.visits
  /\ screen = "route"
  /\ BeginVisit("routes", mem["routes"].w)

(* The list of accounts is closed without a choice; cur_activity was cleared *)
(* when it was opened.                                                       *)
CancelRouteVisit ==
  /\ "routes" \in loading.visits
  /\ screen = "route"
  /\ mem' = [mem EXCEPT !["routes"] = [Forgotten EXCEPT !.w = mem["routes"].w]]
  /\ out' = Nothing
  /\ UNCHANGED <<loading, screen, confVars, day, loc, countVars, visit, crossed>>

(* OnStopActivity of routes.cpp. *)
StopRouteVisit ==
  /\ "routes" \in loading.visits
  /\ EndVisit("routes", None)
  /\ aCookie' = None
  /\ GoTo("route")

-----------------------------------------------------------------------------
(* a_tab.cpp and merch.cpp.                                                *)

Move(from, to) ==
  /\ screen = from
  /\ out' = Nothing
  /\ UNCHANGED <<loading, confVars, day, mem, countVars, visit, crossed>>
  /\ GoTo(to)

Tab ==
  /\ loading.split
  /\ Move("activity", "tab") \/ Move("tab", "activity")

Merch ==
  \/ Move(IF loading.split /\ loading.merchOnTab THEN "tab" ELSE "activity", "merch")
  \/ Move("merch", "activity") \/ Move("merch", "tasks")
  \/ Move("tasks", "merch")

-----------------------------------------------------------------------------
(* The documents.  A package that cannot be written is no document.        *)

(* A document of a visit with cookies w and a is written and counted. *)
Written(w, a, acc) ==
  /\ visit.written < MaxDocs
  /\ count' = count + 1
  /\ visit' = [visit EXCEPT !.written = @ + 1]
  /\ out' = Package("doc", w, a, acc)
  /\ UNCHANGED <<loading, screen, wCookie, aCookie, account, day, mem, loc,
                 countVars, crossed>>

(* order, reclamation, comment, new_contact, presence: the dialog is modal, *)
(* so what it read when it was opened still holds when it is closed.        *)
VisitDocument ==
  /\ screen \in {IF loading.split THEN "tab" ELSE "activity", "tasks"}
  /\ Written(wCookie, aCookie, account)

(* location.cpp keeps the pointers it read when the screen was shown. *)
LocationDocument ==
  /\ screen = "activity"
  /\ Written(Deref(loc.w, wCookie), Deref(loc.a, aCookie), loc.account)

(* unsched, new_account, canceling, and the pending visits of routes.cpp. *)
DayDocument ==
  /\ \/ /\ screen = "work"
        /\ out' = Package("dayDoc", wCookie, None, None)
     \/ /\ screen = "route"
        /\ out' = Package("dayDoc", Deref(mem["routes"].w, wCookie), None, None)
  /\ UNCHANGED <<loading, screen, confVars, day, mem, loc, countVars, visit, crossed>>

-----------------------------------------------------------------------------
SessionNext ==
  \/ Launch \/ Quit
  \/ StartWorkDay \/ StopWorkDay
  \/ StartActivity \/ StopActivity
  \/ StartRoute \/ StopRoute \/ StartRouteVisit \/ CancelRouteVisit
  \/ StopRouteVisit
  \/ Tab \/ Merch
  \/ VisitDocument \/ LocationDocument \/ DayDocument

SessionSpec == SessionInit /\ [][SessionNext]_sessionVars

-----------------------------------------------------------------------------
(* Type correctness of the shared values, the memory of the plug-ins and the *)
(* packages they write.                                                      *)
SessionTypeOK ==
  /\ loading \in Loadings
  /\ screen \in Screens
  /\ wCookie \in Days \cup {None} /\ aCookie \in Visits \cup {None}
  /\ account \in Accounts \cup {None}
  /\ count \in 0 .. MaxDocs
  /\ day \in Days \cup {None}
  /\ mem \in [Plugins -> [w : Days \cup {None}, a : Visits \cup {None},
                          account : Accounts \cup {None}, docs : BOOLEAN]]
  /\ loc \in [w : Days \cup {None}, a : Visits \cup {None},
              account : Accounts \cup {None}]
  /\ days \in 0 .. MaxDays /\ visits \in 0 .. MaxVisits
  /\ visit \in OpenVisits \cup {None}
  /\ screen \in {"activity", "tab", "merch", "tasks"} => visit # None
  /\ out \in [kind : {"nothing", "dayBegin", "dayEnd", "begin", "end", "doc", "dayDoc"},
              w : Days \cup {None, Garbage}, a : Visits \cup {None, Garbage},
              account : Accounts \cup {None}]
  /\ crossed \in BOOLEAN

(* Every document of a visit names the working day, the visit and the account *)
(* the user has open, also when the two visit plug-ins end each other's       *)
(* visits; a visit begins, and other documents are written, under the cookie  *)
(* of the open day as long as they do not.                                    *)
PackagesBelong ==
  /\ out.kind = "doc" =>
       out = Package("doc", day, visit.a, visit.account) /\ day # None
  /\ out.kind \in {"begin", "dayDoc"} /\ ~crossed => out.w = day /\ day # None

(* A visit that is reported as ended is the one that was begun and is open,   *)
(* and its mandatory document was written, as long as each plug-in ends its   *)
(* own visits; and no working day is reported as ended under an open visit.   *)
VisitsEndInOrder ==
  [][ /\ out'.kind = "end" /\ ~crossed' =>
           /\ out' = Package("end", day, visit.a, visit.account)
           /\ visit.docs => visit.written > 0
      /\ out'.kind = "dayEnd" => out'.w = day /\ visit = None ]_sessionVars
=============================================================================
