---------------------------- MODULE SessionProofs ----------------------------
(***************************************************************************)
(* Proofs about Session, for every set of accounts, every number of days,  *)
(* visits and documents and every width of byte_t, with either visit       *)
(* plug-in, both or none, however the screens are configured.              *)
(***************************************************************************)
EXTENDS Session, TLAPS

(***************************************************************************)
(* The inductive invariant.                                                *)
(***************************************************************************)
VisitScreens == {"activity", "tab", "merch", "tasks"}

(* W_COOKIE and the copy of work.cpp agree, and name a day once it is begun. *)
DayIsOne ==
  /\ day = wCookie
  /\ screen \notin {"off", "root"} => day # None

(* The screens of a visit are shown while there is one, whose cookie and      *)
(* account are A_COOKIE and ACCOUNT_ID and whose documents are ACTIVITY_DOCS. *)
VisitIsCurrent ==
  /\ screen \in VisitScreens <=> visit # None
  /\ visit # None =>
       aCookie = visit.a /\ account = visit.account /\ count = visit.written
  /\ visit = None /\ screen # "off" => count = 0

(* What location.cpp read when the screen was shown has not changed since. *)
ReadIsCurrent ==
  screen = "activity" => loc = [w |-> wCookie, a |-> aCookie, account |-> account]

(* The plug-in that began the visit keeps what it is, and its day as long as *)
(* the two plug-ins have not ended each other's visits; so does routes.cpp   *)
(* between two visits of a route.                                            *)
KeptIsCurrent ==
  /\ visit # None =>
       /\ mem[visit.by].a = visit.a
       /\ mem[visit.by].account = visit.account
       /\ mem[visit.by].docs = visit.docs
       /\ ~crossed => mem[visit.by].w = wCookie
  /\ screen = "route" /\ ~crossed => mem["routes"].w = wCookie

SessionInv ==
  /\ SessionTypeOK
  /\ DayIsOne
  /\ VisitIsCurrent
  /\ ReadIsCurrent
  /\ KeptIsCurrent
  /\ PackagesBelong

USE SessionAssumption DEF Plugins, Visits, Days, OpenVisits

-----------------------------------------------------------------------------
(* What a plug-in reads through a pointer is the value it kept, or garbage. *)
LEMMA DerefValues ==
  ASSUME NEW p, NEW c
  PROVE  /\ Deref(p, c) \in {p, Garbage}
         /\ p = c => Deref(p, c) = p
  BY DEF Deref

(* A visit that is open is a record of the visits. *)
LEMMA OpenVisit ==
  ASSUME SessionTypeOK, visit # None
  PROVE  /\ visit \in OpenVisits
         /\ mem[visit.by] \in [w : Days \cup {None}, a : Visits \cup {None},
                               account : Accounts \cup {None}, docs : BOOLEAN]
  BY DEF SessionTypeOK

-----------------------------------------------------------------------------
(* What terminals-host starts with has its type. *)
LEMMA StartTypes ==
  /\ [p \in Plugins |-> Forgotten]
       \in [Plugins -> [w : Days \cup {None}, a : Visits \cup {None},
                        account : Accounts \cup {None}, docs : BOOLEAN]]
  /\ [w |-> None, a |-> None, account |-> None]
       \in [w : Days \cup {None}, a : Visits \cup {None},
            account : Accounts \cup {None}]
  /\ Nothing \in [kind : {"nothing", "dayBegin", "dayEnd", "begin", "end", "doc",
                          "dayDoc"},
                  w : Days \cup {None, Garbage}, a : Visits \cup {None, Garbage},
                  account : Accounts \cup {None}]
  /\ 0 \in 0 .. MaxDocs /\ 0 \in 0 .. MaxDays /\ 0 \in 0 .. MaxVisits
  <1>1. Forgotten \in [w : Days \cup {None}, a : Visits \cup {None},
                       account : Accounts \cup {None}, docs : BOOLEAN]
    BY DEF Forgotten
  <1> QED BY <1>1 DEF Nothing, Package

(* The initial states satisfy the invariant. *)
LEMMA InitInv == SessionInit => SessionInv
  <1> SUFFICES ASSUME SessionInit PROVE SessionInv
    OBVIOUS
  <1>1. SessionTypeOK
    BY StartTypes DEF SessionInit, SessionTypeOK, Screens
  <1>2. DayIsOne /\ VisitIsCurrent /\ ReadIsCurrent /\ KeptIsCurrent
    BY DEF SessionInit, DayIsOne, VisitIsCurrent, ReadIsCurrent, KeptIsCurrent,
           VisitScreens
  <1>3. PackagesBelong
    BY DEF SessionInit, PackagesBelong, Nothing, Package
  <1> QED BY <1>1, <1>2, <1>3 DEF SessionInv

(* terminals-host starts. *)
LEMMA LaunchKeeps == SessionInv /\ Launch => SessionInv'
  <1> SUFFICES ASSUME SessionInv, Launch PROVE SessionInv'
    OBVIOUS
  <1>1. SessionTypeOK'
    BY StartTypes DEF SessionInv, SessionTypeOK, Launch, Screens, countVars
  <1>2. (DayIsOne /\ VisitIsCurrent /\ ReadIsCurrent /\ KeptIsCurrent)'
    BY DEF Launch, DayIsOne, VisitIsCurrent, ReadIsCurrent, KeptIsCurrent,
           VisitScreens
  <1>3. PackagesBelong'
    BY DEF Launch, PackagesBelong, Nothing, Package
  <1> QED BY <1>1, <1>2, <1>3 DEF SessionInv

(* It ends. *)
LEMMA QuitKeeps == SessionInv /\ Quit => SessionInv'
  <1> SUFFICES ASSUME SessionInv, Quit PROVE SessionInv'
    OBVIOUS
  <1>1. SessionTypeOK'
    BY DEF SessionInv, SessionTypeOK, Quit, Nothing, Package, Screens, countVars,
           confVars
  <1>2. (DayIsOne /\ VisitIsCurrent /\ ReadIsCurrent /\ KeptIsCurrent)'
    BY DEF SessionInv, Quit, DayIsOne, VisitIsCurrent, ReadIsCurrent,
           KeptIsCurrent, VisitScreens, confVars
  <1>3. PackagesBelong'
    BY DEF Quit, PackagesBelong, Nothing, Package
  <1> QED BY <1>1, <1>2, <1>3 DEF SessionInv

(* A working day begins: only the root screen, without a visit, begins one. *)
LEMMA StartWorkDayKeeps == SessionInv /\ StartWorkDay => SessionInv'
  <1> SUFFICES ASSUME SessionInv, StartWorkDay PROVE SessionInv'
    OBVIOUS
  <1>0. visit = None
    BY DEF SessionInv, VisitIsCurrent, VisitScreens, StartWorkDay
  <1>1. SessionTypeOK'
    BY <1>0 DEF SessionInv, SessionTypeOK, StartWorkDay, Report, GoTo, Nothing, Package,
           Screens
  <1>2. (DayIsOne /\ VisitIsCurrent)'
    BY <1>0
    DEF SessionInv, SessionTypeOK, StartWorkDay, GoTo, DayIsOne, VisitIsCurrent,
        VisitScreens
  <1>3. (ReadIsCurrent /\ KeptIsCurrent)'
    BY <1>0 DEF StartWorkDay, GoTo, ReadIsCurrent, KeptIsCurrent
  <1>4. PackagesBelong'
    BY DEF StartWorkDay, Report, PackagesBelong, Nothing, Package
  <1> QED BY <1>1, <1>2, <1>3, <1>4 DEF SessionInv

(* A working day ends. *)
LEMMA StopWorkDayKeeps == SessionInv /\ StopWorkDay => SessionInv'
  <1> SUFFICES ASSUME SessionInv, StopWorkDay PROVE SessionInv'
    OBVIOUS
  <1>0. visit = None
    BY DEF SessionInv, VisitIsCurrent, VisitScreens, StopWorkDay
  <1>1. SessionTypeOK'
    BY <1>0 DEF SessionInv, SessionTypeOK, StopWorkDay, Report, GoTo, Nothing, Package,
           Screens, countVars
  <1>2. (DayIsOne /\ VisitIsCurrent)'
    BY <1>0 DEF SessionInv, StopWorkDay, GoTo, DayIsOne, VisitIsCurrent, VisitScreens
  <1>3. (ReadIsCurrent /\ KeptIsCurrent)'
    BY <1>0 DEF StopWorkDay, GoTo, ReadIsCurrent, KeptIsCurrent
  <1>4. PackagesBelong'
    BY DEF StopWorkDay, Report, PackagesBelong, Nothing, Package
  <1> QED BY <1>1, <1>2, <1>3, <1>4 DEF SessionInv

(* A visit begins, under the day the plug-in read. *)
LEMMA BeginVisitKeeps ==
  ASSUME SessionInv, NEW p \in Plugins, NEW w \in Days \cup {None},
         screen \in {"work", "route"}, ~crossed => w = wCookie, BeginVisit(p, w)
  PROVE  SessionInv'
  <1>1. PICK acc \in Accounts, docs \in BOOLEAN :
          /\ account' = acc
          /\ mem' = [mem EXCEPT ![p] = [w |-> w, a |-> visits', account |-> acc,
                                        docs |-> docs]]
          /\ visit' = [by |-> p, a |-> visits', account |-> acc, docs |-> docs,
                       written |-> 0]
          /\ Report(Package("begin", Deref(w, wCookie), visits', acc))
    BY DEF BeginVisit
  <1>2. /\ visits' \in Visits /\ visits' \in 0 .. MaxVisits
        /\ aCookie' = visits' /\ visits' # None
        /\ screen' = "activity"
        /\ loc' = [w |-> wCookie', a |-> aCookie', account |-> account']
        /\ UNCHANGED <<loading, wCookie, count, day, days, crossed>>
    BY DEF BeginVisit, GoTo, SessionInv, SessionTypeOK
  <1>3. visit = None /\ count = 0 /\ day # None /\ day = wCookie
    BY DEF SessionInv, VisitIsCurrent, DayIsOne, VisitScreens
  <1>4. visit' \in OpenVisits /\ visit' # None
    BY <1>1, <1>2 DEF SessionInv, SessionTypeOK
  <1>5. SessionTypeOK'
    <2>1. mem' \in [Plugins -> [w : Days \cup {None}, a : Visits \cup {None},
                               account : Accounts \cup {None}, docs : BOOLEAN]]
      BY <1>1, <1>2 DEF SessionInv, SessionTypeOK
    <2>2. out' \in [kind : {"nothing", "dayBegin", "dayEnd", "begin", "end", "doc",
                            "dayDoc"},
                    w : Days \cup {None, Garbage}, a : Visits \cup {None, Garbage},
                    account : Accounts \cup {None}]
      BY <1>1, <1>2, DerefValues DEF Report, Nothing, Package
    <2> QED
      BY <1>1, <1>2, <1>4, <2>1, <2>2 DEF SessionInv, SessionTypeOK, Screens
  <1>6. (DayIsOne /\ VisitIsCurrent /\ ReadIsCurrent)'
    BY <1>1, <1>2, <1>3, <1>4 DEF DayIsOne, VisitIsCurrent, ReadIsCurrent, VisitScreens
  <1>7. KeptIsCurrent'
    BY <1>1, <1>2 DEF KeptIsCurrent, SessionInv, SessionTypeOK
  <1>8. PackagesBelong'
    <2>1. ~crossed => Deref(w, wCookie) = day
      BY <1>3, DerefValues
    <2> QED BY <1>1, <1>2, <1>3, <2>1 DEF Report, Nothing, Package, PackagesBelong
  <1> QED BY <1>5, <1>6, <1>7, <1>8 DEF SessionInv

(* What an end of a visit by plug-in p does to crossed. *)
LEMMA CrossedStep ==
  ASSUME SessionInv, NEW p \in Plugins, crossed' = (crossed \/ visit.by # p)
  PROVE  /\ crossed' \in BOOLEAN
         /\ ~crossed' => ~crossed /\ visit.by = p
  <1>0. crossed \in BOOLEAN
    BY DEF SessionInv, SessionTypeOK
  <1>1. CASE crossed \/ visit.by # p
    <2>1. (crossed \/ visit.by # p) = TRUE
      BY <1>1, Zenon
    <2> QED BY <2>1, Zenon
  <1>2. CASE ~crossed /\ visit.by = p
    <2>1. (crossed \/ visit.by # p) = FALSE
      BY <1>2, Zenon
    <2> QED BY <1>2, <2>1, Zenon
  <1> QED BY <1>0, <1>1, <1>2, Zenon

(* The facts about a visit that plug-in p ends. *)
LEMMA EndFacts ==
  ASSUME SessionInv, NEW p \in Plugins, NEW keptA, EndVisit(p, keptA)
  PROVE  /\ visit # None /\ day # None /\ day = wCookie
         /\ crossed' \in BOOLEAN
         /\ ~crossed' => /\ ~crossed /\ visit.by = p
                         /\ mem[p].a = visit.a /\ mem[p].account = visit.account
                         /\ mem[p].docs = visit.docs
                         /\ mem[p].w = wCookie
  <1>1. visit # None /\ day # None /\ day = wCookie
    BY DEF SessionInv, DayIsOne, VisitIsCurrent, VisitScreens, EndVisit
  <1>2. crossed' = (crossed \/ visit.by # p)
    BY Zenon DEF EndVisit
  <1>3. crossed' \in BOOLEAN /\ (~crossed' => ~crossed /\ visit.by = p)
    BY <1>2, CrossedStep
  <1> HIDE <1>2
  <1> QED BY <1>1, <1>3 DEF SessionInv, KeptIsCurrent

(* It ends, and the user is back where the plug-in began it. *)
LEMMA EndVisitKeeps ==
  ASSUME SessionInv, NEW p \in Plugins, NEW keptA \in Visits \cup {None},
         NEW s \in {"work", "route"}, s = "route" => p = "routes",
         EndVisit(p, keptA), aCookie' \in Visits \cup {None}, GoTo(s)
  PROVE  SessionInv'
  <1>0. mem[p] \in [w : Days \cup {None}, a : Visits \cup {None},
                    account : Accounts \cup {None}, docs : BOOLEAN]
    BY DEF SessionInv, SessionTypeOK
  <1>1. /\ screen' = s /\ visit' = None /\ account' = None /\ count' = 0
        /\ loc' = [loc EXCEPT !.account = None]
        /\ mem' = [mem EXCEPT ![p] = [w |-> @.w, a |-> keptA, account |-> None,
                                      docs |-> FALSE]]
        /\ UNCHANGED <<loading, wCookie, day, days, visits>>
        /\ Report(Package("end", Deref(mem[p].w, wCookie), mem[p].a,
                          mem[p].account))
    BY DEF EndVisit, GoTo, countVars
  <1>2. /\ visit # None /\ day # None /\ day = wCookie
        /\ crossed' \in BOOLEAN
        /\ ~crossed' => ~crossed /\ visit.by = p /\ mem[p].w = wCookie
    BY EndFacts
  <1>3. out' \in [kind : {"nothing", "dayBegin", "dayEnd", "begin", "end", "doc",
                          "dayDoc"},
                  w : Days \cup {None, Garbage}, a : Visits \cup {None, Garbage},
                  account : Accounts \cup {None}]
        /\ out'.kind \in {"end", "nothing"}
    <2>1. Deref(mem[p].w, wCookie) \in Days \cup {None, Garbage}
      BY <1>0, DerefValues
    <2> QED BY <1>0, <1>1, <2>1 DEF Report, Nothing, Package
  <1>4. SessionTypeOK'
    <2>1. mem' \in [Plugins -> [w : Days \cup {None}, a : Visits \cup {None},
                               account : Accounts \cup {None}, docs : BOOLEAN]]
      BY <1>0, <1>1 DEF SessionInv, SessionTypeOK
    <2> QED
      BY <1>1, <1>2, <1>3, <2>1 DEF SessionInv, SessionTypeOK, Screens
  <1>5. (DayIsOne /\ VisitIsCurrent /\ ReadIsCurrent)'
    BY <1>1, <1>2 DEF DayIsOne, VisitIsCurrent, ReadIsCurrent, VisitScreens
  <1>6. KeptIsCurrent'
    BY <1>0, <1>1, <1>2 DEF KeptIsCurrent, SessionInv, SessionTypeOK
  <1>7. PackagesBelong'
    BY <1>3 DEF PackagesBelong
  <1> QED BY <1>4, <1>5, <1>6, <1>7 DEF SessionInv

(* The plug-in of routes opens, closes or cancels something of its own, and no *)
(* visit is open.                                                              *)
LEMMA RouteKeeps ==
  SessionInv /\ (StartRoute \/ StopRoute \/ CancelRouteVisit) => SessionInv'
  <1> SUFFICES ASSUME SessionInv, StartRoute \/ StopRoute \/ CancelRouteVisit
               PROVE  SessionInv'
    OBVIOUS
  <1>0. PICK s \in {"work", "route"}, r \in [w : Days \cup {None},
                 a : Visits \cup {None}, account : Accounts \cup {None},
                 docs : BOOLEAN] :
          /\ screen \in {"work", "route"} /\ screen' = s
          /\ mem' = [mem EXCEPT !["routes"] = r]
          /\ s = "route" /\ ~crossed => r.w = wCookie
          /\ loc' \in {loc, [loc EXCEPT !.account = None]}
          /\ out' = Nothing
          /\ UNCHANGED <<loading, wCookie, aCookie, account, count, day, days,
                         visits, visit, crossed>>
    <2>0. mem["routes"] \in [w : Days \cup {None}, a : Visits \cup {None},
                             account : Accounts \cup {None}, docs : BOOLEAN]
      BY DEF SessionInv, SessionTypeOK
    <2>1. CASE StartRoute
      <3> DEFINE r == [mem["routes"] EXCEPT !.w = wCookie]
      <3>1. r \in [w : Days \cup {None}, a : Visits \cup {None},
                   account : Accounts \cup {None}, docs : BOOLEAN]
            /\ r.w = wCookie
        BY <2>0 DEF SessionInv, SessionTypeOK
      <3>2. mem' = [mem EXCEPT !["routes"] = r]
        BY <2>1 DEF StartRoute, SessionInv, SessionTypeOK
      <3> QED BY <2>1, <3>1, <3>2 DEF StartRoute, GoTo, confVars, countVars
    <2>2. CASE StopRoute
      <3> DEFINE r == [mem["routes"] EXCEPT !.w = None]
      <3>1. r \in [w : Days \cup {None}, a : Visits \cup {None},
                   account : Accounts \cup {None}, docs : BOOLEAN]
        BY <2>0
      <3>2. mem' = [mem EXCEPT !["routes"] = r]
        BY <2>2 DEF StopRoute, SessionInv, SessionTypeOK
      <3> QED BY <2>2, <3>1, <3>2 DEF StopRoute, GoTo, confVars, countVars
    <2>3. CASE CancelRouteVisit
      <3> DEFINE r == [Forgotten EXCEPT !.w = mem["routes"].w]
      <3>1. r \in [w : Days \cup {None}, a : Visits \cup {None},
                   account : Accounts \cup {None}, docs : BOOLEAN]
            /\ r.w = mem["routes"].w
        BY <2>0 DEF Forgotten
      <3>2. mem' = [mem EXCEPT !["routes"] = r]
        BY <2>3 DEF CancelRouteVisit
      <3>3. ~crossed => r.w = wCookie
        BY <2>3, <3>1 DEF CancelRouteVisit, SessionInv, KeptIsCurrent
      <3> HIDE DEF r
      <3> QED BY <2>3, <3>1, <3>2, <3>3 DEF CancelRouteVisit, confVars, countVars
    <2> QED BY <2>1, <2>2, <2>3
  <1>1. visit = None
    BY <1>0 DEF SessionInv, VisitIsCurrent, VisitScreens
  <1>2. SessionTypeOK'
    BY <1>0, <1>1, StartTypes DEF SessionInv, SessionTypeOK, Screens
  <1>3. (DayIsOne /\ VisitIsCurrent /\ ReadIsCurrent)'
    BY <1>0, <1>1
    DEF SessionInv, DayIsOne, VisitIsCurrent, ReadIsCurrent, VisitScreens
  <1>4. KeptIsCurrent'
    BY <1>0, <1>1 DEF SessionInv, SessionTypeOK, KeptIsCurrent
  <1>5. PackagesBelong'
    BY <1>0 DEF PackagesBelong, Nothing, Package
  <1> QED BY <1>2, <1>3, <1>4, <1>5 DEF SessionInv

(* Another screen of the visit is shown. *)
LEMMA MoveKeeps ==
  ASSUME SessionInv, NEW from \in VisitScreens, NEW to \in VisitScreens,
         Move(from, to)
  PROVE  SessionInv'
  <1>0. /\ screen = from /\ screen' = to /\ out' = Nothing
        /\ loc' = IF to = "activity"
                  THEN [w |-> wCookie, a |-> aCookie, account |-> account]
                  ELSE [loc EXCEPT !.account = None]
        /\ UNCHANGED <<loading, wCookie, aCookie, account, count, day, mem, days,
                       visits, visit, crossed>>
    BY DEF Move, GoTo, confVars, countVars
  <1>1. SessionTypeOK'
    BY <1>0, StartTypes
    DEF SessionInv, SessionTypeOK, Screens, VisitIsCurrent, VisitScreens
  <1>2. (DayIsOne /\ VisitIsCurrent /\ ReadIsCurrent)'
    BY <1>0
    DEF SessionInv, DayIsOne, VisitIsCurrent, ReadIsCurrent, VisitScreens
  <1>3. KeptIsCurrent'
    BY <1>0 DEF SessionInv, KeptIsCurrent, VisitScreens
  <1>4. PackagesBelong'
    BY <1>0 DEF PackagesBelong, Nothing, Package
  <1> QED BY <1>1, <1>2, <1>3, <1>4 DEF SessionInv

(* A document of the open visit is written and counted. *)
LEMMA DocumentKeeps ==
  SessionInv /\ (VisitDocument \/ LocationDocument) => SessionInv'
  <1> SUFFICES ASSUME SessionInv, VisitDocument \/ LocationDocument
               PROVE  SessionInv'
    OBVIOUS
  <1>0. /\ screen \in VisitScreens
        /\ Written(wCookie, aCookie, account)
    <2>1. CASE VisitDocument
      BY <2>1 DEF VisitDocument, VisitScreens
    <2>2. CASE LocationDocument
      <3>1. loc.w = wCookie /\ loc.a = aCookie /\ loc.account = account
        BY <2>2 DEF LocationDocument, SessionInv, ReadIsCurrent
      <3>2. Deref(loc.w, wCookie) = wCookie /\ Deref(loc.a, aCookie) = aCookie
        BY <3>1, DerefValues
      <3> QED BY <2>2, <3>1, <3>2 DEF LocationDocument, VisitScreens
    <2> QED BY <2>1, <2>2
  <1>1. /\ visit \in OpenVisits /\ visit # None
        /\ day = wCookie /\ day # None
        /\ aCookie = visit.a /\ account = visit.account /\ count = visit.written
    BY <1>0, OpenVisit DEF SessionInv, DayIsOne, VisitIsCurrent, VisitScreens
  <1>2. /\ visit.written < MaxDocs
        /\ count' = count + 1
        /\ visit' = [visit EXCEPT !.written = @ + 1]
        /\ out' = Package("doc", wCookie, aCookie, account)
        /\ UNCHANGED <<loading, screen, wCookie, aCookie, account, day, mem, loc,
                       days, visits, crossed>>
    BY <1>0 DEF Written, countVars
  <1>3. /\ visit' \in OpenVisits /\ visit' # None
        /\ visit'.by = visit.by /\ visit'.a = visit.a
        /\ visit'.account = visit.account /\ visit'.docs = visit.docs
        /\ visit'.written = visit.written + 1 /\ count' \in 0 .. MaxDocs
    BY <1>1, <1>2
  <1>4. SessionTypeOK'
    BY <1>1, <1>2, <1>3 DEF SessionInv, SessionTypeOK, Package
  <1>5. (DayIsOne /\ VisitIsCurrent /\ ReadIsCurrent)'
    BY <1>0, <1>1, <1>2, <1>3
    DEF SessionInv, DayIsOne, VisitIsCurrent, ReadIsCurrent
  <1>6. KeptIsCurrent'
    BY <1>1, <1>2, <1>3 DEF SessionInv, KeptIsCurrent
  <1>7. PackagesBelong'
    BY <1>1, <1>2, <1>3 DEF PackagesBelong, Package
  <1> QED BY <1>4, <1>5, <1>6, <1>7 DEF SessionInv

(* A document that belongs to the day only is written. *)
LEMMA DayDocumentKeeps == SessionInv /\ DayDocument => SessionInv'
  <1> SUFFICES ASSUME SessionInv, DayDocument PROVE SessionInv'
    OBVIOUS
  <1>0. /\ screen \in {"work", "route"}
        /\ UNCHANGED <<loading, screen, wCookie, aCookie, account, count, day, mem,
                       loc, days, visits, visit, crossed>>
    BY DEF DayDocument, confVars, countVars
  <1>1. PICK w \in Days \cup {None, Garbage} :
          /\ out' = Package("dayDoc", w, None, None)
          /\ ~crossed => w = wCookie
    <2>1. CASE screen = "work" /\ out' = Package("dayDoc", wCookie, None, None)
      BY <2>1 DEF SessionInv, SessionTypeOK
    <2>2. CASE /\ screen = "route"
               /\ out' = Package("dayDoc", Deref(mem["routes"].w, wCookie), None,
                                 None)
      <3>1. mem["routes"].w \in Days \cup {None}
        BY DEF SessionInv, SessionTypeOK
      <3>2. Deref(mem["routes"].w, wCookie) \in Days \cup {None, Garbage}
        BY <3>1, DerefValues
      <3>3. ~crossed => Deref(mem["routes"].w, wCookie) = wCookie
        BY <2>2, DerefValues DEF SessionInv, KeptIsCurrent
      <3> QED BY <2>2, <3>2, <3>3
    <2> QED BY <2>1, <2>2 DEF DayDocument
  <1>2. SessionTypeOK'
    BY <1>0, <1>1 DEF SessionInv, SessionTypeOK, Package
  <1>3. (DayIsOne /\ VisitIsCurrent /\ ReadIsCurrent /\ KeptIsCurrent)'
    BY <1>0
    DEF SessionInv, DayIsOne, VisitIsCurrent, ReadIsCurrent, KeptIsCurrent
  <1>4. PackagesBelong'
    BY <1>0, <1>1 DEF SessionInv, DayIsOne, PackagesBelong, Package
  <1> QED BY <1>2, <1>3, <1>4 DEF SessionInv

-----------------------------------------------------------------------------
(* Every step keeps the invariant. *)
LEMMA Invariance == SessionInv /\ [SessionNext]_sessionVars => SessionInv'
  <1> SUFFICES ASSUME SessionInv, [SessionNext]_sessionVars PROVE SessionInv'
    OBVIOUS
  <1>1. CASE Launch
    BY <1>1, LaunchKeeps
  <1>2. CASE Quit
    BY <1>2, QuitKeeps
  <1>3. CASE StartWorkDay
    BY <1>3, StartWorkDayKeeps
  <1>4. CASE StopWorkDay
    BY <1>4, StopWorkDayKeeps
  <1>5. CASE StartActivity
    <2>1. wCookie \in Days \cup {None}
      BY DEF SessionInv, SessionTypeOK
    <2> QED BY <1>5, <2>1, BeginVisitKeeps DEF StartActivity
  <1>6. CASE StopActivity
    <2>1. mem["activity"].a \in Visits \cup {None} /\ aCookie' \in Visits \cup {None}
      BY <1>6 DEF StopActivity, SessionInv, SessionTypeOK
    <2>2. EndVisit("activity", mem["activity"].a) /\ GoTo("work")
      BY <1>6 DEF StopActivity
    <2> QED BY <2>1, <2>2, EndVisitKeeps
  <1>7. CASE StartRoute \/ StopRoute \/ CancelRouteVisit
    BY <1>7, RouteKeeps
  <1>8. CASE StartRouteVisit
    <2>1. mem["routes"].w \in Days \cup {None}
          /\ (~crossed => mem["routes"].w = wCookie)
      BY <1>8 DEF StartRouteVisit, SessionInv, SessionTypeOK, KeptIsCurrent
    <2> QED BY <1>8, <2>1, BeginVisitKeeps DEF StartRouteVisit
  <1>9. CASE StopRouteVisit
    BY <1>9, EndVisitKeeps DEF StopRouteVisit
  <1>10. CASE Tab \/ Merch
    <2>1. PICK from \in VisitScreens, to \in VisitScreens : Move(from, to)
      BY <1>10 DEF Tab, Merch, VisitScreens
    <2> QED BY <2>1, MoveKeeps
  <1>11. CASE VisitDocument \/ LocationDocument
    BY <1>11, DocumentKeeps
  <1>12. CASE DayDocument
    BY <1>12, DayDocumentKeeps
  <1>13. CASE UNCHANGED sessionVars
    BY <1>13
    DEF sessionVars, confVars, countVars, SessionInv, SessionTypeOK, DayIsOne,
        VisitIsCurrent, ReadIsCurrent, KeptIsCurrent, PackagesBelong
  <1> QED
    BY <1>1, <1>2, <1>3, <1>4, <1>5, <1>6, <1>7, <1>8, <1>9, <1>10, <1>11, <1>12,
       <1>13
    DEF SessionNext

(* SessionInv is an invariant of the session. *)
LEMMA Invariant == SessionSpec => []SessionInv
  BY InitInv, Invariance, PTL DEF SessionSpec

(* The shared values, what the plug-ins keep and the packages they write have *)
(* their types, and the screens of a visit are shown during one only.         *)
THEOREM TypeCorrect == SessionSpec => []SessionTypeOK
  <1>1. SessionInv => SessionTypeOK
    BY DEF SessionInv
  <1> QED BY Invariant, <1>1, PTL

(* Every document of a visit names the day, the visit and the account that are *)
(* open, whichever plug-ins are loaded; begins of visits and documents of the  *)
(* day name the open day until one plug-in has ended a visit of the other.     *)
THEOREM DocumentsBelong == SessionSpec => []PackagesBelong
  <1>1. SessionInv => PackagesBelong
    BY DEF SessionInv
  <1> QED BY Invariant, <1>1, PTL

-----------------------------------------------------------------------------
(* The report of an end, in a step that writes one. *)
InOrder ==
  /\ out'.kind = "end" /\ ~crossed' =>
       /\ out' = Package("end", day, visit.a, visit.account)
       /\ visit.docs => visit.written > 0
  /\ out'.kind = "dayEnd" => out'.w = day /\ visit = None

(* A visit that is ended by the plug-in that began it is reported as it is.   *)
(* Enough compares the low byte of the counter: when that is not 0 the counter *)
(* is not.                                                                    *)
LEMMA EndInOrder ==
  ASSUME SessionInv, NEW p \in Plugins, NEW keptA, EndVisit(p, keptA)
  PROVE  InOrder
  <1>1. /\ out' \in {Package("end", Deref(mem[p].w, wCookie), mem[p].a,
                            mem[p].account), Nothing}
        /\ Enough(p)
    BY DEF EndVisit, Report
  <1>2. visit \in OpenVisits /\ count = visit.written
    BY EndFacts, OpenVisit DEF SessionInv, VisitIsCurrent
  <1>3. ASSUME ~crossed', out'.kind = "end"
        PROVE  /\ out' = Package("end", day, visit.a, visit.account)
               /\ visit.docs => visit.written > 0
    <2>1. /\ day = wCookie /\ mem[p].a = visit.a /\ mem[p].account = visit.account
          /\ mem[p].docs = visit.docs /\ mem[p].w = wCookie
      BY <1>3, EndFacts
    <2>2. Deref(mem[p].w, wCookie) = day
      BY <2>1, DerefValues
    <2>3. out' = Package("end", day, visit.a, visit.account)
      BY <1>1, <1>3, <2>1, <2>2 DEF Nothing, Package
    <2>4. ASSUME visit.docs PROVE visit.written > 0
      <3>1. count % Byte > 0
        BY <1>1, <2>1, <2>4 DEF Enough
      <3>2. 0 % Byte = 0
        OBVIOUS
      <3> QED BY <1>2, <3>1, <3>2
    <2> QED BY <2>3, <2>4
  <1>4. out'.kind # "dayEnd"
    BY <1>1 DEF Nothing, Package
  <1> QED BY <1>3, <1>4 DEF InOrder

(* As long as each plug-in ends its own visits, a visit that is reported as    *)
(* ended is the one that is open, with its document if it must have one; and   *)
(* no working day is ever reported as ended under an open visit.               *)
THEOREM EndsInOrder == SessionSpec => VisitsEndInOrder
  <1>1. SessionInv /\ SessionInv' /\ [SessionNext]_sessionVars
          => [InOrder]_sessionVars
    <2> SUFFICES ASSUME SessionInv, SessionNext PROVE InOrder
      OBVIOUS
    <2>1. CASE StopActivity
      BY <2>1, EndInOrder DEF StopActivity
    <2>2. CASE StopRouteVisit
      BY <2>2, EndInOrder DEF StopRouteVisit
    <2>3. CASE StopWorkDay
      <3>1. visit = None
        BY <2>3 DEF SessionInv, VisitIsCurrent, VisitScreens, StopWorkDay
      <3> QED BY <2>3, <3>1 DEF StopWorkDay, Report, InOrder, Nothing, Package
    <2>4. CASE Launch \/ Quit \/ StartWorkDay \/ StartRoute \/ StopRoute
               \/ CancelRouteVisit \/ Tab \/ Merch \/ DayDocument
      BY <2>4
      DEF Launch, Quit, StartWorkDay, StartRoute, StopRoute, CancelRouteVisit, Tab,
          Merch, Move, DayDocument, Report, InOrder, Nothing, Package
    <2>5. CASE StartActivity \/ StartRouteVisit
      BY <2>5
      DEF StartActivity, StartRouteVisit, BeginVisit, Report, InOrder, Nothing,
          Package
    <2>6. CASE VisitDocument \/ LocationDocument
      BY <2>6 DEF VisitDocument, LocationDocument, Written, InOrder, Package
    <2> QED BY <2>1, <2>2, <2>3, <2>4, <2>5, <2>6 DEF SessionNext
  <1> QED
    BY Invariant, <1>1, PTL DEF SessionSpec, VisitsEndInOrder, InOrder
=============================================================================
