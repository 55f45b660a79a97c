-------------------------- MODULE SyncMirrorProofs --------------------------
(***************************************************************************)
(* Proofs about SyncMirror, for every set of files and manuals, whatever   *)
(* may fail, however often the server changes and the daemon stops.        *)
(***************************************************************************)
EXTENDS SyncMirror, TLAPS

(***************************************************************************)
(* The inductive invariant.                                                *)
(***************************************************************************)

(* A pass between its two lists and its end, without an error so far. *)
Listed ==
  \/ pc \in {"next", "copy", "receive", "place"}
  \/ pc = "report" /\ ok

(* The locals of the pass: none before the lists, a current file exactly    *)
(* while it is downloaded, and an end without an error after all work only. *)
PassIsReal ==
  /\ pc \in {"down", "wait", "list"} => NoPass
  /\ pc \in {"next", "copy", "receive", "place"} => ok
  /\ pc \in {"copy", "receive", "place"} <=> cur # NoName
  /\ pc = "report" /\ ok => todo = {} /\ old = {}

(* While a file is downloaded its t#name is there, and what _ftpcopy hands *)
(* over to MoveFile was received to its end.                               *)
TempReceived ==
  /\ pc \in {"copy", "receive", "place"} => \E e \in dir : Bears(e, cur, "temp")
  /\ pc = "place" => \A e \in dir : Bears(e, cur, "temp") => e.content # "part"

(* A file of the server's list that is not to be downloaded any more is     *)
(* there, or MoveFile failed at it.                                         *)
Downloaded ==
  \A n \in ftpl \ todo : n \in Finals \/ [name |-> n, form |-> "temp"] \in mark

(* A file that is neither on the server's list nor obsolete any more is gone, *)
(* or could not be deleted.                                                   *)
ObsoleteGoes ==
  Listed => \A n \in Finals \ ftpl : [name |-> n, form |-> "final"] \in old \cup mark

(* A file of the server's list is never obsolete. *)
ListedStays == \A e \in old : e.form = "final" => e.name \notin ftpl

(* A leftover is obsolete, could not be deleted, was renamed in this pass or *)
(* is the file that is being received.                                       *)
LeftoversKnown ==
  Listed =>
    \A e \in dir : e.form # "final" =>
      \/ Entry(e) \in old \cup mark
      \/ e.name \in spared
      \/ e.name = cur /\ e.form = "temp"

MirrorInv ==
  /\ MirrorTypeOK
  /\ PassIsReal
  /\ FinalIsWhole
  /\ TempReceived
  /\ Downloaded
  /\ ObsoleteGoes
  /\ ListedStays
  /\ LeftoversKnown

-----------------------------------------------------------------------------
(***************************************************************************)
(* The directory.                                                          *)
(***************************************************************************)

(* The finals are the names of the final files. *)
LEMMA FinalsAre ==
  ASSUME NEW n
  PROVE  n \in Finals <=> \E e \in dir : e.form = "final" /\ e.name = n
BY DEF Finals

(* A file that is received, deleted or renamed is one of a name and a form. *)
LEMMA WithoutType ==
  ASSUME dir \subseteq LocalFiles, NEW n, NEW form
  PROVE  Without(n, form) \subseteq LocalFiles
BY DEF Without

(* A file that is received is one of a name and a form. *)
LEMMA TempType ==
  ASSUME dir \subseteq LocalFiles, NEW n \in Names, NEW content \in Contents
  PROVE  Temp(n, content) \subseteq LocalFiles
BY DEF Temp, Without, LocalFiles, Forms

(* So is one that is renamed. *)
LEMMA MovedType ==
  ASSUME dir \subseteq LocalFiles, NEW n, NEW from, NEW to \in Forms
  PROVE  Moved(n, from, to) \subseteq LocalFiles
<1>1. \A f \in dir : [f EXCEPT !.form = to] \in LocalFiles
  BY DEF LocalFiles
<1> QED
  BY <1>1 DEF Moved, Without

(* So is one that is set aside, over whatever had its new name. *)
LEMMA SpareType ==
  ASSUME dir \subseteq LocalFiles, NEW e
  PROVE  Spare(e) \subseteq LocalFiles /\ Unspare(e) \subseteq LocalFiles
<1>1. \A f \in dir : [f EXCEPT !.form = "spare"] \in LocalFiles
  BY DEF LocalFiles, Forms
<1> QED
  BY <1>1 DEF Spare, Unspare

(* A renamed file bears the name it was given, every other is what it was. *)
LEMMA SpareHolds ==
  ASSUME dir \subseteq LocalFiles, NEW e, NEW f \in Spare(e)
  PROVE  \/ f \in dir /\ Entry(f) # e
         \/ f.form = "spare" /\ f.name = e.name
<1>1. CASE f \in dir /\ Entry(f) # e
  BY <1>1
<1>2. ASSUME NEW g \in dir, Entry(g) = e, f = [g EXCEPT !.form = "spare"]
      PROVE  f.form = "spare" /\ f.name = e.name
  BY <1>2 DEF Entry, LocalFiles
<1> QED
  BY <1>1, <1>2 DEF Spare

(* Every step keeps the types. *)
LEMMA TypeStep ==
  ASSUME MirrorTypeOK, PassIsReal, [MirrorNext]_mirrorVars
  PROVE  MirrorTypeOK'
<1> USE MirrorAssumption
    DEF MirrorTypeOK, PassIsReal, NoPass, EndPass, passVars, reportVars, serverVars
<1>1. CASE Lock
  <2>1. edits' \in 0 .. MaxEdits
    BY <1>1 DEF Lock
  <2> QED
    BY <1>1, <2>1 DEF Lock
<1>2. CASE Edit \/ Unlock \/ Reload
  <2>1. CASE Edit
    BY <2>1 DEF Edit
  <2> QED
    BY <1>2, <2>1 DEF Unlock, Reload
<1>3. CASE Start \/ Wake \/ Retrieve \/ Pruned \/ ListNone \/ UNCHANGED mirrorVars
  BY <1>3 DEF Start, Wake, Retrieve, Pruned, ListNone, mirrorVars
<1>4. CASE Stop
  <2>1. stops' \in 0 .. MaxStops
    BY <1>4 DEF Stop
  <2> QED
    BY <1>4, <2>1 DEF Stop
<1>5. CASE Report
  <2>1. {lastSync', everGot', reload', locked'} \subseteq BOOLEAN
    BY <1>5 DEF Report
  <2> QED
    BY <1>5, <2>1 DEF Report
<1>6. CASE List
  <2>1. old' \subseteq Entries
    BY <1>6 DEF List, Listing, Entry, LocalFiles, Entries
  <2> QED
    BY <1>6, <2>1 DEF List
<1>7. ASSUME NEW n \in Names, Copy(n)
      PROVE  MirrorTypeOK'
  <2>1. dir' \subseteq LocalFiles
    BY <1>7, TempType DEF Copy, Contents
  <2> QED
    BY <1>7, <2>1 DEF Copy
<1>8. CASE Copied
  <2>1. dir' \subseteq LocalFiles
    BY <1>8, TempType DEF Copied, Contents
  <2> QED
    BY <1>8, <2>1 DEF Copied
<1>9. CASE CopyFails
  <2>1. dir' \subseteq LocalFiles
    BY <1>9, WithoutType DEF CopyFails
  <2> QED
    BY <1>9, <2>1 DEF CopyFails
<1>10. CASE Place
  <2>1. dir' \subseteq LocalFiles
    BY <1>10, MovedType DEF Place, Forms
  <2>2. mark' \subseteq Entries
    BY <1>10 DEF Place, Entries, Forms
  <2> QED
    BY <1>10, <2>1, <2>2 DEF Place
<1>11. ASSUME NEW e \in Entries, Prune(e)
       PROVE  MirrorTypeOK'
  <2>1. dir' \subseteq LocalFiles
    BY <1>11, WithoutType, SpareType DEF Prune
  <2>2. e.name \in Names
    BY DEF Entries
  <2> QED
    BY <1>11, <2>1, <2>2 DEF Prune
<1> QED
  BY <1>1, <1>2, <1>3, <1>4, <1>5, <1>6, <1>7, <1>8, <1>9, <1>10, <1>11
     DEF MirrorNext, PassStep

-----------------------------------------------------------------------------
(***************************************************************************)
(* The other parts of the invariant.                                       *)
(***************************************************************************)

(* Every step keeps the locals of the pass. *)
LEMMA PassStepReal ==
  ASSUME MirrorTypeOK, PassIsReal, [MirrorNext]_mirrorVars
  PROVE  PassIsReal'
<1> USE MirrorAssumption
    DEF MirrorTypeOK, PassIsReal, NoPass, EndPass, passVars, reportVars, serverVars
<1>1. CASE Lock \/ Edit \/ Unlock \/ Reload \/ UNCHANGED mirrorVars
  BY <1>1 DEF Lock, Edit, Unlock, Reload, mirrorVars
<1>2. CASE Start \/ Stop \/ Wake \/ Report
  BY <1>2 DEF Start, Stop, Wake, Report
<1>3. CASE ListNone \/ List \/ Pruned
  BY <1>3 DEF ListNone, List, Pruned
<1>4. CASE Retrieve \/ Copied \/ CopyFails \/ Place
  BY <1>4 DEF Retrieve, Copied, CopyFails, CopyBroken, Place
<1>5. ASSUME NEW n \in Names, Copy(n)
      PROVE  PassIsReal'
  BY <1>5 DEF Copy
<1>6. ASSUME NEW e \in Entries, Prune(e)
      PROVE  PassIsReal'
  BY <1>6 DEF Prune
<1> QED
  BY <1>1, <1>2, <1>3, <1>4, <1>5, <1>6 DEF MirrorNext, PassStep

(* No step puts a torn file under the name of a manual. *)
LEMMA WholeStep ==
  ASSUME MirrorInv, [MirrorNext]_mirrorVars
  PROVE  FinalIsWhole' /\ TempReceived'
<1> USE MirrorAssumption
    DEF MirrorInv, MirrorTypeOK, FinalIsWhole, TempReceived, PassIsReal
<1>1. CASE \/ Lock \/ Edit \/ Unlock \/ Reload \/ Start \/ Stop \/ Wake \/ ListNone
            \/ List \/ Retrieve \/ Pruned \/ Report \/ UNCHANGED mirrorVars
  BY <1>1 DEF Lock, Edit, Unlock, Reload, Start, Stop, Wake, ListNone, List, Retrieve,
              Pruned, Report, EndPass, mirrorVars, passVars
<1>2. ASSUME NEW n \in Names, Copy(n)
      PROVE  FinalIsWhole' /\ TempReceived'
  <2>1. [name |-> n, form |-> "temp", content |-> "part"] \in dir'
    BY <1>2 DEF Copy, Temp
  <2>2. cur' = n /\ pc' = "copy"
    BY <1>2 DEF Copy
  <2>3. TempReceived'
    BY <2>1, <2>2 DEF Bears
  <2> QED
    BY <1>2, <2>3 DEF Copy, Temp, Without
<1>3. CASE Copied
  <2>1. PICK content \in {"whole", "unflushed"} : dir' = Temp(cur, content)
    BY <1>3 DEF Copied
  <2>2. [name |-> cur, form |-> "temp", content |-> content] \in dir'
    BY <2>1 DEF Temp
  <2>3. cur' = cur /\ pc' = "place"
    BY <1>3 DEF Copied, passVars
  <2>4. \A e \in dir' : Bears(e, cur, "temp") => e.content = content
    BY <2>1 DEF Temp, Without, Bears
  <2>5. \E e \in dir' : Bears(e, cur, "temp")
    BY <2>2 DEF Bears
  <2>6. TempReceived'
    BY <2>3, <2>4, <2>5 DEF Bears
  <2> QED
    BY <2>1, <2>6 DEF Temp, Without
<1>4. CASE CopyFails
  BY <1>4 DEF CopyFails, Without
<1>5. CASE Place
  BY <1>5 DEF Place, Moved, Without, Bears, LocalFiles
<1>6. ASSUME NEW e \in Entries, Prune(e)
      PROVE  FinalIsWhole' /\ TempReceived'
  BY <1>6 DEF Prune, Without, Spare, Unspare, LocalFiles
<1> QED
  BY <1>1, <1>2, <1>3, <1>4, <1>5, <1>6 DEF MirrorNext, PassStep

(* Steps that leave the directory and what the pass is yet to do alone. *)
Aside ==
  \/ Lock \/ Edit \/ Unlock \/ Reload \/ Start \/ Wake \/ Retrieve
  \/ UNCHANGED mirrorVars

(* Steps besides the work of the pass leave the files and the lists. *)
LEMMA AsideStep ==
  ASSUME Aside
  PROVE  /\ UNCHANGED <<dir, ftpl, todo, cur, old, ok, mark, spared>>
         /\ pc' = pc \/ (pc' = "receive" /\ pc = "copy") \/ pc' \in {"wait", "list"}
BY DEF Aside, Lock, Edit, Unlock, Reload, Start, Wake, Retrieve, mirrorVars, passVars,
       reportVars, serverVars

(* A file leaves the list of downloads when it is there. *)
LEMMA DownloadedStep ==
  ASSUME MirrorInv, [MirrorNext]_mirrorVars
  PROVE  Downloaded'
<1> USE MirrorAssumption DEF MirrorInv, MirrorTypeOK, Downloaded, PassIsReal, EndPass
<1>0. \A n : n \in Finals' <=> \E f \in dir' : f.form = "final" /\ f.name = n
  BY DEF Finals
<1>1. CASE Aside
  BY <1>1, AsideStep DEF Finals
<1>2. CASE Stop \/ Report
  BY <1>2 DEF Stop, Report
<1>3. CASE ListNone \/ Pruned
  BY <1>3 DEF ListNone, Pruned, passVars, Finals
<1>4. CASE List
  BY <1>4 DEF List, Finals
<1>5. ASSUME NEW n \in Names, Copy(n)
      PROVE  Downloaded'
  <2>1. \A m \in Finals : m \in Finals'
    BY <1>0, <1>5, FinalsAre DEF Copy, Temp, Without, Bears
  <2> QED
    BY <1>5, <2>1 DEF Copy
<1>6. CASE Copied
  <2>1. \A m \in Finals : m \in Finals'
    BY <1>0, <1>6, FinalsAre DEF Copied, Temp, Without, Bears
  <2> QED
    BY <1>6, <2>1 DEF Copied, passVars
<1>7. CASE CopyFails
  <2>1. \A m \in Finals : m \in Finals'
    BY <1>0, <1>7, FinalsAre DEF CopyFails, Without, Bears
  <2> QED
    BY <1>7, <2>1 DEF CopyFails
<1>8. CASE Place
  <2>1. CASE UNCHANGED dir /\ mark' = mark \cup {[name |-> cur, form |-> "temp"]}
    BY <1>8, <2>1 DEF Place, Finals
  <2>2. CASE dir' = Moved(cur, "temp", "final") /\ UNCHANGED mark
    <3>1. \A m \in Finals : m \in Finals'
      BY <1>0, <2>2, FinalsAre DEF Moved, Without, Bears
    <3>2. PICK e \in dir : Bears(e, cur, "temp")
      BY <1>8 DEF Place, TempReceived
    <3>3. [e EXCEPT !.form = "final"] \in dir'
      BY <2>2, <3>2 DEF Moved
    <3>4. cur \in Finals'
      BY <1>0, <3>2, <3>3 DEF Bears, LocalFiles
    <3> QED
      BY <1>8, <2>2, <3>1, <3>4 DEF Place
  <2> QED
    BY <1>8, <2>1, <2>2 DEF Place
<1>9. ASSUME NEW e \in Entries, Prune(e)
      PROVE  Downloaded'
  <2>1. \A m \in Finals : m \in Finals' \/ (e.form = "final" /\ m = e.name)
    BY <1>0, <1>9, FinalsAre DEF Prune, Without, Spare, Unspare, Bears, Entry
  <2> QED
    BY <1>9, <2>1 DEF Prune, ListedStays
<1> QED
  BY <1>1, <1>2, <1>3, <1>4, <1>5, <1>6, <1>7, <1>8, <1>9
     DEF MirrorNext, PassStep, Aside

(* A file becomes obsolete with the lists, and leaves when it is gone. *)
LEMMA ObsoleteStep ==
  ASSUME MirrorInv, [MirrorNext]_mirrorVars
  PROVE  ObsoleteGoes' /\ ListedStays'
<1> USE MirrorAssumption
    DEF MirrorInv, MirrorTypeOK, ObsoleteGoes, ListedStays, PassIsReal, EndPass, Listed
<1>0. \A n : n \in Finals' <=> \E f \in dir' : f.form = "final" /\ f.name = n
  BY DEF Finals
<1>1. CASE Aside
  BY <1>1, AsideStep DEF Finals
<1>2. CASE Stop \/ Report
  BY <1>2 DEF Stop, Report
<1>3. CASE ListNone \/ Pruned
  BY <1>3 DEF ListNone, Pruned, passVars, Finals
<1>4. CASE List
  <2>1. ListedStays'
    BY <1>4 DEF List
  <2>2. ASSUME NEW n \in Finals \ remote
        PROVE  [name |-> n, form |-> "final"] \in old'
    <3>1. PICK f \in dir : f.form = "final" /\ f.name = n
      BY <2>2 DEF Finals
    <3>2. [name |-> n, form |-> "final"] \in Listing
      BY <3>1 DEF Listing, Entry
    <3> QED
      BY <1>4, <2>2, <3>2 DEF List
  <2> QED
    BY <1>4, <2>1, <2>2 DEF List, Finals
<1>5. ASSUME NEW n \in Names, Copy(n)
      PROVE  ObsoleteGoes' /\ ListedStays'
  <2>1. \A m \in Finals' : m \in Finals
    BY <1>0, <1>5, FinalsAre DEF Copy, Temp, Without, Bears
  <2> QED
    BY <1>5, <2>1 DEF Copy
<1>6. CASE Copied
  <2>1. \A m \in Finals' : m \in Finals
    BY <1>0, <1>6, FinalsAre DEF Copied, Temp, Without, Bears
  <2> QED
    BY <1>6, <2>1 DEF Copied, passVars
<1>7. CASE CopyFails
  BY <1>7 DEF CopyFails
<1>8. CASE Place
  <2>1. \A m \in Finals' : m \in Finals \/ m = cur
    BY <1>0, <1>8, FinalsAre DEF Place, Moved, Without, Bears, LocalFiles
  <2>2. cur \in ftpl
    BY <1>8 DEF Place
  <2> QED
    BY <1>8, <2>1, <2>2 DEF Place
<1>9. ASSUME NEW e \in Entries, Prune(e)
      PROVE  ObsoleteGoes' /\ ListedStays'
  <2>1. /\ pc = "next" /\ e \in old /\ old' = old \ {e}
        /\ UNCHANGED <<pc, ftpl>> /\ mark \subseteq mark'
    BY <1>9 DEF Prune
  <2>2. \A m \in Finals' : m \in Finals
    BY <1>0, <1>9, FinalsAre DEF Prune, Without, Spare, Unspare, LocalFiles
  <2>3. ASSUME NEW m \in Finals', e = [name |-> m, form |-> "final"]
        PROVE  e \in mark'
    <3>1. PICK f \in dir' : f.form = "final" /\ f.name = m
      BY <1>0
    <3>2. Entry(f) = e
      BY <2>3, <3>1 DEF Entry
    <3>3. f \notin Without(e.name, e.form)
      BY <2>3, <3>1 DEF Without, Bears
    <3>4. f \notin Spare(e)
      BY <3>1, <3>2, SpareHolds
    <3> QED
      BY <1>9, <3>3, <3>4 DEF Prune
  <2> QED
    BY <2>1, <2>2, <2>3
<1> QED
  BY <1>1, <1>2, <1>3, <1>4, <1>5, <1>6, <1>7, <1>8, <1>9
     DEF MirrorNext, PassStep, Aside

(* A leftover that is found is deleted, renamed or marked. *)
LEMMA LeftoversStep ==
  ASSUME MirrorInv, [MirrorNext]_mirrorVars
  PROVE  LeftoversKnown'
<1> USE MirrorAssumption
    DEF MirrorInv, MirrorTypeOK, LeftoversKnown, PassIsReal, EndPass, Listed
<1>1. CASE Aside
  BY <1>1, AsideStep DEF Entry
<1>2. CASE Stop \/ Report \/ ListNone
  BY <1>2 DEF Stop, Report, ListNone
<1>3. CASE Pruned
  BY <1>3 DEF Pruned, passVars, Entry
<1>4. CASE List
  BY <1>4 DEF List, Listing, Entry
<1>5. ASSUME NEW n \in Names, Copy(n)
      PROVE  LeftoversKnown'
  <2>1. pc = "next" /\ cur = NoName /\ cur' = n /\ UNCHANGED <<old, mark, spared>>
    BY <1>5 DEF Copy
  <2>2. \A f \in dir' : f \in dir \/ (f.name = n /\ f.form = "temp")
    BY <1>5 DEF Copy, Temp, Without
  <2>3. \A f \in dir : f.name # NoName
    BY DEF LocalFiles
  <2> QED
    BY <2>1, <2>2, <2>3 DEF Entry
<1>6. CASE Copied
  BY <1>6 DEF Copied, Temp, Without, Bears, Entry, passVars
<1>7. CASE CopyFails
  BY <1>7 DEF CopyFails
<1>8. CASE Place
  BY <1>8 DEF Place, Moved, Without, Bears, Entry, LocalFiles
<1>9. ASSUME NEW e \in Entries, Prune(e)
      PROVE  LeftoversKnown'
  <2>1. /\ pc = "next" /\ e \in old /\ old' = old \ {e} /\ cur = NoName
        /\ UNCHANGED <<pc, cur>> /\ mark \subseteq mark' /\ spared \subseteq spared'
    BY <1>9 DEF Prune
  <2>2. ASSUME NEW f \in dir', f.form # "final", Entry(f) # e
        PROVE  Entry(f) \in old' \cup mark' \/ f.name \in spared'
    BY <1>9, <2>1, <2>2 DEF Prune, Without, Spare, Unspare, Bears, Entry, LocalFiles, Entries
  <2>3. ASSUME NEW f \in dir', f.form # "final", Entry(f) = e
        PROVE  e \in mark' \/ f.name \in spared'
    BY <1>9, <2>3 DEF Prune, Without, Bears, Entry, Spare, LocalFiles, Entries
  <2> QED
    BY <2>1, <2>2, <2>3
<1> QED
  BY <1>1, <1>2, <1>3, <1>4, <1>5, <1>6, <1>7, <1>8, <1>9
     DEF MirrorNext, PassStep, Aside

(* The initial states satisfy the invariant. *)
LEMMA InitInv == MirrorInit => MirrorInv
<1> SUFFICES ASSUME MirrorInit
             PROVE  MirrorInv
  OBVIOUS
<1>1. MirrorTypeOK
  <2>1. edits \in 0 .. MaxEdits /\ stops \in 0 .. MaxStops
    BY MirrorAssumption DEF MirrorInit
  <2> QED
    BY <2>1 DEF MirrorInit, NoPass, MirrorTypeOK
<1>2. PassIsReal /\ FinalIsWhole /\ TempReceived
  BY DEF MirrorInit, NoPass, PassIsReal, FinalIsWhole, TempReceived
<1>3. Downloaded /\ ObsoleteGoes /\ ListedStays /\ LeftoversKnown
  BY DEF MirrorInit, NoPass, Downloaded, ObsoleteGoes, Listed, ListedStays,
         LeftoversKnown
<1> QED
  BY <1>1, <1>2, <1>3 DEF MirrorInv

(* MirrorInv is an invariant of the mirror. *)
LEMMA Invariance == MirrorSpec => []MirrorInv
<1>1. MirrorInv /\ [MirrorNext]_mirrorVars => MirrorInv'
  <2> SUFFICES ASSUME MirrorInv, [MirrorNext]_mirrorVars
               PROVE  MirrorInv'
    OBVIOUS
  <2>1. MirrorTypeOK' /\ PassIsReal'
    BY TypeStep, PassStepReal DEF MirrorInv
  <2>2. FinalIsWhole' /\ TempReceived' /\ Downloaded'
    BY WholeStep, DownloadedStep
  <2>3. ObsoleteGoes' /\ ListedStays' /\ LeftoversKnown'
    BY ObsoleteStep, LeftoversStep
  <2> QED
    BY <2>1, <2>2, <2>3 DEF MirrorInv
<1> QED
  BY <1>1, InitInv, PTL DEF MirrorSpec

-----------------------------------------------------------------------------
(***************************************************************************)
(* The theorems.                                                           *)
(***************************************************************************)

(* The state of the sync daemon, its lists and its directory, is always *)
(* well formed.                                                         *)
THEOREM TypeCorrect == MirrorSpec => []MirrorTypeOK
BY Invariance, PTL DEF MirrorInv

(* A screen never reads a torn file: a download gets the name of its manual *)
(* only after _frecv received it to its end, wherever a pass breaks off;    *)
(* the one exception is a file that fclose could not flush.                 *)
THEOREM ManualsAreWhole == MirrorSpec => []FinalIsWhole
BY Invariance, PTL DEF MirrorInv

(* The result of FtpRecvPk is true: OMOBUS_OK means that the directory is a *)
(* mirror of the server's list, but for files MoveFile or DeleteFile failed *)
(* at.                                                                      *)
THEOREM ResultIsTrue == MirrorSpec => []OkMeansMirrored
<1>1. MirrorInv => OkMeansMirrored
  BY DEF MirrorInv, PassIsReal, Downloaded, ObsoleteGoes, Listed, OkMeansMirrored
<1> QED
  BY <1>1, Invariance, PTL

(* Temporary and renamed files do not pile up: _loclist lists them, so the  *)
(* next pass that succeeds removes them.                                    *)
THEOREM NoLeftovers == MirrorSpec => []LeftoversGo
<1>1. MirrorInv => LeftoversGo
  <2> SUFFICES ASSUME MirrorInv, pc = "report", ok, NEW e \in dir, e.form # "final"
               PROVE  Entry(e) \in mark \/ e.name \in spared
    BY DEF LeftoversGo
  <2>1. old = {} /\ cur = NoName
    BY DEF MirrorInv, PassIsReal
  <2>2. e.name # NoName
    BY MirrorAssumption DEF MirrorInv, MirrorTypeOK, LocalFiles
  <2> QED
    BY <2>1, <2>2 DEF MirrorInv, LeftoversKnown, Listed
<1> QED
  BY <1>1, Invariance, PTL

(* No step takes away the only file of a manual the server's list has:       *)
(* obsolete versions are deleted after all downloads of the pass, and a name *)
(* on the list is never obsolete.                                            *)
THEOREM ManualIsKept == MirrorSpec => ManualKept
<1> DEFINE Kept == \A m \in Manuals :
                     Has(m) /\ ~Has(m)' => Misplaced \/ \A n \in ftpl : ManualOf[n] # m
<1>1. MirrorInv /\ [MirrorNext]_mirrorVars => [Kept]_mirrorVars
  <2> SUFFICES ASSUME MirrorInv, MirrorNext, NEW m \in Manuals, Has(m), ~Has(m)',
                      ~Misplaced, NEW n \in ftpl, ManualOf[n] = m
               PROVE  FALSE
    OBVIOUS
  <2>0. \A x : x \in Finals' <=> \E f \in dir' : f.form = "final" /\ f.name = x
    BY DEF Finals
  <2>1. PICK x \in Finals : ManualOf[x] = m /\ x \notin Finals'
    BY DEF Has
  <2>2. PICK e \in Entries : Prune(e) /\ e.form = "final" /\ e.name = x
    <3>1. CASE \/ Aside \/ Stop \/ Report \/ ListNone \/ List \/ Pruned
      BY <2>1, <3>1, AsideStep DEF Stop, Report, ListNone, List, Pruned, Finals
    <3>2. CASE \/ Copied \/ CopyFails \/ Place \/ \E k \in Names : Copy(k)
      BY <2>0, <2>1, <3>2, FinalsAre
         DEF Copied, CopyFails, Place, Copy, Temp, Moved, Without, Bears
    <3>3. ASSUME NEW e \in Entries, Prune(e), ~(e.form = "final" /\ e.name = x)
          PROVE  FALSE
      BY <2>0, <2>1, <3>3, FinalsAre
         DEF Prune, Without, Spare, Unspare, Bears, Entry
    <3> QED
      BY <3>1, <3>2, <3>3 DEF MirrorNext, PassStep, Aside
  <2>3. n # x
    BY <2>2 DEF MirrorInv, ListedStays, Prune
  <2>4. n \in Finals
    <3>1. [name |-> n, form |-> "temp"] \notin mark
      <4>1. [name |-> n, form |-> "temp"].form = "temp"
        OBVIOUS
      <4> QED
        BY <4>1 DEF Misplaced
    <3>2. todo = {}
      BY <2>2 DEF Prune
    <3> QED
      BY <3>1, <3>2 DEF MirrorInv, Downloaded
  <2>5. n \in Finals'
    BY <2>0, <2>2, <2>3, <2>4, FinalsAre DEF Prune, Without, Spare, Unspare, Bears, Entry
  <2> QED
    BY <2>5 DEF Has
<1> QED
  BY <1>1, Invariance, PTL DEF MirrorSpec, ManualKept
=============================================================================
