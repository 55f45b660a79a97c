----------------------------- MODULE SyncMirror -----------------------------
(***************************************************************************)
(* The sync daemon (daemons/sync/sync.cpp, SyncProc) and the download path *)
(* of daemons-host it calls: _daemons_pk_recv, FtpRecvPk, _frecv, _ftplist, *)
(* _loclist and _ftpcopy.  The daemon makes its directory a mirror of the  *)
(* server's, while the screens of terminals-host read it.                  *)
(*                                                                         *)
(* A file is downloaded under a temporary name (t#name) and then moved to  *)
(* its own; a file that cannot be deleted, because a screen has it open, is *)
(* renamed (t0#name).  Both kinds of leftovers are listed by _loclist, are  *)
(* not on the server, and go with the obsolete files of a later pass.      *)
(*                                                                         *)
(* The name of a file is that of a manual and a version; ReadOmobusManual  *)
(* opens a file by the manual's name.  The server gives new contents a new *)
(* version, and takes its flag file __unlocked__ away while it changes the *)
(* directory.  When a pass begins is the subject of Outbox: the daemon's   *)
(* event and trigger work as those of acts do.                             *)
(***************************************************************************)
EXTENDS FiniteSets, Naturals

CONSTANTS
  Names,     (* File names.                                                 *)
  ManualOf,  (* The manual of each name.                                    *)
  NoName,    (* The value of cur when no file is being downloaded.          *)
  Faults,    (* What may fail: "net", "disk", "busy".                       *)
  MaxEdits,  (* Bound on how often the server's directory is locked.        *)
  MaxStops   (* Bound on how often the daemon stops.                        *)

Manuals == {ManualOf[n] : n \in Names}

ASSUME MirrorAssumption ==
  /\ ManualOf \in [Names -> Manuals]
  /\ NoName \notin Names
  /\ MaxEdits \in Nat
  /\ MaxStops \in Nat

VARIABLES
  pc,        (* Where the daemon's thread is, "down" if there is none.      *)
  dir,       (* The local directory.                                        *)
  ftpl,      (* The list of the server's directory.                         *)
  todo,      (* Names of it that are yet to be downloaded.                  *)
  cur,       (* The name that is being downloaded.                          *)
  old,       (* Local files that are yet to be deleted.                     *)
  ok,        (* rc = OMOBUS_OK so far.                                      *)
  got,       (* Names counted in packets.                                   *)
  mark,      (* What has gone wrong unnoticed in this pass: files that were *)
             (* not moved to their name, or neither deleted nor renamed.    *)
  spared,    (* Files renamed in this pass.                                 *)
  lastSync,  (* The file that holds the date of the last sync exists.       *)
  everGot,   (* History: a pass has received a package.                     *)
  reload,    (* The terminals were told to reload their data.               *)
  remote,    (* The server's directory.                                     *)
  locked,    (* __unlocked__ is not there.                                  *)
  edits,     (* How often the server's directory was locked.                *)
  stops      (* How often the daemon has stopped.                           *)

passVars   == <<ftpl, todo, cur, old, ok, got, mark, spared>>
reportVars == <<lastSync, everGot, reload>>
serverVars == <<remote, locked, edits>>
mirrorVars == <<pc, dir, passVars, reportVars, serverVars, stops>>

Forms   == {"final", "temp", "spare"}
Entries == [name : Names, form : Forms]
(* A file is received in part, received and stored whole, or received whole *)
(* but not all of it written to the medium when it was closed.              *)
Contents   == {"part", "whole", "unflushed"}
LocalFiles == [name : Names, form : Forms, content : Contents]

Entry(e)  == [name |-> e.name, form |-> e.form]
(* Mutant: _loclist skips the names that start with a t and a hash sign. *)
ListingFinals == {Entry(e) : e \in {f \in dir : f.form = "final"}}
Listing   == {Entry(e) : e \in dir}
Finals    == {e.name : e \in {f \in dir : f.form = "final"}}
Bears(e, n, form) == e.name = n /\ e.form = form
Without(n, form)  == {e \in dir : ~Bears(e, n, form)}

(* MoveFile within the directory, where the new name is free. *)
Moved(n, from, to) ==
  Without(n, from) \cup {[e EXCEPT !.form = to] : e \in {f \in dir : Bears(f, n, from)}}

(* What t#name holds. *)
Temp(n, content) ==
  Without(n, "temp") \cup {[name |-> n, form |-> "temp", content |-> content]}

(* DeleteFile of t0#name, and MoveFile of an obsolete file to that name.  A *)
(* file that is renamed a second time (t0#t0#name) stays what it is.        *)
Spare(e) ==
  {f \in dir : Entry(f) # e /\ ~Bears(f, e.name, "spare")}
    \cup {[f EXCEPT !.form = "spare"] : f \in {g \in dir : Entry(g) = e}}

(* DeleteFile of t0#name alone. *)
Unspare(e) == {f \in dir : Entry(f) = e \/ ~Bears(f, e.name, "spare")}

(* A screen has the file open.  No screen opens a t#name. *)
Busy(e) == "busy" \in Faults /\ e \in Listing /\ e.form # "temp"

(* The locals of the pass when there is none. *)
NoPass ==
  /\ ftpl = {}
  /\ todo = {}
  /\ cur = NoName
  /\ old = {}
  /\ ok = TRUE
  /\ got = {}
  /\ mark = {}
  /\ spared = {}

(* Mutant: packets is not set to 0 again. *)
EndPassCounting ==
  /\ ftpl' = {}
  /\ todo' = {}
  /\ cur' = NoName
  /\ old' = {}
  /\ ok' = TRUE
  /\ got' = got
  /\ mark' = {}
  /\ spared' = {}

(* The locals of the pass are gone. *)
EndPass ==
  /\ ftpl' = {}
  /\ todo' = {}
  /\ cur' = NoName
  /\ old' = {}
  /\ ok' = TRUE
  /\ got' = {}
  /\ mark' = {}
  /\ spared' = {}

MirrorInit ==
  /\ pc = "down"
  /\ dir = {}
  /\ NoPass
  /\ lastSync = FALSE
  /\ everGot = FALSE
  /\ reload = FALSE
  /\ remote = {}
  /\ locked = FALSE
  /\ edits = 0
  /\ stops = 0

-----------------------------------------------------------------------------
(* The server and the terminals.                                           *)

Lock ==
  /\ ~locked
  /\ edits < MaxEdits
  /\ locked' = TRUE
  /\ edits' = edits + 1
  /\ UNCHANGED <<pc, dir, passVars, reportVars, remote, stops>>

(* A new version of a manual replaces those there are, or a manual goes. *)
Edit ==
  /\ locked
  /\ \E n \in Names :
       LET others == {x \in remote : ManualOf[x] # ManualOf[n]} IN
       remote' \in {others, others \cup {n}} \ {remote}
  /\ UNCHANGED <<pc, dir, passVars, reportVars, locked, edits, stops>>

Unlock ==
  /\ locked
  /\ locked' = FALSE
  /\ UNCHANGED <<pc, dir, passVars, reportVars, remote, edits, stops>>

(* WaitProc of terminals-host consumes the auto-reset event. *)
Reload ==
  /\ reload
  /\ reload' = FALSE
  /\ UNCHANGED <<pc, dir, passVars, lastSync, everGot, serverVars, stops>>

-----------------------------------------------------------------------------
(* The daemon.                                                             *)

Start ==
  /\ pc = "down"
  /\ pc' = "wait"
  /\ UNCHANGED <<dir, passVars, reportVars, serverVars, stops>>

(* The thread returns, is terminated or loses its process at any point. *)
Stop ==
  /\ pc # "down"
  /\ stops < MaxStops
  /\ stops' = stops + 1
  /\ pc' = "down"
  /\ EndPass
  /\ UNCHANGED <<dir, reportVars, serverVars>>

(* The event or the trigger: _daemons_pk_recv looks for a server. *)
Wake ==
  /\ pc = "wait"
  /\ pc' = "list"
  /\ UNCHANGED <<dir, passVars, reportVars, serverVars, stops>>

(* No server, no list, or a server that is busy. *)
ListNone ==
  /\ pc = "list"
  /\ locked \/ "net" \in Faults
  /\ ok' = FALSE
  /\ pc' = "report"
  /\ UNCHANGED <<dir, ftpl, todo, cur, old, got, mark, spared, reportVars,
                 serverVars, stops>>

(* Mutant: the lists are compared by manuals, not by names. *)
ListByManual ==
  /\ pc = "list"
  /\ ~locked
  /\ ftpl' = remote
  /\ todo' = {n \in remote : \A x \in Finals : ManualOf[x] # ManualOf[n]}
  /\ old' = {e \in Listing :
               e.form = "final" => \A n \in remote : ManualOf[n] # ManualOf[e.name]}
  /\ pc' = "next"
  /\ UNCHANGED <<dir, cur, ok, got, mark, spared, reportVars, serverVars,
                 stops>>

(* _loclist and _ftplist; what is to be downloaded and what is obsolete *)
(* follows from the two lists.                                          *)
List ==
  /\ pc = "list"
  /\ ~locked
  /\ ftpl' = remote
  /\ todo' = remote \ Finals
  /\ old' = {e \in Listing : ~(e.form = "final" /\ e.name \in remote)}
  /\ pc' = "next"
  /\ UNCHANGED <<dir, cur, ok, got, mark, spared, reportVars, serverVars,
                 stops>>

(* _ftpcopy creates or truncates t#name. *)
Copy(n) ==
  /\ pc = "next"
  /\ n \in todo
  /\ cur' = n
  /\ dir' = Temp(n, "part")
  /\ pc' = "copy"
  /\ UNCHANGED <<ftpl, todo, old, ok, got, mark, spared, reportVars,
                 serverVars, stops>>

(* The server has the file, and begins to send it. *)
Retrieve ==
  /\ pc = "copy"
  /\ cur \in remote
  /\ pc' = "receive"
  /\ UNCHANGED <<dir, passVars, reportVars, serverVars, stops>>

(* The file has been received to its end.  What fclose returns is not looked *)
(* at.                                                                       *)
Copied ==
  /\ pc = "receive"
  /\ \/ dir' = Temp(cur, "whole")
     \/ "disk" \in Faults /\ dir' = Temp(cur, "unflushed")
  /\ pc' = "place"
  /\ UNCHANGED <<passVars, reportVars, serverVars, stops>>

(* The server has taken the file away, the connection breaks, or the medium *)
(* does not take the data.                                                  *)
CopyBroken ==
  \/ pc = "copy" /\ cur \notin remote
  \/ pc \in {"copy", "receive"} /\ {"net", "disk"} \cap Faults # {}

(* Mutant: the file is moved to its name without a look at rc. *)
CopyFailsPlaced ==
  /\ CopyBroken
  /\ ok' = FALSE
  /\ pc' = "place"
  /\ UNCHANGED <<dir, ftpl, todo, cur, old, got, mark, spared, reportVars,
                 serverVars, stops>>

(* Mutant: the pass goes on after a download that failed. *)
CopyFailsSilent ==
  /\ CopyBroken
  /\ dir' = Without(cur, "temp")
  /\ todo' = todo \ {cur}
  /\ cur' = NoName
  /\ pc' = "next"
  /\ UNCHANGED <<ftpl, old, ok, got, mark, spared, reportVars, serverVars,
                 stops>>

(* t#name is deleted and the pass is over. *)
CopyFails ==
  /\ CopyBroken
  /\ dir' = Without(cur, "temp")
  /\ ok' = FALSE
  /\ cur' = NoName
  /\ pc' = "report"
  /\ UNCHANGED <<ftpl, todo, old, got, mark, spared, reportVars, serverVars,
                 stops>>

(* MoveFile to the name itself, which _loclist did not find; the file is *)
(* counted whether it was moved or not.                                  *)
Place ==
  /\ pc = "place"
  /\ \/ /\ dir' = Moved(cur, "temp", "final")
        /\ UNCHANGED mark
     \/ /\ "disk" \in Faults
        /\ mark' = mark \cup {[name |-> cur, form |-> "temp"]}
        /\ UNCHANGED dir
  /\ got' = got \cup {cur}
  /\ todo' = todo \ {cur}
  /\ cur' = NoName
  /\ pc' = "next"
  /\ UNCHANGED <<ftpl, old, ok, spared, reportVars, serverVars, stops>>

(* Mutant: obsolete files are deleted before the downloads. *)
PruneEarly(e) ==
  /\ pc = "next"
  /\ e \in old
  /\ old' = old \ {e}
  /\ dir' = Without(e.name, e.form)
  /\ UNCHANGED <<pc, ftpl, todo, cur, ok, got, mark, spared, reportVars,
                 serverVars, stops>>

(* After all downloads: an obsolete file is deleted, or renamed if that *)
(* fails, or left as it is.                                             *)
Prune(e) ==
  /\ pc = "next"
  /\ todo = {}
  /\ e \in old
  /\ old' = old \ {e}
  /\ \/ /\ dir' = Without(e.name, e.form)
        /\ UNCHANGED <<mark, spared>>
     \/ /\ Busy(e)
        /\ dir' = Spare(e)
        /\ spared' = spared \cup {e.name}
        /\ UNCHANGED mark
     \/ /\ Busy(e)
        /\ mark' = mark \cup {e}
        /\ dir' \in {dir, Unspare(e)}
        /\ UNCHANGED spared
  /\ UNCHANGED <<pc, ftpl, todo, cur, ok, got, reportVars, serverVars, stops>>

Pruned ==
  /\ pc = "next"
  /\ todo = {}
  /\ old = {}
  /\ pc' = "report"
  /\ UNCHANGED <<dir, passVars, reportVars, serverVars, stops>>

(* SyncProc after recv.  The date of the sync is written after a pass that *)
(* received something without an error, and after any pass if there is no  *)
(* date yet: in the end there always is one.  The terminals are told to    *)
(* reload after the passes of the first kind only.                         *)
Report ==
  /\ pc = "report"
  /\ lastSync' = TRUE
  /\ everGot' = (everGot \/ got # {})
  /\ reload' = (reload \/ (ok /\ got # {}))
  /\ pc' = "wait"
  /\ EndPass
  /\ UNCHANGED <<dir, serverVars, stops>>

-----------------------------------------------------------------------------
PassStep ==
  \/ Wake \/ ListNone \/ List
  \/ \E n \in Names : Copy(n)
  \/ Retrieve \/ Copied \/ CopyFails \/ Place
  \/ \E e \in Entries : Prune(e)
  \/ Pruned \/ Report

MirrorNext ==
  \/ Lock \/ Edit \/ Unlock \/ Reload
  \/ Start \/ Stop
  \/ PassStep

MirrorSpec == MirrorInit /\ [][MirrorNext]_mirrorVars

(***************************************************************************)
(* The daemon is started and woken again and again: sync->wakeup is not 0  *)
(* and its trigger is armed in the end, or users keep asking for a         *)
(* synchronisation.  The server is unlocked again, and what is tried again *)
(* and again works in the end: no server, disk or open file fails for ever. *)
(***************************************************************************)
MirrorFairness ==
  /\ WF_mirrorVars(Start)
  /\ WF_mirrorVars(Unlock)
  /\ WF_mirrorVars(PassStep)
  /\ SF_mirrorVars(List)
  /\ SF_mirrorVars(Retrieve)
  /\ SF_mirrorVars(Copied)
  /\ SF_mirrorVars(Place /\ mark' = mark)
  /\ SF_mirrorVars(\E e \in Entries : Prune(e) /\ e \notin Listing')

MirrorFairSpec == MirrorSpec /\ MirrorFairness

-----------------------------------------------------------------------------
(* Type correctness of the daemon's state. *)
MirrorTypeOK ==
  /\ pc \in {"down", "wait", "list", "next", "copy", "receive", "place",
            "report"}
  /\ dir \subseteq LocalFiles
  /\ todo \subseteq ftpl
  /\ ftpl \subseteq Names
  /\ cur \in todo \cup {NoName}
  /\ old \subseteq Entries
  /\ ok \in BOOLEAN
  /\ got \subseteq ftpl
  /\ mark \subseteq Entries
  /\ spared \subseteq Names
  /\ {lastSync, everGot, reload, locked} \subseteq BOOLEAN
  /\ remote \subseteq Names
  /\ edits \in 0 .. MaxEdits
  /\ stops \in 0 .. MaxStops

(* A screen never reads a torn file: what bears the name of a manual was     *)
(* received to its end, whenever the pass was interrupted and whatever that  *)
(* left behind.                                                              *)
FinalIsWhole == \A e \in dir : e.form = "final" => e.content # "part"

(* A manual that is on the device does not vanish while the server has one:  *)
(* the version at hand is deleted only after a new one bears its name.  Only *)
(* a MoveFile that fails unnoticed breaks this.                              *)
Has(m)     == \E n \in Finals : ManualOf[n] = m
Misplaced  == \E e \in mark : e.form = "temp"
ManualKept ==
  [][\A m \in Manuals :
       Has(m) /\ ~Has(m)' => Misplaced \/ \A n \in ftpl : ManualOf[n] # m]_mirrorVars

(* A pass that reports success has made the directory a mirror of the list   *)
(* the server gave, but for files that could not be moved or are open.       *)
OkMeansMirrored ==
  pc = "report" /\ ok =>
    /\ \A n \in ftpl \ Finals : [name |-> n, form |-> "temp"] \in mark
    /\ \A n \in Finals \ ftpl : [name |-> n, form |-> "final"] \in mark

(* Leftovers do not pile up: after a pass that reports success there are no  *)
(* others than those of this pass.                                           *)
LeftoversGo ==
  pc = "report" /\ ok =>
    \A e \in dir : e.form # "final" => Entry(e) \in mark \/ e.name \in spared

(* When the server's directory no longer changes the device gets to hold the *)
(* same files.                                                               *)
Converges == <>[](Finals = remote)

(* "Сохранение даты получения пакета" (sync.cpp:156): the date of the last   *)
(* sync, which sync_status shows, is the date of a package that was received. *)
LastSyncIsReceipt == lastSync => everGot
=============================================================================
