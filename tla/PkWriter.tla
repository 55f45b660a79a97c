------------------------------ MODULE PkWriter ------------------------------
(***************************************************************************)
(* libomobus/WriteOmobusXmlPk.cpp: how the threads of daemons-host and     *)
(* terminals-host put a package into a profile directory (acts or docs).   *)
(*                                                                         *)
(* A package is first written to a hidden file whose name starts with a    *)
(* dot and carries no time, then moved to its final name.  The number in   *)
(* both names comes from a static counter of the library, one per process, *)
(* which starts at zero with the process; the time in the final name is    *)
(* the wall clock in seconds.  The caller is told OMOBUS_OK even when the  *)
(* final MoveFile or the flush done by pkclose fails.                      *)
(***************************************************************************)
EXTENDS Naturals, FiniteSets

CONSTANTS
  Procs,     (* The processes that load the library.                        *)
  Writers,   (* The threads that call WriteOmobusXmlPk.                     *)
  ProcOf,    (* The process of each thread.                                 *)
  KindOf,    (* The "name" argument of each thread: order, exchange, ...    *)
  Packages,  (* The documents and activities to write, each written once.   *)
  NoPackage, (* What an idle thread writes.                                 *)
  Faults,    (* What may go wrong: "media", "move", "flush", "clock".       *)
  MaxClock   (* Bound of the wall clock.                                    *)

Kinds == {KindOf[w] : w \in Writers}
Exts  == {"gz", "xml"}

(***************************************************************************)
(* Every kind of package is written by one process.  sys_proc, which both  *)
(* hosts write when they start and stop, is outside this module.           *)
(***************************************************************************)
ASSUME WriterAssumption ==
  /\ ProcOf \in [Writers -> Procs]
  /\ MaxClock \in Nat
  /\ NoPackage \notin Packages
  /\ \A v, w \in Writers : KindOf[v] = KindOf[w] => ProcOf[v] = ProcOf[w]

VARIABLES
  clock,      (* The wall clock, in seconds (omobus_time).                  *)
  up,         (* The processes that run.                                    *)
  since,      (* When each process started, or stopped if it is down.       *)
  pknum,      (* _pkNum of each process.                                    *)
  call,       (* The locals of each thread's call, Idle outside of one.     *)
  temp,       (* Hidden files of the directory.                             *)
  visible,    (* Files of the directory under a final name.                 *)
  fresh,      (* Packages no call has been made for.                        *)
  stored,     (* Packages whose caller was told OMOBUS_OK.                  *)
  published,  (* History: every file that ever got a final name.            *)
  happened    (* History: the faults there were but for those of the medium. *)

procVars  == <<clock, up, since, pknum>>
fileVars  == <<temp, visible, published>>
writerVars == <<procVars, call, fileVars, fresh, stored, happened>>

Calls == [at : {"idle", "open", "write", "close", "move"},
          pkg : Packages \cup {NoPackage}, num : Nat, ext : Exts, stamp : Nat]
TempFiles == [kind : Kinds, num : Nat, ext : Exts, pkg : Packages, whole : BOOLEAN]
Files     == [kind : Kinds, num : Nat, ext : Exts, stamp : Nat,
              pkg : Packages, whole : BOOLEAN]

Idle == [at |-> "idle", pkg |-> NoPackage, num |-> 0, ext |-> "gz", stamp |-> 0]

(* The hidden files that bear the temporary name of w's attempt (pknt). *)
TempOf(w) ==
  {t \in temp : /\ t.kind = KindOf[w]
                /\ t.num = call[w].num
                /\ t.ext = call[w].ext}

(* The hidden file of w's attempt, with its content complete or not. *)
TempFile(w, whole) ==
  [kind |-> KindOf[w], num |-> call[w].num, ext |-> call[w].ext,
   pkg |-> call[w].pkg, whole |-> whole]

(* Mutant: the final name carries no time. *)
FinalUntimed(w, t) ==
  [kind |-> KindOf[w], num |-> call[w].num, ext |-> call[w].ext,
   stamp |-> 0, pkg |-> t.pkg, whole |-> t.whole]

(* What MoveFile makes of the hidden file t: the same content under pkn. *)
Final(w, t) ==
  [kind |-> KindOf[w], num |-> call[w].num, ext |-> call[w].ext,
   stamp |-> call[w].stamp, pkg |-> t.pkg, whole |-> t.whole]

SameName(f, g) ==
  /\ f.kind = g.kind
  /\ f.num = g.num
  /\ f.ext = g.ext
  /\ f.stamp = g.stamp

Fault(what) == happened' = happened \cup {what}

-----------------------------------------------------------------------------
WriterInit ==
  /\ clock = 1
  /\ up = {}
  /\ since = [p \in Procs |-> 0]
  /\ pknum = [p \in Procs |-> 0]
  /\ call = [w \in Writers |-> Idle]
  /\ temp = {}
  /\ visible = {}
  /\ fresh = Packages
  /\ stored = {}
  /\ published = {}
  /\ happened = {}

(* Mutant: the counter is read, not incremented under an interlock. *)
BeginShared(w, k) ==
  LET p == ProcOf[w] IN
  /\ p \in up
  /\ call[w].at = "idle"
  /\ k \in fresh
  /\ fresh' = fresh \ {k}
  /\ call' = [call EXCEPT ![w] = [at |-> "open", pkg |-> k, num |-> pknum[p] + 1,
                                  ext |-> "gz", stamp |-> 0]]
  /\ UNCHANGED <<procVars, fileVars, stored, happened>>

(* WriteOmobusXmlPk is called: the thread draws its number. *)
Begin(w, k) ==
  LET p == ProcOf[w] IN
  /\ p \in up
  /\ call[w].at = "idle"
  /\ k \in fresh
  /\ fresh' = fresh \ {k}
  /\ pknum' = [pknum EXCEPT ![p] = @ + 1]
  /\ call' = [call EXCEPT ![w] = [at |-> "open", pkg |-> k, num |-> pknum[p] + 1,
                                  ext |-> "gz", stamp |-> 0]]
  /\ UNCHANGED <<clock, up, since, fileVars, stored, happened>>

(* Both names are made, then pkopen truncates or creates the hidden file. *)
Open(w) ==
  /\ call[w].at = "open"
  /\ call' = [call EXCEPT ![w].stamp = clock, ![w].at = "write"]
  /\ temp' = (temp \ TempOf(w)) \cup {TempFile(w, FALSE)}
  /\ UNCHANGED <<procVars, visible, published, fresh, stored, happened>>

(* pkwrite took all the bytes; what it took is still in its buffers. *)
Write(w) ==
  /\ call[w].at = "write"
  /\ call' = [call EXCEPT ![w].at = "close"]
  /\ UNCHANGED <<procVars, fileVars, fresh, stored, happened>>

(* Mutant: the number of bytes pkwrite took is not compared with the size. *)
RetryNever(w) ==
  /\ "media" \in Faults
  /\ call[w].at = "write"
  /\ call' = [call EXCEPT ![w].at = "move"]
  /\ UNCHANGED <<procVars, fileVars, fresh, stored, happened>>

(* Mutant: rc keeps OMOBUS_OK when the second attempt fails too. *)
RetrySucceeds(w) ==
  /\ "media" \in Faults
  /\ call[w].at \in {"open", "write"}
  /\ temp' = temp \ TempOf(w)
  /\ call' = [call EXCEPT ![w] = Idle]
  /\ stored' = stored \cup {call[w].pkg}
  /\ UNCHANGED <<procVars, visible, published, fresh, happened>>

(* Mutant: the number is given back with every attempt that failed, of which *)
(* a package has two and draws its number once.                              *)
RetryGivesBack(w) ==
  /\ "media" \in Faults
  /\ call[w].at \in {"open", "write"}
  /\ temp' = temp \ TempOf(w)
  /\ \/ /\ call[w].ext = "gz"
        /\ call' = [call EXCEPT ![w].ext = "xml", ![w].at = "open"]
     \/ /\ call[w].ext = "xml"
        /\ call' = [call EXCEPT ![w] = Idle]
  /\ pknum' = [pknum EXCEPT ![ProcOf[w]] = @ - 1]
  /\ UNCHANGED <<clock, up, since, visible, published, fresh, stored, happened>>

(* pkopen or pkwrite failed: the hidden file is deleted and the package is *)
(* tried once more without compression; after that the caller gets an error. *)
Retry(w) ==
  /\ "media" \in Faults
  /\ call[w].at \in {"open", "write"}
  /\ temp' = temp \ TempOf(w)
  /\ \/ /\ call[w].ext = "gz"
        /\ call' = [call EXCEPT ![w].ext = "xml", ![w].at = "open"]
     \/ /\ call[w].ext = "xml"
        /\ call' = [call EXCEPT ![w] = Idle]
  /\ UNCHANGED <<procVars, visible, published, fresh, stored, happened>>

(* pkclose flushes the buffers; its result is not looked at. *)
Close(w) ==
  /\ call[w].at = "close"
  /\ \/ /\ temp' = (temp \ TempOf(w)) \cup {TempFile(w, TRUE)}
        /\ UNCHANGED happened
     \/ "flush" \in Faults /\ Fault("flush") /\ UNCHANGED temp
  /\ call' = [call EXCEPT ![w].at = "move"]
  /\ UNCHANGED <<procVars, visible, published, fresh, stored>>

(* Mutant: the loop is not left after the first attempt succeeded. *)
MoveGoesOn(w) ==
  /\ call[w].at = "move"
  /\ \E t \in TempOf(w) :
       /\ temp' = temp \ {t}
       /\ visible' = visible \cup {Final(w, t)}
       /\ published' = published \cup {Final(w, t)}
  /\ IF call[w].ext = "gz"
     THEN /\ call' = [call EXCEPT ![w].ext = "xml", ![w].at = "open"]
          /\ UNCHANGED stored
     ELSE /\ call' = [call EXCEPT ![w] = Idle]
          /\ stored' = stored \cup {call[w].pkg}
  /\ UNCHANGED <<procVars, fresh, happened>>

(* MoveFile gives the package its final name, and fails if that name is *)
(* taken; the caller is told OMOBUS_OK in both cases.                   *)
Move(w) ==
  /\ call[w].at = "move"
  /\ \E t \in TempOf(w) :
       LET f     == Final(w, t)
           taken == \E g \in visible : SameName(f, g)
       IN
       \/ /\ ~taken
          /\ temp' = temp \ {t}
          /\ visible' = visible \cup {f}
          /\ published' = published \cup {f}
          /\ UNCHANGED happened
       \/ taken /\ UNCHANGED <<fileVars, happened>>
       \/ "move" \in Faults /\ Fault("move") /\ UNCHANGED fileVars
  /\ stored' = stored \cup {call[w].pkg}
  /\ call' = [call EXCEPT ![w] = Idle]
  /\ UNCHANGED <<procVars, fresh>>

(* The process p ends: it returns from main, is killed, or the device loses *)
(* its power.  What it was writing stays in the directory as it is.         *)
Halt(p) ==
  /\ p \in up
  /\ up' = up \ {p}
  /\ since' = [since EXCEPT ![p] = clock]
  /\ call' = [w \in Writers |-> IF ProcOf[w] = p THEN Idle ELSE call[w]]
  /\ UNCHANGED <<clock, pknum, fileVars, fresh, stored, happened>>

(* The process p is started; one instance at a time.  To start in the second *)
(* in which the last instance ended takes a fault of the clock.              *)
Launch(p) ==
  /\ p \notin up
  /\ \/ clock > since[p] /\ UNCHANGED happened
     \/ clock <= since[p] /\ "clock" \in Faults /\ Fault("clock")
  /\ up' = up \cup {p}
  /\ since' = [since EXCEPT ![p] = clock]
  /\ pknum' = [pknum EXCEPT ![p] = 0]
  /\ UNCHANGED <<clock, call, fileVars, fresh, stored>>

Tick ==
  /\ clock < MaxClock
  /\ clock' = clock + 1
  /\ UNCHANGED <<up, since, pknum, call, fileVars, fresh, stored, happened>>

(* timesync.d, or the user, sets the clock back. *)
SetBack ==
  /\ "clock" \in Faults
  /\ clock > 1
  /\ clock' = clock - 1
  /\ Fault("clock")
  /\ UNCHANGED <<up, since, pknum, call, fileVars, fresh, stored>>

(* The package under a final name is taken away: the sender has uploaded it. *)
Take(f) ==
  /\ visible' = visible \ {f}
  /\ UNCHANGED <<procVars, call, temp, published, fresh, stored, happened>>

Call(w) == Open(w) \/ Write(w) \/ Retry(w) \/ Close(w) \/ Move(w)

WriterStep ==
  \/ \E w \in Writers : Call(w) \/ \E k \in Packages : Begin(w, k)
  \/ \E p \in Procs : Halt(p) \/ Launch(p)
  \/ Tick
  \/ SetBack

WriterNext == WriterStep \/ \E f \in visible : Take(f)

WriterSpec == WriterInit /\ [][WriterNext]_writerVars

-----------------------------------------------------------------------------
(* Type correctness of the writer's state: locals, counters, files. *)
WriterTypeOK ==
  /\ clock \in Nat
  /\ up \subseteq Procs
  /\ since \in [Procs -> Nat]
  /\ pknum \in [Procs -> Nat]
  /\ call \in [Writers -> Calls]
  /\ temp \subseteq TempFiles
  /\ visible \subseteq published
  /\ published \subseteq Files
  /\ fresh \subseteq Packages
  /\ stored \subseteq Packages
  /\ happened \subseteq {"move", "flush", "clock"}

(* Whatever the sender may list is complete: a file is given a final name    *)
(* only after all of its content was written, whatever thread is interrupted *)
(* between pkopen and MoveFile and whatever a crash left under a hidden name. *)
(* A flush that fails in pkclose is not noticed, and breaks this.             *)
VisibleIsWhole == "flush" \notin happened => \A f \in visible : f.whole

(* A final name stands for one package for ever, across restarts of the      *)
(* counter and on the server where the file is uploaded again after a lost   *)
(* acknowledgement: two files that ever had the same name are the same file.  *)
(* A clock that is set back breaks this.                                      *)
NamesUnique ==
  "clock" \notin happened =>
    \A f, g \in published : SameName(f, g) => f.pkg = g.pkg

(* A package is given at most one final name: the attempt without compression *)
(* is made only if the first one published nothing.                           *)
OneNamePerPackage ==
  \A f, g \in published : f.pkg = g.pkg => f = g

(* OMOBUS_OK means what the caller reads in it: the whole package got a final *)
(* name.  The faults that break this are those the code does not look at: a   *)
(* flush or a MoveFile that fails, and a clock set back, by which MoveFile    *)
(* finds its name taken.                                                      *)
StoredIsPublished ==
  happened = {} => \A k \in stored : \E f \in published : f.pkg = k /\ f.whole

(* Two threads never write the same hidden file: neither can truncate, delete *)
(* or move what the other one is writing.                                     *)
TempExclusive ==
  \A v, w \in Writers :
    v # w /\ call[v].at # "idle" /\ call[w].at # "idle"
      => KindOf[v] # KindOf[w] \/ call[v].num # call[w].num

Dir == INSTANCE PackageDir
         WITH visible   <- {f.pkg : f \in visible},
              published <- {f.pkg : f \in published}

(* The abstract directory the sender relies on: a package appears once, in   *)
(* one step, and disappears only when it is taken.                           *)
DirPromise == Dir!DirSpec
=============================================================================
