# Verification of omobus-mobile

omobus-mobile is a Windows CE client for field staff: a host process of
background daemons keeps the device in step with a server over FTP, a host
process of screens lets the user read manuals and write documents and
activities. This directory holds TLA+ models of the parts of it that are hard to
test, the TLC configurations that check them on small instances, and proofs for
TLAPS. Paths below are relative to `src/`.

## 1. Inventory

### The two processes and what they share

| process | threads | what it does |
|---|---|---|
| daemons-host (`daemons/daemons-host`) | main, one per daemon plug-in (acts, docs, sync, upd, gpsmon, timesync, hardware, power, pc_sync, reconf) | owns the transport to the server, starts and stops the plug-ins, holds the device awake during a transfer |
| terminals-host (`terminals/terminals-host`) | main (window), one waiting for events | loads the screens (work, routes, activity, order, reports ...) |

They never call one another. They meet in

* the **file system**: the profile directories `acts` and `docs`, into which both
  write packages and which the daemons acts and docs empty; the directory
  `sync`, a mirror of the server's, which the daemon sync writes and the screens
  read;
* **named events**: `OMOBUS_ACTS_NOTIFY`, `OMOBUS_DOCS_NOTIFY`,
  `OMOBUS_SYNC_NOTIFY` (manual-reset: something to do), `OMOBUS_TERM_RELOAD`
  (auto-reset: read the manuals again), the `SRV_ONLINE` events that stop a host,
  and CE notification triggers that set an event at a time;
* the **registry** and **shared memory**: document identifiers, the alive value of
  daemons-host, the shared position of gpsmon with its lock.

Inside terminals-host the screens meet in the values of `put_conf` and `get_conf`:
the current screen, the cookies of the working day and of the visit, the account,
the number of documents written.

### Components

| component | state | operations | what makes it correct | modelled |
|---|---|---|---|---|
| Package writer, `libomobus/WriteOmobusXmlPk.cpp`, `pk.cpp` | `_pkNum` per process, hidden and final files | write a package | what is listed is whole, unique, published once; the result is true | `PkWriter` |
| Activity sender, `daemons/acts` | event, wake-up trigger, directory `acts` | sleep, send, arm, reset, stop | no package is lost, each is delivered | `Outbox` |
| Document sender, `daemons/docs` | the same, plus tray icon and exchange activity | the same, plus report | the same; reports are true | loop: `Outbox` |
| Upload and download, `daemons-host/tr-ftp.cpp` | lists, temporary files | `_fsend`, `_ftpmove`, `_frecv`, `_ftpcopy`, `_loclist`, `_ftplist` | nothing torn, nothing lost, mirror | `Outbox`, `SyncMirror` |
| Connection and suspend control, `daemons-host/conmgr.cpp`, `daemons-host.cpp` | `_stayup`, `_hConnection`, two critical sections | count, open, probe, close, poll | closed by the last user and by nobody earlier; the device does not sleep under a transfer | `Transport` |
| Life of daemons-host | alive value, plug-in list, process activities | start, wait, stop | every start and stop is reported once; a stop request is not lost | `HostLifecycle`; stop of the daemons: `Transport` |
| Synchronisation, `daemons/sync` | last-sync file, reload event | pass, report | screens see whole manuals, and the new ones | `SyncMirror` |
| Named events and triggers, `libomobus` | notification database | set, arm, remove | | as used: `Outbox` |
| Update of modules, `daemons/upd` | modules, renamed modules, MD5 | download, compare, rename, unpack, reboot | a device never loses a module | `UpdInstall` |
| Position and time, `gpsmon`, `timesync` | shared position, lock event, clock | measure, read, set clock | a reader gets one position, not two halves; a dead owner of the lock stops nobody | `GpsMon`; clock: `PkWriter` |
| Device daemons, `hardware`, `power`, `pc_sync`, `reconf` | last reported state | report a change | no change unreported, none twice | no |
| Screen host, `terminals-host` | current screen, shared values, stop request | load, show, reload, stop | a stop request is not lost | `HostLifecycle`, `Session` |
| Working day, route, activity | cookies, shared and in each plug-in | begin, end | a visit lies inside a day; an end names what was begun | `Session` |
| Document screens | counters, identifiers, drafts | make, store | a document names the visit that is open; the counter counts stored documents | counters, cookies: `Session` |
| Text readers and helpers, `libomobus` | none | parse, format | pure functions | no |
| Report and list screens, `gpsconf`, tools | none to speak of | show | layout | no |
| bzip2, zlib, libcurl, nmealib, WTL | | | third-party code | no |

`PROJECT.json` lists the same components with their sources.

### What is hard in this code

* **Interleaving.** Several threads write packages of one kind; one lists a
  directory while others write into it; all share one connection, which the last
  one closes while the next counts itself.
* **Crashes.** Plug-ins are stopped by `TerminateThread` after five seconds, and
  devices lose power. The counter in package names starts again with the
  process. A pass may end between any two file operations.
* **Unreliable delivery.** An upload may reach the server although the device is
  told that it failed; a repeated upload first truncates what the server has.
* **Partial failure.** `pkclose`, `MoveFile`, `DeleteFile` and `SetTimeoutTrigger` are
  called without a look at their results, and an upload takes a read error for the
  end of the file.
* **Lost wake-ups.** The senders reset their event after the work, not before it.
* **Stale state.** The server changes its directory between the list and the
  downloads; screens keep files open that are to be deleted.

`PROJECT.json` lists the hazards one by one with the line at which each bites and
the properties that cover it, or the reason why none does yet.

## 2. Plan

Written in this order, the most important behaviour first: what the user has
recorded reaches the server.

| # | module | subject | composes with | state |
|---|---|---|---|---|
| 1 | `PackageDir` | abstract: what a profile directory promises | | done |
| 2 | `PkWriter` | the writer; implements `PackageDir` | `PackageDir` | done, proved |
| 3 | `Delivery` | abstract: what a sender promises | | done |
| 4 | `Outbox` | the sender on top of `PackageDir`; implements `Delivery` | `PackageDir`, `Delivery` | done, safety proved |
| 5 | `Transport` | connection, counter, stop | | done, safety proved |
| 6 | `SyncMirror` | download, mirror, reload | | done, safety proved |
| 7 | `UpdInstall` | update of modules with faults, stops and reboots | `SyncMirror`, in one step | done, safety proved |
| 8 | `HostLifecycle` | alive value, activities, stop requests, tools | | done, safety proved |
| 9 | `Session` | working day, routes, visits, documents | | done, safety proved |
| 10 | `GpsMon` | the shared position, its lock and its readers | | done, safety proved |
| 11 | `Reporting` | exchange activities of docs and sync, change reports of the device daemons | `Outbox` | open |
| 12 | text readers and helpers | functions against reference definitions | | open |

The proofs of a module are in a module of their own, `PkWriterProofs` for `PkWriter`
and so on. Every safety invariant and every action property of the passing runs is
a theorem (section 5). Worth proving next: what the fairness of `Outbox` and
`SyncMirror` rests on, as safety (which step is possible where), and an abstract
specification of the shared position (a register that readers read in one step) that
`GpsMon` implements.

## 3. The modules and the code

### PackageDir and PkWriter

`PackageDir` is the contract between the two sides of a profile directory: a
package appears once, in one step, and leaves only when it is taken. `Outbox`
EXTENDS it and `PkWriter` implements it, under the refinement mapping that
forgets names and completeness (`Dir`).

`PkWriter` is `WriteOmobusXmlPk` (`libomobus/WriteOmobusXmlPk.cpp:14-66`) with the
writing half of `pk.cpp`, run by any number of threads in any number of
processes.

| action | code |
|---|---|
| `Begin` | the call and `InterlockedIncrement(&_pkNum)` |
| `Open` | both names are formatted, with the time of that moment; `pkopen` truncates or creates the hidden file |
| `Write` | `pkwrite` took all bytes (they are still in its buffers) |
| `Retry` | `pkopen` or `pkwrite` failed: `DeleteFile`, then the attempt without compression, then an error |
| `Close` | `pkclose` flushes; its result is dropped |
| `Move` | `MoveFile`, whose failure still returns `OMOBUS_OK` |
| `Halt`, `Launch` | the process ends anywhere and starts with the counter at 0 |
| `Tick`, `SetBack` | the clock, which timesync may set back |

A file is a record of the parts of its name that matter (kind, number, extension,
time) and of what it holds (package, whole or not). The first attempt's format is
written `gz`; which of the compressed formats it is does not matter to anything
here. `Faults` switches on what may go wrong. `happened` remembers the faults the
code does not look at, so that a property can say what holds without them and
which of them breaks it.

Two assumptions on the environment are stated in the module. A kind of package is
written by one process (true of all but `sys_proc`, see section 7). A process is
not started again in the very second it ended, except as a fault of the clock.

### Delivery and Outbox

`Delivery` is what the writer of a package may expect of the sender. `Outbox` is
`ActProc` (`daemons/acts/acts.cpp:36-85`) with everything it calls in the host to
send: `_daemons_pk_send`, `IsSendPk`, `FtpSendPk`, `_flist`, `_fsend`, `_ftpmove`.
`DocProc` runs the same loop.

| action | code |
|---|---|
| `Start`, `Stop`, `Crash` | creation of the event (signalled), exit on `hKill`, termination or loss of power at any step |
| `Wake`, `Peek` | `WaitForMultipleObjects` returns; `IsSendPk` |
| `Find`, `FindNone` | `GetValidServer`, one step here and the subject of `Transport` |
| `List` | `_flist` inside `FtpSendPk` |
| `Put`, `Refuse`, `Confirm`, `Break`, `Delete`, `Done` | the loop of `_fsend` with `_ftpmove`: open and start to store, give up, confirmed, broken before or after the last byte, `DeleteFile` |
| `Arm`, `Reset` | `SetTimeoutTrigger`, `ResetEvent` |
| `Store`, `Ask`, `Ring` | a package is published, a screen asks, the trigger's time comes |

The server is what it holds under each name (`none`, `part`, `whole`): an upload
begins by truncating. `Confirm` is `CURLE_OK`, and that is not the same as a whole
file: libcurl reads with `fread` and was told no size, so that a read that fails in the
middle looks like the end of the file. The server then confirms a part, and the
package is deleted. `cut` remembers these packages; `Delivery` calls them spoiled.
`Arm` may fail too: `SetTimeoutTrigger` deletes the old trigger first, and `ActProc`
does not look at what it returns. `unarmed` says that this is how the last arming
went.

The loop order of the list is left open, which covers the order in which
`FindNextFile` returns names.
The trigger does not ring between `Arm` and `Reset`: its interval is counted in
minutes and these are two consecutive statements.

### Transport

The part of `daemons-host.cpp` and `conmgr.cpp` that all plug-ins share.
`GetValidServer` is taken apart into the steps between which another thread can
do something: `LockTran`, `NotReady`/`Status`, `Reopen`, `Establish`, `Probe` or
`ProbeNone`; then `Transfer`; then `Decrement` and, for the last user, `Close` and
`Release`, all inside `_stayup_cs` as in the code. `Poll` is the two-second poll of
`_wait`. `StopNext`, `Terminate`, `StopEnds` and `CloseMain` are `_stop`, the
`stop_daemon` functions and the last `CloseConn` in `_tmain`. `Terminate` leaves
the sections of the thread owned by it and its transfer counted, as
`TerminateThread` does.

The handle is `none`, `up` or `off`. It is off after the link was lost (`Lose`), or when
it was opened with `CONNMGR_STATUS_PHONEOFF`, which `_OpenConn` accepts, and it may
come up again (`Resume`). `Status` is the query of the handle: it is kept only if the
query succeeds and says connected, and the query may fail in any state of the
handle. `doubted` is set from such a query to the closing of the handle.

`riders` are the threads that were given a server over the current handle and
have not finished: they are what `ConnectionKept` is about. A thread whose handle
another thread has closed rides no longer; its transfer fails by itself.

### SyncMirror

`SyncProc` (`daemons/sync/sync.cpp`) and the download path. A local file has a name
and a form: `final`, `temp` (`t#name`), `spare` (`t0#name`). The actions follow one
pass: `List`/`ListNone` (`_loclist`, `_ftplist`, the flag file), `Copy`, `Retrieve`,
`Copied` or `CopyFails` (`_ftpcopy`: the local file is created, the server begins to
send, the file is closed or the download fails), `Place` (`MoveFile`), `Prune` (`DeleteFile`, else rename, else
leave), `Report` (last-sync file, reload event). The server's directory changes
in `Lock`, `Edit`, `Unlock`: the server takes its flag file away while it works, and a
new version of a manual bears a new name. The flag is looked at once, when the
list is made, so that it may change during the downloads, and `Edit` can take a
listed file away.

`mark` remembers the failures the code does not notice. The content `unflushed` is
a download that `fclose` could not write to its end: nobody looks at the result,
the file gets the manual's name, and because only names are compared it stays
until the server has a new version. `FinalIsWhole` excepts exactly this case. Events and triggers of
this daemon are those of `Outbox`; here a pass may begin at any time.

### UpdInstall

`UpdProc` (`daemons/upd/upd.cpp:393-470`) with everything it calls, one module per
name in the root directory, each holding a version, torn bytes or nothing. The
MD5 sum of a file stands for its version, so that comparing sums is comparing
versions.

| action | code |
|---|---|
| `Start` | `UpdProc` up to its loop: `_upd_cleanup`, `RemoveTrigger` of the reboot |
| `Wake`, `Received`, `ReceiveFails` | the event; `h->recv`, one step here (`Fetched`) and the subject of `SyncMirror` |
| `Same`, `Rename` | the comparison and the `MoveFile` in `_upd_install` |
| `Create`, `CreateFails`, `UnpackFails`, `Unpacked` | `_unpack`, which truncates first and does not look at the result of `fwrite` |
| `Stray` | `_upd_install` comes to the `t#` and `t0#` files that recv left in the directory |
| `Arm`, `Junk`, `Clean` | `SetTimeoutTrigger` of the reboot (`SetTrigger`), `_upd_junk_control`, `_upd_cleanup` |
| `Ring`, `Reboot`, `RebootFails` | the trigger's time comes; `ExecProcess` of reboot.exe |
| `Stop`, `Terminate`, `PowerOff` | `hKill` between two passes, `TerminateThread`, the device |
| `Release`, `Use` | the server changes its directory; other processes load and unload modules |

A recv that returns `OMOBUS_OK` has not always done what it says (`tr-ftp.cpp:344-375`).
`Fetched` lets any new package get lost when `MoveFile` fails, or not reach the
medium whole, and any old one stay when it can be neither deleted nor renamed.
`wanted` are the modules of the list, `missed` those of them for which the directory
has no package after all: junk control takes these for modules the server no longer
has. What a failed `MoveFile` or `DeleteFile` leaves under a `t#` or `t0#` name matches
the pattern `*+*.*` of `_upd_install` (`upd.cpp:198`) and is unpacked to a file
`t#name` or `t0#name` in the root directory. No process uses such a file; what it does
is to set the flags of the pass, and this is `Stray`.

`SetTrigger` arms nothing for `upd->reboot` = 0 (`RebootWait`) and may fail otherwise;
its result is dropped (`upd.cpp:433`). `cancelled` says that the reboot that was asked
for last will not come: for this reason, because the daemon ended before it, or because
reboot.exe was not whole.

A file that is in use can be renamed but neither deleted nor truncated, which is
why the code renames before it unpacks and deletes later. `Self` are the modules
without which daemons-host or upd do not start: `Start` needs them whole. `failed`
collects the modules at which an operation failed or was interrupted, since the
code undoes nothing; a later pass that finds or makes the module whole takes it
out again. The pass that meets a failure also deletes the renamed module at its
end, so that there is nothing to go back to.

### HostLifecycle

`_tmain` of daemons-host and `_tWinMain` of terminals-host around their events, and
the tools that signal these. A host runs while its event exists (`Create`, `Gone`).
`ReportLost`, `ReportStart`, `SetAlive`, `Load`, `Reset`, `Poll`, `StopSeen`,
`ReportStop`, `DeleteAlive` and `Exit` are `_tmain` and `_wait`, statement by statement
where another process or a loss of power can come between (`user_id` is taken to
be configured). `Show`, `Listen`, `Hear` and `Close` are the window and `WaitProc`.
`Kill`/`KillEnds` is the loop of the two kill tools, `AskBoth`/`Reboot` the loop of
reboot.exe. A tool that asks for a minute does not give up while a host is still
on its first lines; `Kill` says so in its guard.

The alive value is a date in the registry; here it is the life that wrote it, so
that the report of a stop names the life it is about.

### Session

The user's way through the screens, with every action of the plug-ins that writes
a shared value, keeps a copy of one or writes a package. `loading` is the list of
plug-ins in the configuration: which of the two visit plug-ins is loaded, whether
a_tab splits the screen, and the order of a_tab and merch, which decides where
merch offers itself. `mem` is what `activity.cpp` and `routes.cpp` remember of their
last visit, `loc` what `location.cpp` read when its screen was shown. `Deref` is a read
through a pointer that `get_conf` returned earlier.

| action | code |
|---|---|
| `StartWorkDay`, `StopWorkDay` | `OnStartWorkDay`, `OnStopWorkDay` of work.cpp |
| `StartActivity`, `StopActivity` | `OnStart`, `OnStop` of activity.cpp |
| `StartRoute`, `StopRoute` | `OnStartRoute`, `OnStopRoute` of routes.cpp |
| `StartRouteVisit`, `CancelRouteVisit`, `StopRouteVisit` | `OnStartActivityR` and `OnStartActivityA`, `OnStopActivity` of routes.cpp |
| `Tab`, `Merch` | `OnAction` of a_tab.cpp; `OnAction`, `OnActionL` of merch.cpp |
| `VisitDocument`, `LocationDocument`, `DayDocument` | a document of order, reclamation, comment, new_contact, presence; of location; of unsched, new_account, canceling and the pending visits |
| `Launch`, `Quit` | the process starts, and ends in any screen |

Cookies are formatted from the second in which they are made. The model numbers
them: two begins within one second, or around a clock that is set back, are left
out.

The sample configuration (`config/omobus-mobile.conf:216`) loads both visit plug-ins,
and both offer to end a visit on its screen (`activity.cpp:1713`, `routes.cpp:2017`),
whoever began it. The one that did not reports an end with the cookies and the
account of its own last visit or with empty ones, and with its own idea of whether a
document is mandatory. `crossed` marks the sessions in which the user did that;
the properties say what still holds in them (documents are never attributed to
the wrong visit) and what only without.

### GpsMon

`GpsProc` with `start_daemon` and `stop_daemon` (`daemons/gpsmon/gpsmon.cpp`), and
`omobus_location` (`libomobus/daemons-helper.cpp:32-60`) in any number of readers. The
lock and the shared memory are objects of the system: `DropLock` and `DropMap` destroy
them with the last handle, `CreateLock` and `CreateMap` make them or open what is
there, in whatever state that is.

| action | code |
|---|---|
| `CreateLock`, `CreateMap`, `MapView` | `CreateEvent`, `CreateFileMapping`, `MapViewOfFile`, whose failure ends the thread |
| `Wait`, `Cycle` | `WaitForMultipleObjects`, with `hKill` first; `OpenGps` and `ReadGps`, or `CloseGps` outside the working time |
| `Lock`, `CopyIn`, `Unlock` | the wait of 1.5 s, `memcpy` in two steps, `SetEvent` |
| `CloseGps`, `CloseHandles` | the end of the thread |
| `StopReturns`, `Exit`, `Crash` | `stop_daemon` after the thread has ended or been terminated; the end of the process |
| `OpenLock`, `OpenMap`, `Take`, `CopyOut`, `Give`, `CloseMap`, `CloseLock` | `omobus_location`, line by line |
| `ReaderDies` | a reader's process ends in the call |

Of the position two fields are kept, whether monitoring is on and whether there is a
position, copied one after the other: a position without monitoring is a torn
read, since `GpsProc` never has one. Packages and the trace of positions are left out.
`GpsAssumption` says that the thread of gpsmon is none of the readers.

## 4. The runs

| run | instance | states | shows |
|---|---|---|---|
| `pk_writer` | 2 threads, 1 process, 3 packages, clock to 2, all faults | 968 257 (up to symmetry) | what is listed is whole, unique, published once; `PackageDir` is implemented |
| `outbox` | 2 packages, 2 stops, wake-up on, all faults (network, deletion, short reads, arming) | 14 629 | nothing is lost but by a short read, all is delivered and removed, `Delivery` is implemented |
| `outbox_request` | 2 packages, no fault, wake-up off | finds a counterexample | finding 1 |
| `transport` | 2 threads | 3671 | counter, connection, stop |
| `sync_mirror` | 2 manuals, one in 2 versions, 2 edits, 1 stop, all faults | 188 675 | mirror, no torn or missing manual, clean-up, convergence |
| `sync_date` | the same | finds a counterexample | finding 2 |
| `upd_install` | 2 modules (one that upd needs, one picture), 2 versions, 1 release, 1 stop, all faults (network, disk, arming) | 6 615 843 | no module lost, mirror of the packages, reboot |
| `upd_converge` | the same, no release, arming works | 203 137 | the device comes to hold what the server has |
| `host_lifecycle` | 3 lives, 2 requests per tool, all faults | 97 960 | every stop reported, and once; stop requests are obeyed |
| `host_reboot` | 2 lives, 3 requests, no fault | finds a counterexample | finding 3 |
| `session` | 2 days, 3 visits, 3 documents, 2 accounts, every list of plug-ins | 101 232 | cookies, accounts and order of visits and days |
| `gps_mon` | 2 readers | 29 443 | no torn read, nobody stuck |

### Why these bounds are enough

* **PkWriter.** A conflict of names needs two files, and so two packages; the third
  lets one thread go on while two names are in play. Two threads of one process
  and one kind are the worst case, since different kinds cannot meet. A clock of
  two values and any number of restarts give the same second, a later second and
  a clock set back. The theorems need none of these bounds.
* **Outbox.** Two packages let one be written, or fail, while the other is sent. Two
  stops give a crash, the restart it calls for, and a crash during the recovery.
  The safety theorems need none of these bounds.
* **Transport.** Every property is about one thread against the others: the last to
  leave, one that arrives, one that closes under another. Two threads and the main
  thread show all pairs. Nothing else is bounded: threads transfer for ever.
* **SyncMirror.** Two versions of one manual are the replacement of a manual; a second
  manual is the bystander that a failed pass must not harm. Two edits let the
  server change during a pass that is already about a change. One stop may
  come at any step.
* **UpdInstall.** One module that daemons-host needs and one that it does not, one
  that needs a reboot and one that does not: two modules are all of these. One
  stop gives an interruption at any step and the repair after it; that a second one
  during the repair breaks nothing is in the theorems, which bound neither stops
  nor releases, and whose invariant has no memory of how many there were. A release in the
  middle of a pass takes a package away or replaces it. `upd_converge` has no
  release, because convergence is to what the server has in the end, and no fault of
  the trigger, which has no part in it. `RebootWait` is on in both: off, it is the same
  as an arming that always fails.
* **HostLifecycle.** A stop is reported by the life itself or by the next one, so that
  two lives show a report and the third shows that it is not repeated. A tool asks
  at most twice: once into a start that erases it, once more. `host_reboot` has three
  requests, fewer than the eleven of the code and enough for the first to find one
  host gone.
* **Session.** Two visits cross; the third is what a crossed one leaves behind. The
  second day tells a stale cookie of a day from a current one. `Byte` is 2, so that
  three documents pass the boundary the code has at 256.
* **GpsMon.** A reader against the daemon shows a torn read; the second one keeps the
  lock alive while its owner is gone. Nothing else is bounded: processes start, stop
  and die for ever.

Deadlock is checked in every run but `pk_writer`, `upd_install`, `upd_converge`,
`host_lifecycle` and `host_reboot`, where the system really may stop: all packages
are written and no clock tick is left; a device has lost a module it cannot start
without and no more stops are allowed; no life is left.

### Properties

*PkWriter.* `VisibleIsWhole`, `NamesUnique`, `OneNamePerPackage`, `TempExclusive`,
`StoredIsPublished` are the reasons why the sender may upload and delete whatever
it lists. Three of them name the faults that break them: a flush that fails
(unnoticed by `pkclose`) publishes a torn file; a clock that is set back may give
two packages one name; these and a failed `MoveFile` make `OMOBUS_OK` untrue. With
those conditions removed TLC shows each such failure.

*Outbox.* `NotLost` is about the copy on the server as it is at the moment, not
as it once was: it would be false if a repeated upload could begin after the
local file is gone. It has one exception, `cut`: a short read really loses the rest of
the package, and TLC shows how when the exception is removed. `OkMeansSent`, with the
same exception, is what the docs daemon tells the user. `WakeUpIsSet` is the safety half
of `EventuallyDelivered`: the daemon sleeps over a package only when the last arming of
its trigger failed. `EventuallyRemoved` says
that a file whose deletion failed does not stay for ever.

*Transport.* `CountIsExact`, `ConnectionKept` and `ClosedWhenQuiet` fix what the
counter is for. The connection can be closed under a transfer: a second thread asks
for its status, the query fails or finds the phone off, and `_OpenConn` closes the handle
they share (`conmgr.cpp:174-180`). `ConnectionKept` says that this is the only way. `CloseNeverWaits` is why taking `_tran_cs` inside `_stayup_cs` is
harmless. `StopCompletes` names the one case in which the host does not stop: it
terminated the owner of `_tran_cs` itself.

*SyncMirror.* `FinalIsWhole` and `ManualKept` are what the screens rely on,
`OkMeansMirrored` and `LeftoversGo` what a successful pass has done, `Converges`
what repeated passes reach.

*UpdInstall.* `ModuleKept` says where a module may be missing: in the hands of the
pass, after an operation that failed on it, or after recv lost its package when
`MoveFile` failed (`missed`). That these exceptions are needed are the hazards at
`upd.cpp:227` and `tr-ftp.cpp:350`; that no other is, is what the property shows: not a
failed recv, not junk control after a list that came whole, not a change of the server. `RootMirrorsPackages` is
the promise of the comment at `upd.cpp:278`; it is about the package directory, which is
what the server has only if recv missed nothing. `RebootFollows` relates the pass that
installed to all later ones; `cancelled` is its exception. `UpToDate` names the two ends from which the
device does not recover by itself: a torn package on the card, which is not fetched
again, and a missing module of the daemon's own.

*HostLifecycle.* `EveryStopReported` and `StopReportedOnce` are the two halves of what
the alive value is for, each with the window between two statements in which a loss of
power breaks it (`early`, `twice`). `KillWorks` is why it does no harm that
`_wait` and `WaitProc` begin with `ResetEvent`.

*Session.* `PackagesBelong` is about what the server can conclude from a document;
`VisitsEndInOrder` about what it can conclude from the reports of days and visits.

*GpsMon.* `ReadIsConsistent` is mutual exclusion seen from outside: it is false if the
reader copies after a wait that timed out. `NobodyStuck` is why the waits have a
limit at all: the owner of the lock may be dead.

### Fairness

Each module states its fairness as a formula of its own with a comment.

* A thread that can go on does (weak fairness of its steps), since CE schedules
  threads of equal priority in turn. A section that is released again and again is
  obtained (strong fairness of the steps that take one), since waiters are served
  in order.
* Triggers ring and a host that ended is started again (the user, or CE at reset).
* Nothing is fair about the arming of a trigger, which is not tried again before the
  next pass. `EventuallyDelivered` and `EventuallyRemoved` therefore have a condition,
  `WakesUp`: after an arming that failed somebody asks, or the daemon is started again.
  Without it TLC finds the daemon asleep over its packages.
* `SyncMirror` and `UpdInstall` take passes to begin again and again: `sync->wakeup` and
  `upd->wakeup` are not 0 and the trigger is armed in the end, or users keep asking. With
  the default 0 and nobody asking neither converges to anything.
* What depends on the world succeeds if it is tried again and again: a server is
  found, an upload of each package is confirmed, a deletion works. Without this no
  delivery can be promised. It is strong fairness of those steps only: failures
  may come any number of times in between.
* Nothing is fair about `Ask`, `Enter`, `Crash`, `Stop`, `Lose`, `Edit` or `Lock`:
  users and faults need not come. That is why the wake-up trigger matters.
* In `Transport` there is no fairness of `Transfer` succeeding; that it returns is
  the timeout of libcurl.
* In `UpdInstall` receiving, renaming, creating, writing and junk control succeed if
  tried again and again (strong fairness of the successful steps); nothing is fair
  about stops, releases and the use of modules.
* In `HostLifecycle` a kill tool that has begun goes on, and the message loop ends
  after `WM_QUIT`. Users, `AskBoth` and all faults are unfair.
* In `GpsMon` the threads go on, `stop_daemon` returns after five seconds and the
  process then ends. The driver of the GPS (`Cycle`) is not fair: it may hang.
* `Session` has no fairness and no liveness: everything in it waits for the user.

## 5. The proofs

Eight modules of proofs, one for each module of section 3 that has a specification of
the code, are checked by TLAPS to the last leaf. What they say holds for every value
of the constants under the assumption each module names (`WriterAssumption`,
`OutboxAssumption`, `TransportAssumption` ...): any number of processes, threads,
packages, manuals, modules, lives, days, visits and readers, any set of faults. The
assumptions are about the shape of the constants (bounds are natural numbers, `None`
is no value of anything, the modules are finitely many) and not about behaviour; what
the models assume of the environment is said in section 3.

Every inductive invariant below was checked by TLC on the instance of the module's run
before it was proved.

**PkWriter.** The properties are not inductive. That names are unique rests on the
counter and the clock: within one instance of a process numbers grow, and across
instances the clock does. `WriterInv` says so:

* `CallsAreReal`, `TempIsOwn`: a thread inside a call has a package and a process
  that runs; the hidden file it has opened holds that package, and all of it
  after a `Close` that worked;
* `NumbersDiffer`, `PackagesDiffer`: no two calls of a process share a number,
  no two calls a package, nor a package with what is fresh or published;
* `ClockGoesOn`, `NumbersGoOn`: without a fault of the clock, what is stamped was
  stamped before now, and a published file of a kind has either a time before the
  start of the process that writes the kind, or a number its counter has passed
  and no call under way bears;
* and the properties themselves.

The proof has one lemma per conjunct and one step per action. Each layer uses
those before it (types, then calls, then numbers, then hidden files, then clock,
then names), so that no leaf sees more than it needs. `OnlyMovePublishes` and
`NameIsFree` carry the argument about names: only `Move` publishes, and what it
publishes meets no earlier file. `Implements` adds that each step is a step of
`PackageDir` or leaves it unchanged: `Move` is `Publish` because a package is
published once, and `Take` is `Take` because a package has one file.

**Outbox.** `OutboxInv` adds to the properties: what is still to do is in the
directory (`TodoIsThere`, true because only this thread deletes), the file in hand
is listed (`CurIsListed`), what the pass has done with the list so far
(`ListOfPass`), that between `Arm` and `Reset` the trigger is armed or the
arming failed (`Armed`), and that what the server received, whole or cut, was published
(`ReceivedIsPublished`). From it
follow `PackagesNotLost`, `ResultIsTrue`, `WakeUpIsThere` and `Implements`.

**Transport.** `CountIsExact` is about the counter; what keeps it is who may touch it.
`TransportInv` says: the counter is the number of threads between increment and
decrement, terminated ones included (`CountOfUsers`, by cardinalities of finite sets);
a thread in a section owns it, and an owner is inside or was terminated inside
(`SectionsHeld`, `SectionsOwned`); `_stayup_cs` outlasts a step only at zero
(`KeptAtZero`); riders are in their transfer (`RidersTransfer`); a thread that is
about to close the handle in `_OpenConn` has doubted it, and finds none after that while
it has `_tran_cs` (`SeenIsTrue`); the main thread
closes after all daemons (`MainIsLast`). `ConnectionKept` follows step by step: who
closes has doubted the handle, or is the last user or the main thread, and then nobody
rides.

**SyncMirror.** `FinalIsWhole` and the rest follow from what a pass has done so far:
`TempReceived` (what is handed to `MoveFile` was received to its end), `Downloaded` and
`ObsoleteGoes` (what is no longer on one of the two lists has been dealt with, or
stands in `mark`), `ListedStays` (a listed name is never obsolete: this gives
`ManualKept`), `LeftoversKnown` (each temporary or renamed file is still to be
deleted, failed, was renamed in this pass or is the one being received).

**UpdInstall.** `ModuleKept` is nearly inductive; junk control needs that it runs only
in a pass that got the list, each module of which has a package or was missed
(`ListIsPacked`). `Compared` says which packages the pass
is done with, `Mirrored` what junk control then adds. `RebootIsDue` follows the reboot
from the flags of the pass to the trigger, to the event, and into `cancelled` when
the daemon ends or nothing was armed. `RootMirrorsPackages` is proved for `upd->junk` switched on, which it
is about; `PassInstalls` says what holds either way.

**HostLifecycle.** Each life is followed through three places that have to agree: the
list of reports, the alive value and the place of the process. `AliveOfLife` ties the
value to the place; `StopOwed` says that a life whose start was reported and whose stop
was not is the one the value names; `FoundIsReported` and `NotYetReported` what the next
start will find. The two history variables `early` and `twice` are the windows
between two statements in which the process may end.

**Session.** `SessionInv` relates the values of `put_conf`, the copies of the plug-ins
and the visit the user has open: `DayIsOne`, `VisitIsCurrent`, `ReadIsCurrent` (what
location.cpp keeps is current as long as its screen is shown, so its pointers do not
dangle) and `KeptIsCurrent` (the plug-in that began the visit still knows it; its day
too, and so does routes.cpp between visits, unless the plug-ins have crossed).
`EndsInOrder` adds the arithmetic of the byte: a counter whose low byte is not 0 is not
0. The converse fails at 256 documents, which is the hazard at `activity.cpp:1673`.

**GpsMon.** `OneInSection` is mutual exclusion by an event that is destroyed with its
last handle and made again; it needs to be known who holds a handle where
(`HandlesHeld`). `SharedIsConsistent` says where half a copy may lie in the memory: only
behind a lock that is taken, and the memory is gone before the lock is
made anew, since each thread closes it first. `AnswersConsistent` carries this to the
readers. `LockExcludes` states `OneInSection`, which no run lists as a property.

**Only model-checked:** all liveness (`EventuallyDelivered`, `EventuallyRemoved`,
`StopCompletes`, `Converges`, `UpToDate`, `KillWorks`, `NobodyStuck`), because liveness
under fairness is out of the prover's reach; and the three properties that fail
(section 6), whose counterexamples TLC gives.

## 6. Findings

1. *A request to send can be lost* (`outbox_request`, `RequestIsServed`).
   `config/omobus-mobile.conf:229-230` says that the entry `acts` or `docs` in
   `work->end` and the like sends. `ActProc` (`daemons/acts/acts.cpp:56-62`) and
   `DocProc` send first and reset the event afterwards, so that a request made
   after the list was taken is erased. With the default `wakeup = 0` nothing else
   wakes the daemon. With a wake-up interval the package goes at the next one:
   run `outbox` shows that none stays for ever.
2. *The date of the last sync may be that of a failure* (`sync_date`,
   `LastSyncIsReceipt`). The comment at `daemons/sync/sync.cpp:156` says that the
   date of the receipt of a package is saved; the first pass saves it whatever it
   did.
3. *An orderly reboot is reported as an incorrect stop* (`host_reboot`,
   `LostByFaultOnly`). The comment at `daemons/daemons-host/daemons-host.cpp:460-462`
   names the switched-off device, the removed battery and the fallen process as the
   only causes of an incorrect stop. `tools/reboot/reboot.cpp:33` waits `while`
   terminals-host *and* daemons-host run, so that it resets the device as soon as
   one of them is gone, most likely under a daemons-host that is stopping.

Seen while modelling, without a run: the limit of visits of a type is looked up for the
account of the *last* visit in `terminals/activity/activity.cpp:422` (the chosen one is
copied at line 1033, after the dialog; `routes.cpp:1270` passes it on), and
`terminals/terminals-host/terminals-host.cpp:409-410` reads the name of the user from
the key of the firm and the other way round.

## 7. What is left out

* The choice of a server and its connection inside `Outbox` and `SyncMirror` is one
  step; `Transport` has the steps.
* Contents, compression, XML and FTP commands. A file is whole or not.
* The files `t#name` and `t0#name` that `upd` unpacks to the root directory (section 3):
  the flags they set are modelled, the files are not. Nothing uses them, and junk control
  renames them once the packages they came from are gone.
* The journal, logging, tray icons and notifications: wording only, no other
  component reads them.
* The exchange activity that docs and sync write after a pass is an ordinary call
  of `WriteOmobusXmlPk` and so is covered by `PkWriter` as a call, not as a report.
* The device daemons, the device-wide part of timesync, the text readers and
  helpers: state of one thread that reports what it sees, or pure functions; they
  come after the proofs in the plan.
* Two processes that write `sys_proc` packages in the same second with the same
  number (`daemons-host.cpp:240`): `PkWriter` has one process per kind.
* The components marked no in section 1: layout, one-shot tools and vendored
  libraries. Most of the lines under `src/` are these: WTL, libcurl, zlib, bzip2 and
  nmealib alone are three quarters of them, and most of the rest draws screens. The map
  of `PROJECT.json` covers the parts that hold the state and the control.
