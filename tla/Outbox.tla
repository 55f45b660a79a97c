------------------------------- MODULE Outbox -------------------------------
(***************************************************************************)
(* The acts daemon (daemons/acts/acts.cpp, ActProc) and the upload path of *)
(* daemons-host it calls: _daemons_pk_send, IsSendPk, FtpSendPk, _flist,   *)
(* _fsend and _ftpmove.  The docs daemon runs the same loop over the docs  *)
(* directory and reports what it did in the acts directory.                *)
(*                                                                         *)
(* The daemon sleeps until its named event is set: by a terminal screen    *)
(* (SetNameEvent), by the wake-up trigger it armed, or by its own start.   *)
(* The event is manual-reset and is reset after the upload, not before it. *)
(* The choice of a server and the connection to it are a single step here. *)
(***************************************************************************)
EXTENDS PackageDir, Naturals

CONSTANTS
  NoPackage, (* The value of cur when no file is being uploaded.            *)
  Wakeup,    (* acts->wakeup is not 0: the trigger is armed after a send.   *)
  Faults,    (* What may fail: "net", "delete", "read" (of a file that is   *)
             (* being uploaded), "trigger" (the arming of it).              *)
  MaxStops   (* Bound on how often the process stops, by itself or not.     *)

ASSUME OutboxAssumption ==
  /\ NoPackage \notin Packages
  /\ Wakeup \in BOOLEAN
  /\ MaxStops \in Nat

VARIABLES
  pc,        (* Where the daemon's thread is, "down" if there is none.      *)
  notify,    (* The named event OMOBUS_ACTS_NOTIFY is signalled.            *)
  timer,     (* The wake-up trigger is in the notification database.        *)
  todo,      (* The rest of the list made by _flist.                        *)
  listed,    (* That list.                                                  *)
  cur,       (* The file _ftpmove works on.                                 *)
  ok,        (* rc # OMOBUS_ERR so far.                                     *)
  server,    (* What the server holds under each package's name.            *)
  received,  (* History: packages the server has received in one piece.     *)
  cut,       (* History: packages of which the server last confirmed a part, *)
             (* the reading of the file having ended early.                  *)
  unarmed,   (* History: the last arming of the trigger failed.              *)
  asked,     (* History: packages in the directory when a send was asked for; *)
             (* kept only without a wake-up interval, for RequestIsServed.     *)
  stops      (* How often the process has stopped.                          *)

passVars   == <<todo, listed, cur, ok>>
serverVars == <<server, received, cut>>
outboxVars == <<dirVars, pc, notify, timer, passVars, serverVars, unarmed,
                asked, stops>>

Places == {"down", "wait", "peek", "find", "list", "next", "put", "delete",
           "arm", "reset"}

OutboxInit ==
  /\ DirInit
  /\ pc = "down"
  /\ notify = FALSE
  /\ timer = FALSE
  /\ todo = {}
  /\ listed = {}
  /\ cur = NoPackage
  /\ ok = TRUE
  /\ server = [k \in Packages |-> "none"]
  /\ received = {}
  /\ cut = {}
  /\ unarmed = FALSE
  /\ asked = {}
  /\ stops = 0

-----------------------------------------------------------------------------
(* The rest of the device.                                                 *)

(* A thread of either host puts a package into the directory. *)
Store(k) ==
  /\ Publish(k)
  /\ UNCHANGED <<pc, notify, timer, passVars, serverVars, unarmed, asked,
                 stops>>

(* The event exists while the daemon runs. *)
SetNameEvent == notify' = (pc # "down")

(* The trigger is cleared from the notification database. *)
RemoveTrigger == timer' = FALSE

(* A screen asks for a send. *)
Ask ==
  /\ pc # "down"
  /\ SetNameEvent
  /\ asked' = IF Wakeup THEN asked ELSE asked \cup visible
  /\ UNCHANGED <<dirVars, pc, timer, passVars, serverVars, unarmed, stops>>

(* The trigger's time comes: its named event is set, if it exists.  The    *)
(* interval is counted in minutes: it does not end between arming the      *)
(* trigger and the next statement, ResetEvent.                             *)
Ring ==
  /\ timer
  /\ pc # "reset"
  /\ timer' = FALSE
  /\ SetNameEvent
  /\ UNCHANGED <<dirVars, pc, passVars, serverVars, unarmed, asked, stops>>

(* Mutant: the event is created non-signalled. *)
StartAsleep ==
  /\ pc = "down"
  /\ pc' = "wait"
  /\ UNCHANGED <<dirVars, notify, timer, passVars, serverVars, unarmed,
                 asked, stops>>

(* daemons-host starts the daemon: the event is created signalled. *)
Start ==
  /\ pc = "down"
  /\ pc' = "wait"
  /\ notify' = TRUE
  /\ UNCHANGED <<dirVars, timer, passVars, serverVars, unarmed, asked, stops>>

(* The thread sees hKill while it waits, and removes the trigger. *)
Stop ==
  /\ pc = "wait"
  /\ stops < MaxStops
  /\ stops' = stops + 1
  /\ pc' = "down"
  /\ notify' = FALSE
  /\ RemoveTrigger
  /\ UNCHANGED <<dirVars, passVars, serverVars, unarmed, asked>>

(* The thread is terminated, the process dies or the device loses power. *)
Crash ==
  /\ pc # "down"
  /\ stops < MaxStops
  /\ stops' = stops + 1
  /\ pc' = "down"
  /\ notify' = FALSE
  /\ todo' = {}
  /\ listed' = {}
  /\ cur' = NoPackage
  /\ ok' = TRUE
  /\ UNCHANGED <<dirVars, timer, serverVars, unarmed, asked>>

-----------------------------------------------------------------------------
(* The daemon's thread.                                                    *)

(* WaitForMultipleObjects returns for the event. *)
Wake ==
  /\ pc = "wait"
  /\ notify
  /\ pc' = "peek"
  /\ UNCHANGED <<dirVars, notify, timer, passVars, serverVars, unarmed,
                 asked, stops>>

(* IsSendPk: without a file to send _daemons_pk_send is done. *)
Peek ==
  /\ pc = "peek"
  /\ pc' = IF visible = {} THEN "arm" ELSE "find"
  /\ UNCHANGED <<dirVars, notify, timer, passVars, serverVars, unarmed,
                 asked, stops>>

(* GetValidServer returns a server, *)
Find ==
  /\ pc = "find"
  /\ pc' = "list"
  /\ UNCHANGED <<dirVars, notify, timer, passVars, serverVars, unarmed,
                 asked, stops>>

(* or NULL. *)
FindNone ==
  /\ "net" \in Faults
  /\ pc = "find"
  /\ ok' = FALSE
  /\ pc' = "arm"
  /\ UNCHANGED <<dirVars, notify, timer, todo, listed, cur, serverVars,
                 unarmed, asked, stops>>

(* Mutant: _flist does not skip the names that start with a dot. *)
ListHidden ==
  /\ pc = "list"
  /\ listed' = Packages
  /\ todo' = Packages
  /\ pc' = "next"
  /\ UNCHANGED <<dirVars, notify, timer, cur, ok, serverVars, unarmed,
                 asked, stops>>

(* FtpSendPk lists the directory a second time, for _fsend. *)
List ==
  /\ pc = "list"
  /\ listed' = visible
  /\ todo' = visible
  /\ pc' = "next"
  /\ UNCHANGED <<dirVars, notify, timer, cur, ok, serverVars, unarmed,
                 asked, stops>>

(* _ftpmove opens the file and the server starts to store it: what it held *)
(* under that name is gone.                                                *)
Put(k) ==
  /\ pc = "next"
  /\ k \in todo
  /\ cur' = k
  /\ server' = [server EXCEPT ![k] = "part"]
  /\ pc' = "put"
  /\ UNCHANGED <<dirVars, notify, timer, todo, listed, ok, received, cut,
                 unarmed, asked, stops>>

(* _ftpmove cannot open the file, or reach the server: _fsend gives up. *)
Refuse ==
  /\ "net" \in Faults
  /\ pc = "next"
  /\ todo # {}
  /\ ok' = FALSE
  /\ pc' = "arm"
  /\ UNCHANGED <<dirVars, notify, timer, todo, listed, cur, serverVars,
                 unarmed, asked, stops>>

(* The last byte has reached the server. *)
Complete ==
  /\ server' = [server EXCEPT ![cur] = "whole"]
  /\ received' = received \cup {cur}
  /\ cut' = cut \ {cur}

(* curl_easy_perform returns CURLE_OK: the server confirmed the file, all of *)
(* it or as much as fread returned before it failed.  No size was announced, *)
(* so that to libcurl a short read is the end of the file.                   *)
Confirm ==
  /\ pc = "put"
  /\ \/ Complete
     \/ /\ "read" \in Faults
        /\ cut' = cut \cup {cur}
        /\ UNCHANGED <<server, received>>
  /\ pc' = "delete"
  /\ UNCHANGED <<dirVars, notify, timer, passVars, unarmed, asked, stops>>

(* Mutant: the file is deleted without a look at rc. *)
BreakDeletes ==
  /\ "net" \in Faults
  /\ pc = "put"
  /\ ok' = FALSE
  /\ pc' = "delete"
  /\ UNCHANGED <<dirVars, notify, timer, todo, listed, cur, serverVars,
                 unarmed, asked, stops>>

(* Mutant: rc stays OMOBUS_OK when the upload fails. *)
BreakSilent ==
  /\ "net" \in Faults
  /\ pc = "put"
  /\ cur' = NoPackage
  /\ pc' = "arm"
  /\ UNCHANGED <<dirVars, notify, timer, todo, listed, ok, serverVars,
                 unarmed, asked, stops>>

(* curl_easy_perform fails: the connection broke, before or after the last *)
(* byte had reached the server, or an answer was late.                     *)
Break ==
  /\ "net" \in Faults
  /\ pc = "put"
  /\ UNCHANGED serverVars \/ Complete
  /\ ok' = FALSE
  /\ cur' = NoPackage
  /\ pc' = "arm"
  /\ UNCHANGED <<dirVars, notify, timer, todo, listed, unarmed, asked, stops>>

(* DeleteFile, whose result is not looked at, and the next turn of _fsend. *)
Delete ==
  /\ pc = "delete"
  /\ \/ Take(cur)
     \/ "delete" \in Faults /\ UNCHANGED dirVars
  /\ todo' = todo \ {cur}
  /\ cur' = NoPackage
  /\ pc' = "next"
  /\ UNCHANGED <<notify, timer, listed, ok, serverVars, unarmed, asked, stops>>

(* The list is at its end. *)
Done ==
  /\ pc = "next"
  /\ todo = {}
  /\ pc' = "arm"
  /\ UNCHANGED <<dirVars, notify, timer, passVars, serverVars, unarmed,
                 asked, stops>>

(* Mutant: the trigger is armed only after a pass that failed. *)
ArmIfFailed ==
  /\ pc = "arm"
  /\ timer' = (Wakeup /\ ~ok)
  /\ unarmed' = FALSE
  /\ pc' = "reset"
  /\ UNCHANGED <<dirVars, notify, passVars, serverVars, asked, stops>>

(* SetTimeoutTrigger removes the trigger and sets it anew, but for 10 seconds *)
(* or less, and unless CeSetUserNotificationEx fails; ActProc goes on alike.  *)
Arm ==
  /\ pc = "arm"
  /\ \/ timer' = Wakeup /\ unarmed' = FALSE
     \/ "trigger" \in Faults /\ Wakeup /\ timer' = FALSE /\ unarmed' = TRUE
  /\ pc' = "reset"
  /\ UNCHANGED <<dirVars, notify, passVars, serverVars, asked, stops>>

(* Mutant: what one pass did not upload is left in the list of the next. *)
ResetKeepsTodo ==
  /\ pc = "reset"
  /\ notify' = FALSE
  /\ pc' = "wait"
  /\ listed' = {}
  /\ ok' = TRUE
  /\ UNCHANGED <<dirVars, timer, todo, cur, serverVars, unarmed, asked, stops>>

(* ResetEvent; the locals of the pass are gone. *)
Reset ==
  /\ pc = "reset"
  /\ notify' = FALSE
  /\ pc' = "wait"
  /\ todo' = {}
  /\ listed' = {}
  /\ ok' = TRUE
  /\ UNCHANGED <<dirVars, timer, cur, serverVars, unarmed, asked, stops>>

-----------------------------------------------------------------------------
ThreadStep ==
  \/ Wake \/ Peek \/ Find \/ FindNone \/ List
  \/ \E k \in Packages : Put(k)
  \/ Refuse \/ Confirm \/ Break \/ Delete \/ Done \/ Arm \/ Reset

OutboxNext ==
  \/ \E k \in Packages : Store(k)
  \/ Ask \/ Ring \/ Start \/ Stop \/ Crash
  \/ ThreadStep

OutboxSpec == OutboxInit /\ [][OutboxNext]_outboxVars

(***************************************************************************)
(* The thread is scheduled, triggers ring and the host is started again.   *)
(* A server is not out of reach for ever, nor does every upload or delete  *)
(* of a file fail: what is tried again and again succeeds in the end.      *)
(* Nothing is assumed of the arming of the trigger, which is not tried     *)
(* again if it fails, but by the next pass.                                *)
(***************************************************************************)
OutboxFairness ==
  /\ WF_outboxVars(ThreadStep)
  /\ WF_outboxVars(Ring)
  /\ WF_outboxVars(Start)
  /\ SF_outboxVars(Find)
  /\ \A k \in Packages : SF_outboxVars(Put(k))
  /\ \A k \in Packages : SF_outboxVars(cur = k /\ Confirm)
  /\ \A k \in Packages : SF_outboxVars(cur = k /\ Delete /\ k \notin visible')

OutboxFairSpec == OutboxSpec /\ OutboxFairness

-----------------------------------------------------------------------------
(* Type correctness of the daemon's state. *)
OutboxTypeOK ==
  /\ visible \subseteq published
  /\ published \subseteq Packages
  /\ pc \in Places
  /\ notify \in BOOLEAN
  /\ timer \in BOOLEAN
  /\ todo \subseteq listed
  /\ listed \subseteq Packages
  /\ cur \in Packages \cup {NoPackage}
  /\ ok \in BOOLEAN
  /\ server \in [Packages -> {"none", "part", "whole"}]
  /\ received \subseteq Packages
  /\ cut \subseteq Packages
  /\ unarmed \in BOOLEAN
  /\ asked \subseteq Packages
  /\ stops \in 0 .. MaxStops

(* No package is lost but by a read that ends early: every package that was  *)
(* written is in the directory still, or its complete file is on the server  *)
(* at this moment (an upload that is repeated truncates the copy the server  *)
(* had), or _ftpmove took a short read of it for its end, and deleted it     *)
(* while the server holds a part.                                            *)
NotLost == \A k \in published : k \in visible \cup cut \/ server[k] = "whole"

(* The result the docs daemon reports (tray icon, exchange activity): a pass *)
(* that ends without error has put all it listed on the server, but for a    *)
(* file whose reading ended early.                                           *)
OkMeansSent == pc = "arm" /\ ok => \A k \in listed \ cut : server[k] = "whole"

(* With a wake-up interval the daemon never sleeps for good over a package:  *)
(* while it waits, its event is set or the trigger that will set it is       *)
(* armed, unless the last SetTimeoutTrigger failed: it has deleted the old   *)
(* trigger by then, and ActProc does not look at its result.                 *)
WakeUpIsSet == pc = "wait" /\ Wakeup => notify \/ timer \/ unarmed

Promise == INSTANCE Delivery
             WITH written <- published, delivered <- received, spoiled <- cut

(* The daemon implements the abstract delivery: nothing reaches the server   *)
(* that was not written, and what reached it is never taken back, but for a  *)
(* part that the server was told is the whole.                               *)
DeliveryPromise == Promise!DeliverySpec

(* No failure of SetTimeoutTrigger leaves the daemon asleep for good: until a *)
(* screen asks or it is started again, nobody sets its event after one.      *)
WakesUp == []<>~(pc = "wait" /\ unarmed /\ ~notify /\ ~timer)

(* With a wake-up interval that can be armed every package is delivered in   *)
(* the end (or spoiled, see DeliveryPromise), in spite of lost connections,  *)
(* crashes, and requests that ResetEvent swallows.                           *)
EventuallyDelivered == WakesUp => Promise!DeliveryFairness

(* On the same condition the directory is emptied: a package does not stay   *)
(* in it for ever, even if its deletion failed after an upload and it is     *)
(* uploaded once more.                                                       *)
EventuallyRemoved ==
  WakesUp => \A k \in Packages : k \in visible ~> k \notin visible

(* A request to send (work->end = docs acts in config/omobus-mobile.conf)    *)
(* sends the packages that were in the directory when it was made.           *)
RequestIsServed == \A k \in Packages : k \in asked ~> k \in received
=============================================================================
