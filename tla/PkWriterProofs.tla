--------------------------- MODULE PkWriterProofs ---------------------------
(***************************************************************************)
(* Proofs about PkWriter, for every number of processes, threads and       *)
(* packages, whatever faults may happen.                                   *)
(***************************************************************************)
EXTENDS PkWriter, TLAPS

(***************************************************************************)
(* The inductive invariant.                                                *)
(***************************************************************************)
Busy(w)    == call[w].at # "idle"
Named(w)   == call[w].at \in {"write", "close", "move"}
FilesOf(w) == {f \in published : f.kind = KindOf[w]}

(* A thread inside a call is one of a running process, writes a package that *)
(* was taken from the fresh ones and has drawn its number.                   *)
CallsAreReal ==
  \A w \in Writers : Busy(w) =>
    /\ ProcOf[w] \in up
    /\ call[w].pkg \in Packages \ fresh
    /\ call[w].num <= pknum[ProcOf[w]]

(* The threads of one process have different numbers. *)
NumbersDiffer ==
  \A v, w \in Writers :
    v # w /\ Busy(v) /\ Busy(w) /\ ProcOf[v] = ProcOf[w]
      => call[v].num # call[w].num

(* No two calls write the same package, and none writes one that was *)
(* published before.                                                 *)
PackagesDiffer ==
  /\ \A v, w \in Writers :
       v # w /\ Busy(v) /\ Busy(w) => call[v].pkg # call[w].pkg
  /\ \A f \in published : f.pkg \notin fresh
  /\ \A w \in Writers : \A f \in published : Busy(w) => f.pkg # call[w].pkg

(* A hidden file a thread has opened holds the thread's own package, and all *)
(* of it once pkclose has flushed it.                                        *)
TempIsOwn ==
  \A w \in Writers : \A t \in TempOf(w) :
    /\ Named(w) => t.pkg = call[w].pkg
    /\ call[w].at = "move" /\ "flush" \notin happened => t.whole

PublishedIsWhole == "flush" \notin happened => \A f \in published : f.whole

(* The clock runs forward: what is stamped was stamped before now. *)
ClockRuns ==
  /\ \A p \in Procs : since[p] <= clock
  /\ \A f \in published : f.stamp <= clock
  /\ \A w \in Writers : Named(w) => call[w].stamp \in since[ProcOf[w]] .. clock
  /\ \A w \in Writers : \A f \in FilesOf(w) :
       ProcOf[w] \notin up => f.stamp <= since[ProcOf[w]]

(* What a process has published since it started bears a number its counter *)
(* has passed, and no number of a call that is under way.                   *)
NumbersPassed ==
  \A w \in Writers : \A f \in FilesOf(w) :
    ProcOf[w] \in up /\ f.stamp >= since[ProcOf[w]] =>
      /\ f.num <= pknum[ProcOf[w]]
      /\ Busy(w) => f.num # call[w].num

(* Both hold as long as nobody sets the clock back. *)
ClockGoesOn == "clock" \notin happened => ClockRuns
NumbersGoOn == "clock" \notin happened => NumbersPassed

WriterInv ==
  /\ WriterTypeOK
  /\ CallsAreReal
  /\ NumbersDiffer
  /\ PackagesDiffer
  /\ OneNamePerPackage
  /\ TempIsOwn
  /\ PublishedIsWhole
  /\ ClockGoesOn
  /\ NumbersGoOn
  /\ NamesUnique
  /\ StoredIsPublished

(* A call that goes on to its next step changes nothing else. *)
LEMMA CallGoesOn ==
  ASSUME call \in [Writers -> Calls], NEW w \in Writers,
         NEW at \in {"idle", "open", "write", "close", "move"},
         call' = [call EXCEPT ![w].at = at]
  PROVE  /\ call' \in [Writers -> Calls]
         /\ call'[w].at = at
         /\ \A v \in Writers :
              /\ v # w => call'[v] = call[v]
              /\ call'[v].pkg = call[v].pkg
              /\ call'[v].num = call[v].num
              /\ call'[v].ext = call[v].ext
              /\ call'[v].stamp = call[v].stamp
<1>1. /\ call[w] \in Calls /\ call'[w] = [call[w] EXCEPT !.at = at]
      /\ call' = [call EXCEPT ![w] = [call[w] EXCEPT !.at = at]]
  OBVIOUS
<1>2. [call[w] EXCEPT !.at = at] \in Calls
  BY <1>1 DEF Calls
<1> QED
  BY <1>1, <1>2 DEF Calls

-----------------------------------------------------------------------------
(* Types of what the actions make: locals of an idle thread, files. *)
LEMMA IdleIsCall == Idle \in Calls
BY DEF Idle, Calls, Exts

(* What a call works on is a hidden file. *)
LEMMA TempFileType ==
  ASSUME WriterTypeOK, CallsAreReal, NEW w \in Writers, NEW b \in BOOLEAN, Busy(w)
  PROVE  TempFile(w, b) \in TempFiles
BY DEF WriterTypeOK, CallsAreReal, Calls, TempFile, TempFiles, Kinds

(* What a call publishes is a file. *)
LEMMA FinalType ==
  ASSUME WriterTypeOK, CallsAreReal, NEW w \in Writers, NEW t \in TempOf(w)
  PROVE  Final(w, t) \in Files
BY DEF WriterTypeOK, Calls, TempOf, TempFiles, Final, Files, Kinds

-----------------------------------------------------------------------------
(***************************************************************************)
(* Every step keeps the invariant, one part after the other: a part rests  *)
(* on those before it only.                                                *)
(***************************************************************************)

(* Type correctness. *)
LEMMA TypeStep ==
  WriterTypeOK /\ CallsAreReal /\ [WriterNext]_writerVars => WriterTypeOK'
<1> SUFFICES ASSUME WriterTypeOK /\ CallsAreReal, [WriterNext]_writerVars
             PROVE  WriterTypeOK'
  OBVIOUS
<1> USE WriterAssumption DEF WriterTypeOK, procVars, fileVars, Fault
<1>1. ASSUME NEW w \in Writers, NEW k \in Packages, Begin(w, k)
      PROVE  WriterTypeOK'
  <2>1. call' \in [Writers -> Calls]
    BY <1>1 DEF Begin, Calls, Exts
  <2>2. pknum' \in [Procs -> Nat]
    BY <1>1 DEF Begin
  <2> QED
    BY <1>1, <2>1, <2>2 DEF Begin
<1>2. ASSUME NEW w \in Writers, Open(w)
      PROVE  WriterTypeOK'
  <2>1. TempFile(w, FALSE) \in TempFiles
    BY <1>2, TempFileType DEF Open, Busy
  <2> QED
    BY <1>2, <2>1 DEF Open, Calls
<1>3. ASSUME NEW w \in Writers, Write(w)
      PROVE  WriterTypeOK'
  <2>1. call' \in [Writers -> Calls]
    BY <1>3, CallGoesOn DEF Write
  <2> QED
    BY <1>3, <2>1 DEF Write
<1>4. ASSUME NEW w \in Writers, Retry(w)
      PROVE  WriterTypeOK'
  <2>1. CASE call' = [call EXCEPT ![w].ext = "xml", ![w].at = "open"]
    BY <1>4, <2>1 DEF Retry, Calls, Exts
  <2>2. CASE call' = [call EXCEPT ![w] = Idle]
    BY <1>4, <2>2, IdleIsCall DEF Retry
  <2> QED
    BY <1>4, <2>1, <2>2 DEF Retry
<1>5. ASSUME NEW w \in Writers, Close(w)
      PROVE  WriterTypeOK'
  <2>1. TempFile(w, TRUE) \in TempFiles
    BY <1>5, TempFileType DEF Close, Busy
  <2>2. temp' \subseteq TempFiles
    BY <1>5, <2>1 DEF Close
  <2>3. call' \in [Writers -> Calls]
    BY <1>5, CallGoesOn DEF Close
  <2> QED
    BY <1>5, <2>2, <2>3 DEF Close
<1>6. ASSUME NEW w \in Writers, Move(w)
      PROVE  WriterTypeOK'
  <2>1. call[w].pkg \in Packages
    BY <1>6 DEF Move, CallsAreReal, Busy
  <2>2. call' \in [Writers -> Calls]
    BY <1>6, IdleIsCall DEF Move
  <2>3. PICK t \in TempOf(w) :
           \/ /\ temp' = temp \ {t}
              /\ visible' = visible \cup {Final(w, t)}
              /\ published' = published \cup {Final(w, t)}
           \/ UNCHANGED <<temp, visible, published>>
    BY <1>6 DEF Move
  <2>4. Final(w, t) \in Files
    BY FinalType
  <2>5. temp' \subseteq TempFiles /\ visible' \subseteq published' /\ published' \subseteq Files
    BY <2>3, <2>4
  <2>6. happened' \subseteq {"move", "flush", "clock"}
    BY <1>6 DEF Move
  <2> QED
    BY <1>6, <2>1, <2>2, <2>5, <2>6 DEF Move
<1>7. ASSUME NEW p \in Procs, Halt(p)
      PROVE  WriterTypeOK'
  <2>1. call' \in [Writers -> Calls]
    BY <1>7, IdleIsCall DEF Halt
  <2> QED
    BY <1>7, <2>1 DEF Halt
<1>8. ASSUME NEW p \in Procs, Launch(p)
      PROVE  WriterTypeOK'
  BY <1>8 DEF Launch
<1>9. CASE Tick
  BY <1>9 DEF Tick
<1>10. CASE SetBack
  BY <1>10 DEF SetBack
<1>11. ASSUME NEW f \in visible, Take(f)
      PROVE  WriterTypeOK'
  BY <1>11 DEF Take
<1>12. CASE UNCHANGED writerVars
  BY <1>12 DEF writerVars
<1> QED
  BY <1>1, <1>2, <1>3, <1>4, <1>5, <1>6,
     <1>7, <1>8, <1>9, <1>10, <1>11, <1>12
     DEF WriterNext, WriterStep, Call

(* The interlocked increment keeps the numbers of a process apart. *)
LEMMA CallsStep ==
  WriterTypeOK /\ CallsAreReal /\ NumbersDiffer
    /\ [WriterNext]_writerVars => (CallsAreReal /\ NumbersDiffer)'
<1> SUFFICES ASSUME WriterTypeOK, CallsAreReal, NumbersDiffer,
                    [WriterNext]_writerVars
             PROVE  (CallsAreReal /\ NumbersDiffer)'
  OBVIOUS
<1> USE WriterAssumption
    DEF WriterTypeOK, CallsAreReal, NumbersDiffer, Busy, Calls, Idle,
        procVars, fileVars
<1>1. ASSUME NEW w \in Writers, NEW k \in Packages, Begin(w, k)
      PROVE  (CallsAreReal /\ NumbersDiffer)'
  BY <1>1 DEF Begin
<1>2. ASSUME NEW w \in Writers, Open(w)
      PROVE  (CallsAreReal /\ NumbersDiffer)'
  BY <1>2 DEF Open
<1>3. ASSUME NEW w \in Writers, Write(w)
      PROVE  (CallsAreReal /\ NumbersDiffer)'
  BY <1>3 DEF Write
<1>4. ASSUME NEW w \in Writers, Retry(w)
      PROVE  (CallsAreReal /\ NumbersDiffer)'
  <2>1. CASE call' = [call EXCEPT ![w].ext = "xml", ![w].at = "open"]
    BY <1>4, <2>1 DEF Retry
  <2>2. CASE call' = [call EXCEPT ![w] = Idle]
    BY <1>4, <2>2 DEF Retry
  <2> QED
    BY <1>4, <2>1, <2>2 DEF Retry
<1>5. ASSUME NEW w \in Writers, Close(w)
      PROVE  (CallsAreReal /\ NumbersDiffer)'
  BY <1>5 DEF Close
<1>6. ASSUME NEW w \in Writers, Move(w)
      PROVE  (CallsAreReal /\ NumbersDiffer)'
  BY <1>6 DEF Move
<1>7. ASSUME NEW p \in Procs, Halt(p)
      PROVE  (CallsAreReal /\ NumbersDiffer)'
  BY <1>7 DEF Halt
<1>8. ASSUME NEW p \in Procs, Launch(p)
      PROVE  (CallsAreReal /\ NumbersDiffer)'
  BY <1>8 DEF Launch
<1>9. CASE Tick
  BY <1>9 DEF Tick
<1>10. CASE SetBack
  BY <1>10 DEF SetBack
<1>11. ASSUME NEW f \in visible, Take(f)
      PROVE  (CallsAreReal /\ NumbersDiffer)'
  BY <1>11 DEF Take
<1>12. CASE UNCHANGED writerVars
  BY <1>12 DEF writerVars
<1> QED
  BY <1>1, <1>2, <1>3, <1>4, <1>5, <1>6,
     <1>7, <1>8, <1>9, <1>10, <1>11, <1>12
     DEF WriterNext, WriterStep, Call

(* A package is drawn once, and published by the call that drew it. *)
LEMMA PackageStep ==
  WriterTypeOK /\ CallsAreReal /\ PackagesDiffer /\ TempIsOwn
    /\ [WriterNext]_writerVars => PackagesDiffer'
<1> SUFFICES ASSUME WriterTypeOK, CallsAreReal, PackagesDiffer, TempIsOwn,
                    [WriterNext]_writerVars
             PROVE  PackagesDiffer'
  OBVIOUS
<1> USE DEF WriterTypeOK, CallsAreReal, PackagesDiffer, Busy, Calls, Idle,
        procVars, fileVars
<1>1. ASSUME NEW w \in Writers, NEW k \in Packages, Begin(w, k)
      PROVE  PackagesDiffer'
  BY <1>1 DEF Begin
<1>2. ASSUME NEW w \in Writers, Open(w)
      PROVE  PackagesDiffer'
  BY <1>2 DEF Open
<1>3. ASSUME NEW w \in Writers, Write(w)
      PROVE  PackagesDiffer'
  BY <1>3 DEF Write
<1>4. ASSUME NEW w \in Writers, Retry(w)
      PROVE  PackagesDiffer'
  <2>1. \A v \in Writers : call'[v].at # "idle" =>
          call[v].at # "idle" /\ call'[v].pkg = call[v].pkg
    BY <1>4 DEF Retry
  <2>2. UNCHANGED <<fresh, published>>
    BY <1>4 DEF Retry
  <2> QED
    BY <2>1, <2>2
<1>5. ASSUME NEW w \in Writers, Close(w)
      PROVE  PackagesDiffer'
  BY <1>5 DEF Close
<1>6. ASSUME NEW w \in Writers, Move(w)
      PROVE  PackagesDiffer'
  <2>1. ASSUME NEW f \in published'
        PROVE  f \in published \/ f.pkg = call[w].pkg
    BY <1>6 DEF Move, Final, TempIsOwn, Named
  <2> QED
    BY <1>6, <2>1 DEF Move
<1>7. ASSUME NEW p \in Procs, Halt(p)
      PROVE  PackagesDiffer'
  BY <1>7 DEF Halt
<1>8. ASSUME NEW p \in Procs, Launch(p)
      PROVE  PackagesDiffer'
  BY <1>8 DEF Launch
<1>9. CASE Tick
  BY <1>9 DEF Tick
<1>10. CASE SetBack
  BY <1>10 DEF SetBack
<1>11. ASSUME NEW f \in visible, Take(f)
      PROVE  PackagesDiffer'
  BY <1>11 DEF Take
<1>12. CASE UNCHANGED writerVars
  BY <1>12 DEF writerVars
<1> QED
  BY <1>1, <1>2, <1>3, <1>4, <1>5, <1>6,
     <1>7, <1>8, <1>9, <1>10, <1>11, <1>12
     DEF WriterNext, WriterStep, Call

(* Other threads have other numbers, and so do not touch a thread's hidden *)
(* file.                                                                   *)
LEMMA TempStep ==
  WriterTypeOK /\ CallsAreReal /\ NumbersDiffer /\ TempIsOwn
    /\ [WriterNext]_writerVars => TempIsOwn'
<1> SUFFICES ASSUME WriterTypeOK, CallsAreReal, NumbersDiffer, TempIsOwn,
                    [WriterNext]_writerVars
             PROVE  TempIsOwn'
  OBVIOUS
<1> USE WriterAssumption
    DEF WriterTypeOK, CallsAreReal, NumbersDiffer, TempIsOwn, TempOf,
        TempFile, Busy, Named, Calls, Idle, procVars, fileVars, Fault
<1>1. ASSUME NEW w \in Writers, NEW k \in Packages, Begin(w, k)
      PROVE  TempIsOwn'
  BY <1>1 DEF Begin
<1>2. ASSUME NEW w \in Writers, Open(w)
      PROVE  TempIsOwn'
  BY <1>2 DEF Open
<1>3. ASSUME NEW w \in Writers, Write(w)
      PROVE  TempIsOwn'
  BY <1>3 DEF Write
<1>4. ASSUME NEW w \in Writers, Retry(w)
      PROVE  TempIsOwn'
  BY <1>4 DEF Retry
<1>5. ASSUME NEW w \in Writers, Close(w)
      PROVE  TempIsOwn'
  BY <1>5 DEF Close
<1>6. ASSUME NEW w \in Writers, Move(w)
      PROVE  TempIsOwn'
  BY <1>6 DEF Move
<1>7. ASSUME NEW p \in Procs, Halt(p)
      PROVE  TempIsOwn'
  BY <1>7 DEF Halt
<1>8. ASSUME NEW p \in Procs, Launch(p)
      PROVE  TempIsOwn'
  BY <1>8 DEF Launch
<1>9. CASE Tick
  BY <1>9 DEF Tick
<1>10. CASE SetBack
  BY <1>10 DEF SetBack
<1>11. ASSUME NEW f \in visible, Take(f)
      PROVE  TempIsOwn'
  BY <1>11 DEF Take
<1>12. CASE UNCHANGED writerVars
  BY <1>12 DEF writerVars
<1> QED
  BY <1>1, <1>2, <1>3, <1>4, <1>5, <1>6,
     <1>7, <1>8, <1>9, <1>10, <1>11, <1>12
     DEF WriterNext, WriterStep, Call

(* Only MoveFile gives a final name. *)
LEMMA OnlyMovePublishes ==
  [WriterNext]_writerVars =>
    (UNCHANGED <<published, stored>> \/ \E w \in Writers : Move(w)) /\ happened \subseteq happened'
<1> SUFFICES ASSUME [WriterNext]_writerVars, ~ \E w \in Writers : Move(w)
             PROVE  UNCHANGED <<published, stored>> /\ happened \subseteq happened'
  BY DEF Move, Fault
<1> USE DEF procVars, fileVars, Fault
<1>1. ASSUME NEW w \in Writers, Open(w) \/ Write(w) \/ Retry(w) \/ Close(w)
      PROVE  UNCHANGED <<published, stored>> /\ happened \subseteq happened'
  BY <1>1 DEF Open, Write, Retry, Close
<1>2. ASSUME NEW w \in Writers, NEW k \in Packages, Begin(w, k)
      PROVE  UNCHANGED <<published, stored>> /\ happened \subseteq happened'
  BY <1>2 DEF Begin
<1>3. ASSUME NEW p \in Procs, Halt(p) \/ Launch(p)
      PROVE  UNCHANGED <<published, stored>> /\ happened \subseteq happened'
  BY <1>3 DEF Halt, Launch
<1>4. CASE Tick \/ SetBack \/ (\E f \in visible : Take(f)) \/ UNCHANGED writerVars
  BY <1>4 DEF Tick, SetBack, Take, writerVars
<1> QED
  BY <1>1, <1>2, <1>3, <1>4 DEF WriterNext, WriterStep, Call

(* What is moved was flushed. *)
LEMMA WholeStep ==
  TempIsOwn /\ PublishedIsWhole
    /\ [WriterNext]_writerVars => PublishedIsWhole'
<1> SUFFICES ASSUME TempIsOwn, PublishedIsWhole, [WriterNext]_writerVars
             PROVE  PublishedIsWhole'
  OBVIOUS
<1>1. CASE UNCHANGED published
  BY <1>1, OnlyMovePublishes DEF PublishedIsWhole
<1>2. ASSUME NEW w \in Writers, Move(w)
      PROVE  PublishedIsWhole'
  BY <1>2 DEF Move, Final, Fault, fileVars, TempIsOwn, PublishedIsWhole
<1> QED
  BY <1>1, <1>2, OnlyMovePublishes

(* The package that is moved was not published before. *)
LEMMA OneNameStep ==
  TempIsOwn /\ PackagesDiffer /\ OneNamePerPackage /\ [WriterNext]_writerVars
    => OneNamePerPackage'
<1> SUFFICES ASSUME TempIsOwn, PackagesDiffer, OneNamePerPackage,
                    [WriterNext]_writerVars
             PROVE  OneNamePerPackage'
  OBVIOUS
<1>1. CASE UNCHANGED published
  BY <1>1 DEF OneNamePerPackage
<1>2. ASSUME NEW w \in Writers, Move(w)
      PROVE  OneNamePerPackage'
  <2>1. PICK t \in TempOf(w) :
           published' \in {published, published \cup {Final(w, t)}}
    BY <1>2 DEF Move, fileVars
  <2>2. Final(w, t).pkg = call[w].pkg
    BY <1>2, <2>1 DEF Move, Final, TempIsOwn, Named
  <2>3. \A f \in published : f.pkg # call[w].pkg
    BY <1>2 DEF Move, PackagesDiffer, Busy
  <2> QED
    BY <2>1, <2>2, <2>3 DEF OneNamePerPackage
<1> QED
  BY <1>1, <1>2, OnlyMovePublishes

(* Stamps lie between the start of the process and now. *)
LEMMA ClockStep ==
  WriterTypeOK /\ CallsAreReal /\ ClockGoesOn
    /\ [WriterNext]_writerVars => ClockGoesOn'
<1> SUFFICES ASSUME WriterTypeOK, CallsAreReal, ClockGoesOn,
                    [WriterNext]_writerVars
             PROVE  ClockGoesOn'
  OBVIOUS
<1> USE WriterAssumption
    DEF WriterTypeOK, CallsAreReal, ClockGoesOn, ClockRuns, FilesOf, Busy,
        Named, Calls, Idle, procVars, fileVars, Fault
<1>1. ASSUME NEW w \in Writers, NEW k \in Packages, Begin(w, k)
      PROVE  ClockGoesOn'
  BY <1>1 DEF Begin
<1>2. ASSUME NEW w \in Writers, Open(w)
      PROVE  ClockGoesOn'
  BY <1>2 DEF Open
<1>3. ASSUME NEW w \in Writers, Write(w)
      PROVE  ClockGoesOn'
  BY <1>3 DEF Write
<1>4. ASSUME NEW w \in Writers, Retry(w)
      PROVE  ClockGoesOn'
  <2>1. /\ \A v \in Writers \ {w} : call'[v] = call[v]
        /\ call'[w].at \in {"open", "idle"}
    <3>1. CASE call' = [call EXCEPT ![w].ext = "xml", ![w].at = "open"]
      BY <3>1
    <3>2. CASE call' = [call EXCEPT ![w] = Idle]
      BY <3>2
    <3> QED
      BY <1>4, <3>1, <3>2 DEF Retry
  <2>2. UNCHANGED <<clock, up, since, pknum, published, happened>>
    BY <1>4 DEF Retry
  <2> QED
    BY <2>1, <2>2
<1>5. ASSUME NEW w \in Writers, Close(w)
      PROVE  ClockGoesOn'
  <2>1. \A v \in Writers : (call'[v].at = "idle" <=> call[v].at = "idle")
                           /\ call'[v].stamp = call[v].stamp
    BY <1>5, CallGoesOn DEF Close
  <2>2. /\ UNCHANGED <<clock, up, since, pknum, published>>
        /\ "clock" \in happened => "clock" \in happened'
    BY <1>5 DEF Close
  <2> QED
    BY <1>5, <2>1, <2>2 DEF Close
<1>6. ASSUME NEW w \in Writers, Move(w)
      PROVE  ClockGoesOn'
  BY <1>6 DEF Move, Final
<1>7. ASSUME NEW p \in Procs, Halt(p)
      PROVE  ClockGoesOn'
  BY <1>7 DEF Halt
<1>8. ASSUME NEW p \in Procs, Launch(p)
      PROVE  ClockGoesOn'
  BY <1>8 DEF Launch
<1>9. CASE Tick
  BY <1>9 DEF Tick, Files
<1>10. CASE SetBack
  BY <1>10 DEF SetBack
<1>11. ASSUME NEW f \in visible, Take(f)
      PROVE  ClockGoesOn'
  BY <1>11 DEF Take
<1>12. CASE UNCHANGED writerVars
  BY <1>12 DEF writerVars
<1> QED
  BY <1>1, <1>2, <1>3, <1>4, <1>5, <1>6,
     <1>7, <1>8, <1>9, <1>10, <1>11, <1>12
     DEF WriterNext, WriterStep, Call

(* Files of earlier instances have older stamps, those of this one lower numbers. *)
LEMMA NumberStep ==
  WriterTypeOK /\ CallsAreReal /\ NumbersDiffer /\ ClockGoesOn /\ NumbersGoOn
    /\ [WriterNext]_writerVars => NumbersGoOn'
<1> SUFFICES ASSUME WriterTypeOK, CallsAreReal, NumbersDiffer, ClockGoesOn,
                    NumbersGoOn, [WriterNext]_writerVars
             PROVE  NumbersGoOn'
  OBVIOUS
<1> USE WriterAssumption
    DEF WriterTypeOK, CallsAreReal, NumbersDiffer, ClockGoesOn, NumbersGoOn,
        ClockRuns, NumbersPassed, FilesOf, Busy, Named, Calls, Idle,
        procVars, fileVars, Fault
<1>1. ASSUME NEW w \in Writers, NEW k \in Packages, Begin(w, k)
      PROVE  NumbersGoOn'
  BY <1>1 DEF Begin, Files
<1>2. ASSUME NEW w \in Writers, Open(w)
      PROVE  NumbersGoOn'
  BY <1>2 DEF Open
<1>3. ASSUME NEW w \in Writers, Write(w)
      PROVE  NumbersGoOn'
  BY <1>3 DEF Write
<1>4. ASSUME NEW w \in Writers, Retry(w)
      PROVE  NumbersGoOn'
  BY <1>4 DEF Retry
<1>5. ASSUME NEW w \in Writers, Close(w)
      PROVE  NumbersGoOn'
  <2>1. \A v \in Writers : /\ call'[v].num = call[v].num
                           /\ Busy(v)' => Busy(v)
    BY <1>5 DEF Close
  <2>2. UNCHANGED <<up, since, pknum, published>> /\ happened \subseteq happened'
    BY <1>5 DEF Close
  <2> QED
    BY <2>1, <2>2
<1>6. ASSUME NEW w \in Writers, Move(w)
      PROVE  NumbersGoOn'
  BY <1>6 DEF Move, Final
<1>7. ASSUME NEW p \in Procs, Halt(p)
      PROVE  NumbersGoOn'
  BY <1>7 DEF Halt
<1>8. ASSUME NEW p \in Procs, Launch(p)
      PROVE  NumbersGoOn'
  BY <1>8 DEF Launch, Files
<1>9. CASE Tick
  BY <1>9 DEF Tick
<1>10. CASE SetBack
  BY <1>10 DEF SetBack
<1>11. ASSUME NEW f \in visible, Take(f)
      PROVE  NumbersGoOn'
  BY <1>11 DEF Take
<1>12. CASE UNCHANGED writerVars
  BY <1>12 DEF writerVars
<1> QED
  BY <1>1, <1>2, <1>3, <1>4, <1>5, <1>6,
     <1>7, <1>8, <1>9, <1>10, <1>11, <1>12
     DEF WriterNext, WriterStep, Call

(* Unless the clock was set back, MoveFile finds its name free. *)
LEMMA NameIsFree ==
  ASSUME WriterTypeOK, CallsAreReal, ClockRuns, NumbersPassed,
         NEW w \in Writers, call[w].at = "move", NEW t \in TempOf(w),
         NEW g \in published
  PROVE  ~SameName(Final(w, t), g)
<1> SUFFICES ASSUME SameName(Final(w, t), g)
             PROVE  FALSE
  OBVIOUS
<1>1. g \in FilesOf(w) /\ g.num = call[w].num /\ g.stamp = call[w].stamp
  BY DEF SameName, Final, FilesOf
<1>2. ProcOf[w] \in up /\ g.stamp \in since[ProcOf[w]] .. clock
  BY <1>1 DEF CallsAreReal, ClockRuns, Busy, Named
<1>3. since[ProcOf[w]] \in Nat /\ clock \in Nat
  BY WriterAssumption DEF WriterTypeOK
<1> QED
  BY <1>1, <1>2, <1>3 DEF NumbersPassed, Busy

(* The name given by MoveFile is one no file ever had. *)
LEMMA NamesStep ==
  WriterTypeOK /\ CallsAreReal /\ ClockGoesOn /\ NumbersGoOn /\ NamesUnique
    /\ [WriterNext]_writerVars => NamesUnique'
<1> SUFFICES ASSUME WriterTypeOK, CallsAreReal, ClockGoesOn, NumbersGoOn,
                    NamesUnique, [WriterNext]_writerVars, "clock" \notin happened'
             PROVE  \A f, g \in published' : SameName(f, g) => f.pkg = g.pkg
  BY DEF NamesUnique, SameName
<1>1. ClockRuns /\ NumbersPassed /\ \A f, g \in published : SameName(f, g) => f.pkg = g.pkg
  BY OnlyMovePublishes DEF ClockGoesOn, NumbersGoOn, NamesUnique
<1>2. CASE UNCHANGED published
  BY <1>1, <1>2
<1>3. ASSUME NEW w \in Writers, Move(w)
      PROVE  \A f, g \in published' : SameName(f, g) => f.pkg = g.pkg
  <2>1. PICK t \in TempOf(w) :
           published' \in {published, published \cup {Final(w, t)}}
    BY <1>3 DEF Move, fileVars
  <2>2. \A g \in published : ~SameName(Final(w, t), g)
    BY <1>1, <1>3, NameIsFree DEF Move
  <2>3. \A f, g \in published' : SameName(f, g) => SameName(g, f)
    BY DEF SameName
  <2> QED
    BY <1>1, <2>1, <2>2, <2>3
<1> QED
  BY <1>2, <1>3, OnlyMovePublishes

(* Without a fault, Move ends with the whole package under its name. *)
LEMMA StoredStep ==
  WriterTypeOK /\ CallsAreReal /\ ClockGoesOn /\ NumbersGoOn /\ TempIsOwn
    /\ StoredIsPublished /\ [WriterNext]_writerVars => StoredIsPublished'
<1> SUFFICES ASSUME WriterTypeOK, CallsAreReal, ClockGoesOn, NumbersGoOn, TempIsOwn,
                    StoredIsPublished, [WriterNext]_writerVars, happened' = {},
                    NEW k \in stored'
             PROVE  \E f \in published' : f.pkg = k /\ f.whole
  BY DEF StoredIsPublished
<1>1. happened = {}
  BY OnlyMovePublishes
<1>2. CASE k \in stored
  <2>1. published \subseteq published'
    BY OnlyMovePublishes DEF Move, fileVars
  <2> QED
    BY <1>1, <1>2, <2>1 DEF StoredIsPublished
<1>3. CASE k \notin stored
  <2>1. PICK w \in Writers : Move(w)
    BY <1>3, OnlyMovePublishes
  <2>2. call[w].at = "move" /\ k = call[w].pkg
    BY <1>3, <2>1 DEF Move
  <2>3. \A t \in TempOf(w), g \in visible : ~SameName(Final(w, t), g)
    BY <1>1, <2>2, NameIsFree DEF ClockGoesOn, NumbersGoOn, WriterTypeOK
  <2>4. PICK t \in TempOf(w) : Final(w, t) \in published'
    BY <2>1, <2>3 DEF Move, Fault
  <2>5. Final(w, t).pkg = k /\ Final(w, t).whole
    BY <1>1, <2>2 DEF TempIsOwn, Named, Final
  <2> QED
    BY <2>4, <2>5
<1> QED
  BY <1>2, <1>3

(* The invariant holds at first, and always. *)
LEMMA InitInv == WriterInit => WriterInv
BY WriterAssumption, IdleIsCall
DEF WriterInit, WriterInv, WriterTypeOK, CallsAreReal, NumbersDiffer, PackagesDiffer,
    OneNamePerPackage, TempIsOwn, TempOf, PublishedIsWhole, ClockGoesOn, ClockRuns,
    NumbersGoOn, NumbersPassed, FilesOf, NamesUnique, StoredIsPublished, Busy, Named,
    Idle

(* WriterInv is an invariant of the writer. *)
LEMMA Invariance == WriterSpec => []WriterInv
<1>1. WriterInv /\ [WriterNext]_writerVars => WriterInv'
  BY TypeStep, CallsStep, PackageStep, TempStep, WholeStep, OneNameStep, ClockStep,
     NumberStep, NamesStep, StoredStep
  DEF WriterInv
<1> QED
  BY <1>1, InitInv, PTL DEF WriterSpec

-----------------------------------------------------------------------------
(***************************************************************************)
(* The theorems.                                                           *)
(***************************************************************************)

(* Locals, counters and files of WriteOmobusXmlPk are always well formed. *)
THEOREM TypeCorrect == WriterSpec => []WriterTypeOK
BY Invariance, PTL DEF WriterInv

(* No file of the directory that _flist lists is torn, unless pkclose failed *)
(* to flush one: threads that write at the same time and hidden files left   *)
(* by a crash do not matter.                                                 *)
THEOREM ListedFilesAreWhole == WriterSpec => []VisibleIsWhole
<1>1. WriterInv => VisibleIsWhole
  BY DEF WriterInv, WriterTypeOK, PublishedIsWhole, VisibleIsWhole
<1> QED
  BY <1>1, Invariance, PTL

(* The interlocked counter of WriteOmobusXmlPk keeps the hidden files of the *)
(* threads apart.                                                            *)
THEOREM HiddenFilesAreExclusive == WriterSpec => []TempExclusive
<1>1. WriterInv => TempExclusive
  BY WriterAssumption DEF WriterInv, NumbersDiffer, TempExclusive, Busy
<1> QED
  BY <1>1, Invariance, PTL

(* A final name is never used for two packages, unless the clock is set back: *)
(* the time tells the instances of a process apart, the counter the packages  *)
(* of one instance.                                                           *)
THEOREM FinalNamesAreUnique == WriterSpec => []NamesUnique
BY Invariance, PTL DEF WriterInv

(* No package is published twice, by the second attempt of the loop or by *)
(* another thread.                                                        *)
THEOREM PublishedOnce == WriterSpec => []OneNamePerPackage
BY Invariance, PTL DEF WriterInv

(* OMOBUS_OK from WriteOmobusXmlPk means a complete file under a final name, *)
(* but for the three faults the code does not look at.                       *)
THEOREM ResultIsTrue == WriterSpec => []StoredIsPublished
BY Invariance, PTL DEF WriterInv

(* The threads together implement the directory the sender relies on. *)
THEOREM Implements == WriterSpec => DirPromise
<1>1. WriterInit => Dir!DirInit
  BY DEF WriterInit, Dir!DirInit
<1>2. WriterInv /\ [WriterNext]_writerVars => [Dir!DirNext]_(Dir!dirVars)
  <2> SUFFICES ASSUME WriterInv, [WriterNext]_writerVars
               PROVE  Dir!DirNext \/ UNCHANGED <<visible, published>>
    BY DEF Dir!dirVars
  <2>1. ASSUME NEW f \in visible, Take(f)
        PROVE  Dir!DirNext
    <3>1. \A g \in visible : g.pkg = f.pkg => g = f
      BY DEF WriterInv, WriterTypeOK, OneNamePerPackage
    <3>2. Dir!Take(f.pkg)
      BY <2>1, <3>1 DEF Take, Dir!Take
    <3>3. f.pkg \in Packages
      BY DEF WriterInv, WriterTypeOK, Files
    <3> QED
      BY <3>2, <3>3 DEF Dir!DirNext
  <2>2. ASSUME NEW w \in Writers, Move(w)
        PROVE  Dir!DirNext \/ UNCHANGED <<visible, published>>
    <3>1. PICK t \in TempOf(w) :
             \/ /\ visible' = visible \cup {Final(w, t)}
                /\ published' = published \cup {Final(w, t)}
             \/ UNCHANGED <<visible, published>>
      BY <2>2 DEF Move, fileVars
    <3>2. PICK k \in Packages : k = call[w].pkg
      BY <2>2 DEF Move, WriterInv, CallsAreReal, Busy
    <3>3. Final(w, t).pkg = k
      BY <2>2, <3>1, <3>2 DEF Move, Final, WriterInv, TempIsOwn, Named
    <3>4. \A f \in published : f.pkg # k
      BY <2>2, <3>2 DEF Move, WriterInv, PackagesDiffer, Busy
    <3>5. Dir!Publish(k) \/ UNCHANGED <<visible, published>>
      BY <3>1, <3>3, <3>4 DEF Dir!Publish
    <3> QED
      BY <3>5 DEF Dir!DirNext
  <2>3. ASSUME NEW w \in Writers, Open(w) \/ Write(w) \/ Retry(w) \/ Close(w)
        PROVE  UNCHANGED <<visible, published>>
    BY <2>3 DEF Open, Write, Retry, Close, fileVars
  <2>4. ASSUME NEW w \in Writers, NEW k \in Packages, Begin(w, k)
        PROVE  UNCHANGED <<visible, published>>
    BY <2>4 DEF Begin, fileVars
  <2>5. ASSUME NEW p \in Procs, Halt(p) \/ Launch(p)
        PROVE  UNCHANGED <<visible, published>>
    BY <2>5 DEF Halt, Launch, fileVars
  <2>6. CASE Tick \/ SetBack \/ UNCHANGED writerVars
    BY <2>6 DEF Tick, SetBack, writerVars, fileVars
  <2> QED
    BY <2>1, <2>2, <2>3, <2>4, <2>5, <2>6 DEF WriterNext, WriterStep, Call
<1> QED
  BY <1>1, <1>2, Invariance, PTL DEF WriterSpec, DirPromise, Dir!DirSpec
=============================================================================
