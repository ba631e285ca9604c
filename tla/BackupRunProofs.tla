-------------------------- MODULE BackupRunProofs --------------------------
(***************************************************************************)
(* Proofs about BackupRun, for any accounts, devices, schedules, windows   *)
(* and bounds.  What the windows do to the files does not matter to them,  *)
(* but for the types.                                                      *)
(***************************************************************************)
EXTENDS BackupRun, BackupFilesProofs

(* What a run holds of remote jobs are results of these jobs.              *)
CopiesAreOwn ==
  ~torn =>
    /\ \A p \in Process, e \in Entry :
         e[1] \in Account /\ copy[p][e] \in Result => copy[p][e] \in ran[e]
    /\ \A p \in Process :
         pc[p] = "store" /\ cur[p] \in Account => retval[p] \in ran[Job(p)]

(* A run has a schedule, and one that has come to a job knows which.       *)
JobIsKnown ==
  \A p \in Process :
    /\ Active(p) => of[p] \in Schedule
    /\ pc[p] \in {"mark", "marked", "rsync", "store", "stored"} => cur[p] \in Target

(* Without overlap there is one run, and nobody but it has written to the  *)
(* file that it has emptied.                                               *)
OneRuns ==
  ~mixed => /\ \A q, p \in Process : Active(q) /\ Active(p) => q = p
            /\ \A p \in Process : pc[p] \in {"marked", "stored"} => form = "empty"

(* What it has copied as running is the job it is at, or one that a run    *)
(* was cut off at.                                                         *)
CopyOfRunning ==
  ~mixed => \A p \in Process, e \in Entry :
    copy[p][e] = "running" =>
      \/ e \in cut /\ (pc[p] = "stored" => e # Job(p))
      \/ pc[p] \in {"marked", "rsync", "store"} /\ e = Job(p)

(* What it has copied as killed was so at last; and what it is at is said  *)
(* to be running until rsync has returned.                                 *)
CopyOfKilled ==
  ~mixed => \A p \in Process :
    /\ \A e \in Entry : copy[p][e] = "killed" /\ e[1] \in Account => last[e] = "killed"
    /\ pc[p] \in {"marked", "rsync"} => copy[p][Job(p)] = "running"
    /\ pc[p] = "rsync" => status[Job(p)] = "running"
    /\ pc[p] = "store" /\ cur[p] \in Account => retval[p] = last[Job(p)]

OffIsBare == \A p \in Process : ~Active(p) => copy[p] = Unset

RunInv == TypeOK /\ WellAsked /\ ResultsAreOwn /\ CopiesAreOwn /\ JobIsKnown

Inv == RunInv /\ OneRuns /\ CopyOfRunning /\ CopyOfKilled /\ OffIsBare /\ RunningMeansRunning

-----------------------------------------------------------------------------
USE FilesAssumption, RunsAssumption DEF FilesInv, Target, Entry, Job, Active

(* A copy of a file without a result in any entry.                         *)
LEMMA UnsetIsCopy == Unset \in [Entry -> Value] /\ \A e \in Entry : Unset[e] = "none"
BY DEF Unset, Value

(* The files of a table of jobs.                                           *)
LEMMA FileOfIsFile == ASSUME NEW entries \in SUBSET Entry PROVE FileOf(entries) \in File
BY DEF FileOf, File

(* A run that has not begun has copied nothing.                            *)
LEMMA InitInv == Init => Inv
<1> SUFFICES ASSUME Init PROVE Inv
  OBVIOUS
<1>1. PICK entries \in SUBSET ((accounts \cup Device) \X Schedule) :
        /\ jobs = [k \in Kind |-> FileOf({e \in entries : KindOf(e[1]) = k})]
        /\ exists = {KindOf(e[1]) : e \in entries}
        /\ rows = [w \in Window |-> entries]
  BY DEF Init
<1>2. accounts \subseteq Account /\ entries \subseteq Entry
  BY <1>1 DEF Init
<1>3. jobs \in [Kind -> File] /\ exists \subseteq Kind
  <2>1. \A k \in Kind : FileOf({e \in entries : KindOf(e[1]) = k}) \in File
    BY <1>2, FileOfIsFile
  <2> QED
    BY <1>1, <2>1 DEF KindOf, Kind
<1>4. TypeOKFiles
  BY <1>1, <1>2, <1>3, EmptyIsFile DEF Init, TypeOKFiles
<1>5. TypeOK
  <2>1. /\ copy \in [Process -> [Entry -> Value]] /\ status \in [Entry -> Value]
        /\ ran \in [Entry -> SUBSET Result] /\ last \in [Entry -> Result \cup {"none"}]
    BY UnsetIsCopy DEF Init, Unset
  <2> QED
    BY <1>4, <2>1 DEF Init, TypeOK, NoSchedule
<1>6. WellAsked
  BY DEF Init, WellAsked
<1> QED
  BY <1>5, <1>6, UnsetIsCopy
     DEF Init, Inv, RunInv, ResultsAreOwn, CopiesAreOwn, JobIsKnown, OneRuns, CopyOfRunning,
         CopyOfKilled, OffIsBare, RunningMeansRunning, Result

(* The windows leave the runs and the status alone.                        *)
LEMMA FilesStepInv ==
  ASSUME Inv, [NextFiles]_webVars, UNCHANGED <<runVars, statusVars, historyVars>>
  PROVE  Inv'
<1>1. TypeOKFiles' /\ WellAsked'
  BY StepFilesInv DEF Inv, RunInv, TypeOK
<1>2. UNCHANGED <<pc, of, seen, due, bad, none, copy, cur, retval, status, form, ran, last, cut, mixed,
                torn>>
  BY DEF runVars, statusVars, historyVars
<1>3. TypeOK'
  BY <1>1, <1>2 DEF Inv, RunInv, TypeOK
<1> QED
  BY <1>1, <1>2, <1>3
     DEF Inv, RunInv, ResultsAreOwn, CopiesAreOwn, JobIsKnown, OneRuns, CopyOfRunning,
         CopyOfKilled, OffIsBare, RunningMeansRunning

(* A dump leaves a table, or none.                                         *)
LEMMA DumpType ==
  ASSUME copy \in [Process -> [Entry -> Value]], status \in [Entry -> Value],
         torn \in BOOLEAN, NEW p \in Process, Dump(p)
  PROVE  status' \in [Entry -> Value] /\ form' \in {"table", "garbled"} /\ torn' \in BOOLEAN
<1>1. copy[p] \in [Entry -> Value]
  OBVIOUS
<1>2. ASSUME NEW e \in Entry, NEW f \in Entry, status' = [copy[p] EXCEPT ![e] = status[f]]
      PROVE  status' \in [Entry -> Value]
  BY <1>1, <1>2
<1>3. torn' \in BOOLEAN
  BY DEF Dump
<1> QED
  BY <1>1, <1>2, <1>3, UnsetIsCopy DEF Dump, Said

(* Types of a run.                                                         *)
LEMMA RunType ==
  ASSUME TypeOK, JobIsKnown, NEW p \in Process, Run(p)
  PROVE  TypeOK'
<1>1. TypeOKFiles'
  <2>1. UNCHANGED webVars
    BY DEF Run, Start, ReadTables, ReadStatus, Pick, MountFails, Mark, Marked, Rsync, Store,
           Stored, End, Die, WriteStatus
  <2> QED
    BY <2>1 DEF TypeOK, TypeOKFiles, webVars, fileVars, requestVars, windowVars
<1> USE DEF TypeOK, Goto, statusVars, historyVars
<1>2. CASE Start(p)
  <2>1. accounts \subseteq Account
    BY DEF TypeOKFiles
  <2>2. of' \in [Process -> Schedule \cup {NoSchedule}]
    BY <1>2 DEF Start
  <2> QED
    BY <1>1, <1>2, <2>1, <2>2 DEF Start
<1>3. CASE ReadTables(p)
  <2> DEFINE missing == (jobs["remote"].keys \ seen[p]) \cup jobs["remote"].null
  <2>1. /\ jobs["remote"].keys \subseteq Target /\ jobs["remote"].null \subseteq Target
    BY DEF TypeOKFiles, File, Kind
  <2>2. bad' \in [Process -> SUBSET Target] /\ due' \in [Process -> SUBSET Target]
    BY <1>3, <2>1 DEF ReadTables
  <2>3. none' \in [Process -> SUBSET (Kind \cup {"status"})]
    <3>1. exists \subseteq Kind
      BY DEF TypeOKFiles
    <3> QED
      BY <1>3, <3>1 DEF ReadTables
  <2>4. seen' \in [Process -> SUBSET Account]
    BY <1>3 DEF ReadTables
  <2> QED
    BY <1>1, <1>3, <2>2, <2>3, <2>4 DEF ReadTables
<1>4. CASE ReadStatus(p)
  <2>1. copy' \in [Process -> [Entry -> Value]]
    BY <1>4 DEF ReadStatus
  <2>2. none' \in [Process -> SUBSET (Kind \cup {"status"})]
    BY <1>4 DEF ReadStatus
  <2> QED
    BY <1>1, <1>4, <2>1, <2>2 DEF ReadStatus
<1>5. CASE Pick(p)
  <2>1. cur' \in [Process -> Target \cup {NoAsk}]
    <3>1. Turn(p) \subseteq Target
      BY DEF Turn
    <3> QED
      BY <1>5, <3>1 DEF Pick
  <2>2. pc' \in [Process -> {"off", "jobs", "status", "pick", "mark", "marked", "rsync",
                              "store", "stored", "over"}]
    BY <1>5 DEF Pick
  <2>3. UNCHANGED <<of, seen, due, bad, none, copy, retval, status, form, ran, last, cut, mixed, torn>>
    BY <1>5 DEF Pick
  <2> QED
    BY <1>1, <2>1, <2>2, <2>3
<1>11. CASE MountFails(p)
  BY <1>1, <1>11 DEF MountFails
<1>6. CASE Mark(p) \/ Store(p)
  <2>1. PICK value \in Value : copy' = [copy EXCEPT ![p] = [@ EXCEPT ![Job(p)] = value]]
    BY <1>6 DEF Mark, Store, WriteStatus, Value
  <2>2. copy' \in [Process -> [Entry -> Value]]
    BY <2>1
  <2>3. status' \in [Entry -> Value]
    BY <1>6, UnsetIsCopy DEF Mark, Store, WriteStatus
  <2>4. /\ \E to \in {"marked", "stored"} : pc' = [pc EXCEPT ![p] = to]
        /\ form' = "empty"
        /\ UNCHANGED <<of, seen, due, bad, none, cur, retval, ran, last, cut, mixed, torn>>
    BY <1>6 DEF Mark, Store, WriteStatus
  <2>5. pc' \in [Process -> {"off", "jobs", "status", "pick", "mark", "marked", "rsync",
                              "store", "stored", "over"}]
    BY <2>4
  <2> QED
    BY <1>1, <2>2, <2>3, <2>4, <2>5
<1>7. CASE Marked(p)
  <2>1. status' \in [Entry -> Value] /\ form' \in {"table", "garbled"} /\ torn' \in BOOLEAN
    BY <1>7, DumpType DEF Marked
  <2> QED
    BY <1>1, <1>7, <2>1 DEF Marked
<1>8. CASE Rsync(p)
  <2>1. PICK r \in Result : /\ retval' = [retval EXCEPT ![p] = r]
                            /\ ran' = [ran EXCEPT ![Job(p)] = @ \cup {r}]
                            /\ last' = [last EXCEPT ![Job(p)] = r]
    BY <1>8 DEF Rsync
  <2>2. /\ ran' \in [Entry -> SUBSET Result]
        /\ last' \in [Entry -> Result \cup {"none"}]
    BY <2>1
  <2>3. retval' \in [Process -> Result \cup {"none"}]
    BY <2>1
  <2> QED
    BY <1>1, <1>8, <2>2, <2>3 DEF Rsync
<1>9. CASE Stored(p)
  <2>1. status' \in [Entry -> Value] /\ form' \in {"table", "garbled"} /\ torn' \in BOOLEAN
    BY <1>9, DumpType DEF Stored
  <2>2. due' \in [Process -> SUBSET Target] /\ cut' \subseteq Entry
    BY <1>9 DEF Stored
  <2> QED
    BY <1>1, <1>9, <2>1, <2>2 DEF Stored
<1>10. CASE End(p) \/ Die(p)
  <2>1. Gone(p)
    BY <1>10 DEF End, Die
  <2>2. copy' \in [Process -> [Entry -> Value]]
    BY <2>1, UnsetIsCopy DEF Gone
  <2>3. UNCHANGED <<status, form, ran, last, mixed, torn>>
    BY <1>10 DEF End, Die
  <2>4. cut' \subseteq Entry
    BY <1>10 DEF End, Die, JobIsKnown
  <2>5. of' \in [Process -> Schedule \cup {NoSchedule}]
    BY <2>1 DEF Gone
  <2> QED
    BY <1>1, <2>1, <2>2, <2>3, <2>4, <2>5 DEF Gone
<1> QED
  BY <1>2, <1>3, <1>4, <1>5, <1>6, <1>7, <1>8, <1>9, <1>10, <1>11 DEF Run

(* The variables that the rest is about.                                   *)
Typed ==
  /\ DOMAIN pc = Process
  /\ of \in [Process -> Schedule \cup {NoSchedule}]
  /\ due \in [Process -> SUBSET Target]
  /\ copy \in [Process -> [Entry -> Value]]
  /\ cur \in [Process -> Target \cup {NoAsk}]
  /\ retval \in [Process -> Result \cup {"none"}]
  /\ status \in [Entry -> Value]
  /\ ran \in [Entry -> SUBSET Result]
  /\ last \in [Entry -> Result \cup {"none"}]
  /\ torn \in BOOLEAN

(* The part of the types that steps use.                                   *)
LEMMA TypedHolds == ASSUME TypeOK PROVE Typed
BY DEF TypeOK, Typed

(* A run knows its schedule, and the job that it is at.                    *)
LEMMA KnownStep ==
  ASSUME Typed, JobIsKnown, NEW p \in Process, Run(p)
  PROVE  JobIsKnown'
<1> USE DEF Typed, Goto, JobIsKnown
<1>1. CASE Start(p)
  BY <1>1 DEF Start
<1>2. CASE Pick(p)
  <2>1. Turn(p) \subseteq due[p]
    BY DEF Turn
  <2>2. PICK t \in Turn(p) \ bad[p] : cur' = [cur EXCEPT ![p] = t]
    BY <1>2 DEF Pick
  <2> QED
    BY <1>2, <2>1, <2>2 DEF Pick
<1>3. CASE \/ ReadTables(p) \/ ReadStatus(p) \/ MountFails(p) \/ Mark(p) \/ Marked(p)
           \/ Rsync(p) \/ Store(p) \/ Stored(p)
  <2>1. /\ UNCHANGED <<of, cur>> /\ Active(p)
        /\ \A q \in Process \ {p} : pc'[q] = pc[q]
        /\ pc[p] \notin {"mark", "marked", "rsync", "store", "stored"}
             => pc'[p] \notin {"mark", "marked", "rsync", "store", "stored"}
    BY <1>3 DEF ReadTables, ReadStatus, MountFails, Mark, Marked, Rsync, Store, Stored,
                WriteStatus
  <2> QED
    BY <2>1
<1>4. CASE End(p) \/ Die(p)
  BY <1>4 DEF End, Die, Gone
<1> QED
  BY <1>1, <1>2, <1>3, <1>4 DEF Run

(* A run that copies or stores only moves results of the job they are of.  *)
LEMMA OwnStep ==
  ASSUME Typed, ResultsAreOwn, CopiesAreOwn, JobIsKnown, NEW p \in Process, Run(p)
  PROVE  ResultsAreOwn' /\ CopiesAreOwn'
<1> SUFFICES ASSUME ~torn'
             PROVE  ResultsAreOwn' /\ CopiesAreOwn'
  BY DEF ResultsAreOwn, CopiesAreOwn
<1>0. ~torn
  BY DEF Run, Start, ReadTables, ReadStatus, Pick, MountFails, Mark, Marked, Rsync, Store,
         Stored, End, Die, WriteStatus, Dump, historyVars
<1> USE <1>0 DEF Typed, Goto, ResultsAreOwn, CopiesAreOwn, JobIsKnown, statusVars, historyVars
<1>1. CASE Start(p)
  BY <1>1 DEF Start
<1>2. CASE ReadTables(p) \/ ReadStatus(p) \/ Pick(p)
  BY <1>2 DEF ReadTables, ReadStatus, Pick
<1>4. CASE MountFails(p)
  <2>1. cur[p] \notin Account
    BY <1>4 DEF MountFails
  <2> QED
    BY <1>4, <2>1 DEF MountFails
<1>5. CASE Mark(p)
  <2>1. /\ copy' = [copy EXCEPT ![p] = [@ EXCEPT ![Job(p)] = "running"]]
        /\ status' = Unset
        /\ pc[p] = "mark" /\ pc' = [pc EXCEPT ![p] = "marked"]
        /\ UNCHANGED <<of, cur, retval, ran>>
    BY <1>5 DEF Mark, WriteStatus
  <2>2. \A q \in Process, e \in Entry : copy'[q][e] \in {copy[q][e], "running"}
    BY <2>1
  <2> QED
    BY <2>1, <2>2, UnsetIsCopy DEF Result
<1>6. CASE Store(p)
  <2>1. /\ copy' = [copy EXCEPT ![p] = [@ EXCEPT ![Job(p)] = retval[p]]]
        /\ status' = Unset
        /\ pc[p] = "store" /\ pc' = [pc EXCEPT ![p] = "stored"]
        /\ UNCHANGED <<of, cur, retval, ran>>
    BY <1>6 DEF Store, WriteStatus
  <2>2. \A q \in Process, e \in Entry :
          \/ copy'[q][e] = copy[q][e]
          \/ q = p /\ e = Job(p) /\ copy'[q][e] = retval[p]
    BY <2>1
  <2>3. \A q \in Process, e \in Entry :
          e[1] \in Account /\ copy'[q][e] \in Result => copy'[q][e] \in ran[e]
    <3>1. cur[p] \in Account => retval[p] \in ran[Job(p)]
      BY <2>1
    <3> SUFFICES ASSUME NEW q \in Process, NEW e \in Entry, e[1] \in Account, copy'[q][e] \in Result
                 PROVE  copy'[q][e] \in ran[e]
      OBVIOUS
    <3>2. CASE copy'[q][e] = copy[q][e]
      BY <3>2
    <3>3. CASE e = Job(p) /\ copy'[q][e] = retval[p]
      BY <3>1, <3>3
    <3> QED
      BY <2>2, <3>2, <3>3
  <2>4. ResultsAreOwn'
    <3>1. \A e \in Entry : status'[e] \notin Result
      BY <2>1, UnsetIsCopy DEF Result
    <3> QED
      BY <2>1, <3>1
  <2>5. CopiesAreOwn'
    BY <2>1, <2>3
  <2> QED
    BY <2>4, <2>5
<1>7. CASE Marked(p) \/ Stored(p)
  <2>1. status' = copy[p] /\ UNCHANGED <<of, copy, cur, retval, ran>>
    BY <1>7 DEF Marked, Stored, Dump
  <2>2. \A q \in Process : pc'[q] = "store" => pc[q] = "store"
    BY <1>7 DEF Marked, Stored
  <2> QED
    BY <2>1, <2>2
<1>8. CASE Rsync(p)
  <2>1. PICK r \in Result : /\ retval' = [retval EXCEPT ![p] = r]
                            /\ ran' = [ran EXCEPT ![Job(p)] = @ \cup {r}]
    BY <1>8 DEF Rsync
  <2>2. \A e \in Entry : ran[e] \subseteq ran'[e]
    BY <2>1
  <2>3. UNCHANGED <<of, copy, cur, status>>
    BY <1>8 DEF Rsync
  <2>4. cur[p] \in Account => retval'[p] \in ran'[Job(p)]
    <3>1. Job(p) \in Entry
      BY <1>8 DEF Rsync
    <3> QED
      BY <2>1, <3>1
  <2>5. /\ pc[p] = "rsync" /\ pc' = [pc EXCEPT ![p] = "store"]
        /\ \A q \in Process \ {p} : retval'[q] = retval[q] /\ pc'[q] = pc[q]
    BY <1>8, <2>1 DEF Rsync
  <2>6. \A q \in Process :
          pc'[q] = "store" /\ cur'[q] \in Account => retval'[q] \in ran'[Job(q)']
    <3> SUFFICES ASSUME NEW q \in Process \ {p}, pc[q] = "store", cur[q] \in Account
                 PROVE  retval[q] \in ran'[Job(q)]
      BY <2>3, <2>4, <2>5
    <3>1. Job(q) \in Entry
      OBVIOUS
    <3> QED
      BY <2>2, <3>1
  <2>7. CopiesAreOwn'
    BY <2>2, <2>3, <2>6
  <2> QED
    BY <2>2, <2>3, <2>7
<1>9. CASE End(p) \/ Die(p)
  <2>1. /\ copy' = [copy EXCEPT ![p] = Unset] /\ pc' = [pc EXCEPT ![p] = "over"]
        /\ cur' = [cur EXCEPT ![p] = NoAsk] /\ retval' = [retval EXCEPT ![p] = "none"]
        /\ of' = [of EXCEPT ![p] = NoSchedule]
        /\ UNCHANGED <<status, ran>>
    BY <1>9 DEF End, Die, Gone
  <2> QED
    BY <2>1, UnsetIsCopy DEF Result
<1> QED
  BY <1>1, <1>2, <1>4, <1>5, <1>6, <1>7, <1>8, <1>9 DEF Run

(* There is one run unless they have overlapped, and a run that is over    *)
(* holds nothing.                                                          *)
LEMMA OneStep ==
  ASSUME Typed, OneRuns, OffIsBare, NEW p \in Process, Run(p)
  PROVE  OneRuns' /\ OffIsBare'
<1> USE DEF Typed, Goto, OneRuns, OffIsBare, statusVars, historyVars
<1>1. CASE Start(p)
  BY <1>1 DEF Start
<1>2. CASE \/ ReadTables(p) \/ ReadStatus(p) \/ Pick(p) \/ MountFails(p)
           \/ Mark(p) \/ Marked(p) \/ Rsync(p) \/ Store(p) \/ Stored(p)
  <2>1. /\ mixed' = mixed /\ Active(p)
        /\ \A q \in Process \ {p} : pc'[q] = pc[q] /\ copy'[q] = copy[q]
        /\ Active(p)'
        /\ pc'[p] \in {"marked", "stored"} => form' = "empty"
    BY <1>2 DEF ReadTables, ReadStatus, Pick, MountFails, Mark, Marked, Rsync, Store, Stored,
                WriteStatus
  <2>2. OffIsBare'
    BY <2>1
  <2>3. OneRuns'
    <3> SUFFICES ASSUME ~mixed PROVE OneRuns'
      BY <2>1
    <3>1. \A q \in Process \ {p} : ~Active(q)
      BY <2>1
    <3>2. \A q \in Process \ {p} : pc'[q] \in {"off", "over"}
      BY <2>1, <3>1
    <3> QED
      BY <2>1, <3>2
  <2> QED
    BY <2>2, <2>3
<1>3. CASE End(p) \/ Die(p)
  <2>1. /\ mixed' = mixed /\ form' = form
        /\ pc' = [pc EXCEPT ![p] = "over"] /\ copy' = [copy EXCEPT ![p] = Unset]
    BY <1>3 DEF End, Die, Gone
  <2> QED
    BY <2>1
<1> QED
  BY <1>1, <1>2, <1>3 DEF Run

(* Without overlap, a step is one of the only run, and its dump is whole.  *)
LEMMA OnlyRun ==
  ASSUME Typed, OneRuns, OffIsBare, NEW p \in Process, Run(p), ~mixed'
  PROVE  /\ ~mixed
         /\ \A q \in Process \ {p} : ~Active(q) /\ copy[q] = Unset
         /\ Dump(p) => status' = copy[p]
<1>1. ~mixed
  BY DEF Run, Start, ReadTables, ReadStatus, Pick, MountFails, Mark, Marked, Rsync, Store,
         Stored, End, Die, WriteStatus, historyVars
<1>2. \A q \in Process \ {p} : ~Active(q)
  <2>1. CASE Start(p)
    BY <2>1 DEF Start
  <2>2. CASE ~Start(p)
    <3>1. Active(p)
      BY <2>2 DEF Run, ReadTables, ReadStatus, Pick, MountFails, Mark, Marked, Rsync, Store,
                  Stored, End, Die, WriteStatus, Goto
    <3> QED
      BY <1>1, <3>1 DEF OneRuns
  <2> QED
    BY <2>1, <2>2
<1> QED
  BY <1>1, <1>2 DEF OffIsBare, OneRuns, Dump

(* What is running according to the copy of the only run, and according to *)
(* the file.                                                               *)
LEMMA RunningStep ==
  ASSUME Typed, JobIsKnown, OneRuns, OffIsBare, CopyOfRunning, CopyOfKilled,
         RunningMeansRunning, NEW p \in Process, Run(p)
  PROVE  CopyOfRunning' /\ CopyOfKilled' /\ RunningMeansRunning'
<1> SUFFICES ASSUME ~mixed'
             PROVE  CopyOfRunning' /\ CopyOfKilled' /\ RunningMeansRunning'
  BY DEF CopyOfRunning, CopyOfKilled, RunningMeansRunning
<1>1. /\ ~mixed
      /\ \A q \in Process \ {p} : ~Active(q) /\ \A e \in Entry : copy[q][e] = "none"
      /\ Dump(p) => status' = copy[p]
  BY OnlyRun, UnsetIsCopy
<1>2. \A q \in Process \ {p} : /\ ~Active(q)' /\ copy'[q] = copy[q] /\ pc'[q] = pc[q]
  <2>1. \A q \in Process \ {p} : copy'[q] = copy[q] /\ pc'[q] = pc[q]
    BY DEF Run, Start, ReadTables, ReadStatus, Pick, MountFails, Mark, Marked, Rsync, Store,
           Stored, End, Die, Gone, WriteStatus, Goto, Typed
  <2> QED
    BY <1>1, <2>1
<1>3. \A e \in Entry : copy[p][e] = "running" =>
        \/ e \in cut /\ (pc[p] = "stored" => e # Job(p))
        \/ pc[p] \in {"marked", "rsync", "store"} /\ e = Job(p)
  BY <1>1 DEF CopyOfRunning
<1>4. \A e \in Entry : status[e] = "running" =>
        e \in cut \/ (pc[p] \in {"rsync", "store"} /\ e = Job(p))
  BY <1>1 DEF RunningMeansRunning
<1>5. /\ \A e \in Entry : copy[p][e] = "killed" /\ e[1] \in Account => last[e] = "killed"
      /\ \A e \in Entry : status[e] = "killed" /\ e[1] \in Account => last[e] = "killed"
      /\ pc[p] \in {"marked", "rsync"} => copy[p][Job(p)] = "running"
      /\ pc[p] = "rsync" => status[Job(p)] = "running"
      /\ pc[p] = "store" /\ cur[p] \in Account => retval[p] = last[Job(p)]
  BY <1>1 DEF CopyOfKilled, RunningMeansRunning
<1> SUFFICES
      /\ \A e \in Entry : copy'[p][e] = "running" =>
           \/ e \in cut' /\ (pc'[p] = "stored" => e # Job(p)')
           \/ pc'[p] \in {"marked", "rsync", "store"} /\ e = Job(p)'
      /\ \A e \in Entry : status'[e] = "running" =>
           e \in cut' \/ (pc'[p] \in {"rsync", "store"} /\ e = Job(p)')
      /\ \A e \in Entry : copy'[p][e] = "killed" /\ e[1] \in Account => last'[e] = "killed"
      /\ \A e \in Entry : status'[e] = "killed" /\ e[1] \in Account => last'[e] = "killed"
      /\ pc'[p] \in {"marked", "rsync"} => copy'[p][Job(p)'] = "running"
      /\ pc'[p] = "rsync" => status'[Job(p)'] = "running"
      /\ pc'[p] = "store" /\ cur'[p] \in Account => retval'[p] = last'[Job(p)']
  BY <1>1, <1>2 DEF CopyOfRunning, CopyOfKilled, RunningMeansRunning
<1> USE DEF Typed, Goto, statusVars, historyVars
<1>6. CASE Start(p) \/ ReadTables(p) \/ Pick(p)
  <2>1. /\ UNCHANGED <<copy, status, cut, last>>
        /\ pc[p] \notin {"marked", "rsync", "store", "stored"}
        /\ pc'[p] \notin {"marked", "rsync", "store", "stored"}
    BY <1>6 DEF Start, ReadTables, Pick
  <2> QED
    BY <1>3, <1>4, <1>5, <2>1
<1>7. CASE ReadStatus(p)
  BY <1>7, <1>4, <1>5 DEF ReadStatus
<1>8. CASE MountFails(p)
  <2>1. cur[p] \notin Account
    BY <1>8 DEF MountFails
  <2> QED
    BY <1>8, <1>3, <1>4, <1>5, <2>1 DEF MountFails
<1>9. CASE Mark(p)
  <2>1. /\ copy' = [copy EXCEPT ![p] = [@ EXCEPT ![Job(p)] = "running"]]
        /\ status' = Unset
        /\ pc[p] = "mark" /\ pc' = [pc EXCEPT ![p] = "marked"]
        /\ UNCHANGED <<of, cur, cut, last>>
    BY <1>9 DEF Mark, WriteStatus
  <2>2. \A e \in Entry : copy'[p][e] = copy[p][e] \/ (e = Job(p) /\ copy'[p][e] = "running")
    BY <2>1
  <2>3. Job(p) \in Entry /\ copy'[p][Job(p)] = "running"
    BY <2>1 DEF JobIsKnown
  <2> QED
    BY <1>3, <1>5, <2>1, <2>2, <2>3, UnsetIsCopy
<1>10. CASE Store(p)
  <2>1. /\ copy' = [copy EXCEPT ![p] = [@ EXCEPT ![Job(p)] = retval[p]]]
        /\ status' = Unset
        /\ pc[p] = "store" /\ pc' = [pc EXCEPT ![p] = "stored"]
        /\ UNCHANGED <<of, cur, cut, last>>
    BY <1>10 DEF Store, WriteStatus
  <2>2. \A e \in Entry : \/ copy'[p][e] = copy[p][e] /\ e # Job(p)
                         \/ copy'[p][e] = retval[p] /\ e = Job(p)
    BY <2>1
  <2>3. retval[p] # "running" /\ Job(p)' = Job(p)
    BY <2>1 DEF Result
  <2>4. \A e \in Entry : copy'[p][e] = "running" => e \in cut' /\ e # Job(p)'
    BY <1>3, <2>1, <2>2, <2>3
  <2>5. \A e \in Entry : copy'[p][e] = "killed" /\ e[1] \in Account => last'[e] = "killed"
    <3> SUFFICES ASSUME NEW e \in Entry, copy'[p][e] = "killed", e[1] \in Account
                 PROVE  last[e] = "killed"
      BY <2>1
    <3>1. CASE e # Job(p)
      BY <1>5, <2>2, <3>1
    <3>2. CASE e = Job(p)
      BY <1>5, <2>1, <2>2, <3>2
    <3> QED
      BY <3>1, <3>2
  <2> QED
    BY <2>1, <2>4, <2>5, UnsetIsCopy
<1>11. CASE Marked(p)
  BY <1>11, <1>1, <1>3, <1>5 DEF Marked
<1>12. CASE Rsync(p)
  <2>1. PICK r \in Result : /\ retval' = [retval EXCEPT ![p] = r]
                            /\ last' = [last EXCEPT ![Job(p)] = r]
    BY <1>12 DEF Rsync
  <2>2. /\ pc[p] = "rsync" /\ pc' = [pc EXCEPT ![p] = "store"]
        /\ UNCHANGED <<of, copy, cur, status, cut>>
    BY <1>12 DEF Rsync
  <2>3. \A e \in Entry : e # Job(p) => last'[e] = last[e]
    BY <2>1
  <2>4. Job(p) \in Entry /\ last'[Job(p)] = r /\ retval'[p] = r
    BY <2>1, <2>2 DEF JobIsKnown
  <2>5. /\ copy'[p] = copy[p] /\ pc'[p] = "store" /\ cur'[p] = cur[p] /\ Job(p)' = Job(p)
        /\ copy[p][Job(p)] = "running" /\ status[Job(p)] = "running"
    BY <1>5, <2>2
  <2>6. \A e \in Entry : copy[p][e] = "running" => e \in cut \/ e = Job(p)
    BY <1>3, <2>2
  <2>7. \A e \in Entry : status[e] = "running" => e \in cut \/ e = Job(p)
    BY <1>4
  <2>8. \A e \in Entry : copy[p][e] = "killed" /\ e[1] \in Account => last'[e] = "killed"
    BY <1>5, <2>3, <2>5
  <2>9. \A e \in Entry : status[e] = "killed" /\ e[1] \in Account => last'[e] = "killed"
    BY <1>5, <2>3, <2>5
  <2> QED
    BY <2>2, <2>4, <2>5, <2>6, <2>7, <2>8, <2>9
<1>13. CASE Stored(p)
  <2>1. /\ status' = copy[p] /\ cut' = cut \ {Job(p)}
        /\ pc[p] = "stored" /\ pc' = [pc EXCEPT ![p] = "pick"]
        /\ UNCHANGED <<of, copy, cur, last>>
    BY <1>13, <1>1 DEF Stored
  <2>2. copy'[p] = copy[p] /\ pc'[p] = "pick" /\ Job(p)' = Job(p)
    BY <2>1
  <2>3. \A e \in Entry : copy[p][e] = "running" => e \in cut'
    BY <1>3, <2>1
  <2>4. \A e \in Entry : copy[p][e] = "killed" /\ e[1] \in Account => last'[e] = "killed"
    BY <1>5, <2>1
  <2> QED
    BY <2>1, <2>2, <2>3, <2>4
<1>14. CASE End(p)
  <2>1. /\ copy'[p] = Unset /\ UNCHANGED <<status, cut, last>>
        /\ pc[p] = "pick" /\ pc'[p] = "over"
    BY <1>14 DEF End, Gone
  <2> QED
    BY <1>4, <1>5, <2>1, UnsetIsCopy
<1>15. CASE Die(p)
  <2>1. /\ copy'[p] = Unset /\ UNCHANGED <<status, last>> /\ pc'[p] = "over"
        /\ cut \subseteq cut'
        /\ pc[p] \in {"rsync", "store"} => Job(p) \in cut'
    BY <1>15 DEF Die, Gone
  <2> QED
    BY <1>4, <1>5, <2>1, UnsetIsCopy
<1> QED
  BY <1>6, <1>7, <1>8, <1>9, <1>10, <1>11, <1>12, <1>13, <1>14, <1>15 DEF Run

-----------------------------------------------------------------------------
LEMMA StepInv == ASSUME Inv, [Next]_vars PROVE Inv'
<1>1. CASE NextFiles /\ UNCHANGED <<runVars, statusVars, historyVars>>
  BY <1>1, FilesStepInv
<1>2. CASE UNCHANGED vars
  BY <1>2, FilesStepInv DEF vars
<1>3. ASSUME NEW p \in Process, Run(p) PROVE Inv'
  <2>1. Typed
    BY TypedHolds DEF Inv, RunInv
  <2>2. WellAsked'
    <3>1. UNCHANGED webVars
      BY <1>3 DEF Run, Start, ReadTables, ReadStatus, Pick, MountFails, Mark, Marked, Rsync,
                  Store, Stored, End, Die, WriteStatus
    <3> QED
      BY <3>1 DEF Inv, RunInv, WellAsked, webVars, requestVars
  <2> QED
    BY <1>3, <2>1, <2>2, RunType, KnownStep, OwnStep, OneStep, RunningStep
       DEF Inv, RunInv
<1> QED
  BY <1>1, <1>2, <1>3 DEF Next

(* The invariant of which the theorems are parts.                          *)
THEOREM Invariance == Spec => []Inv
<1>1. Init => Inv
  BY InitInv
<1>2. Inv /\ [Next]_vars => Inv'
  BY StepInv
<1> QED
  BY <1>1, <1>2, PTL DEF Spec

(* The files, what windows and runs hold of them, and the histories keep   *)
(* their types.                                                            *)
THEOREM TypeCorrect == Spec => []TypeOK
<1>1. Inv => TypeOK
  BY DEF Inv, RunInv
<1> QED
  BY <1>1, Invariance, PTL

(* What the page shows as the result of a remote job is a result of it, as *)
(* long as no run has dumped its status over that of another.              *)
THEOREM ResultsAreOwnHolds == Spec => []ResultsAreOwn
<1>1. Inv => ResultsAreOwn
  BY DEF Inv, RunInv
<1> QED
  BY <1>1, Invariance, PTL

(* As long as no two runs have overlapped, a job that is marked as running *)
(* runs or was cut off, and a remote one that is shown so for a negative   *)
(* result was killed the last time that it ran.                            *)
THEOREM RunningMeansRunningHolds == Spec => []RunningMeansRunning
<1>1. Inv => RunningMeansRunning
  BY DEF Inv
<1> QED
  BY <1>1, Invariance, PTL

-----------------------------------------------------------------------------
(* The tables that there may be at first: every job is in the file of its  *)
(* kind, and there is no request.                                          *)
LEMMA InitKeepsTable == Init => TableInv
<1> SUFFICES ASSUME Init PROVE TableInv
  OBVIOUS
<1>1. FilesInv
  BY InitInv DEF Inv, RunInv, TypeOK
<1>2. PICK entries \in SUBSET ((accounts \cup Device) \X Schedule) :
        jobs = [k \in Kind |-> FileOf({e \in entries : KindOf(e[1]) = k})]
  BY DEF Init
<1>3. \A k \in Kind : \A e \in jobs[k].entries : KindOf(e[1]) = k
  BY <1>2 DEF FileOf
<1>4. \A w \in Window : ~Submitted(w)
  BY DEF Init, Submitted
<1> QED
  BY <1>1, <1>3, <1>4 DEF TableInv, Alone, Sorted, FillsJobs

(* A run reads the files that the pages write, and writes none of them.    *)
LEMMA RunReadsOnly == ASSUME NEW p \in Process, Run(p) PROVE UNCHANGED webVars
BY DEF Run, Start, ReadTables, ReadStatus, Pick, MountFails, Mark, Marked, Rsync, Store,
       Stored, End, Die, WriteStatus

(* However the runs and the requests of a session interleave, the files    *)
(* change as the table does: a run that reads them half-written, fails or  *)
(* is cut off leaves no trace in the table.                                *)
THEOREM RunsKeepTable ==
  ASSUME OneSession \/ OneWindow
  PROVE  Spec => [][Table!Next]_(Table!vars)
<1>1. TableInv /\ [Next]_vars => TableInv' /\ [Table!Next]_(Table!vars)
  <2> SUFFICES ASSUME TableInv, [Next]_vars PROVE TableInv' /\ [Table!Next]_(Table!vars)
    OBVIOUS
  <2>1. [NextFiles]_webVars
    BY RunReadsOnly DEF Next, vars
  <2> QED
    BY <2>1, StepTableInv DEF TableStep, tableVars, Table!vars
<1> QED
  BY <1>1, InitKeepsTable, PTL DEF Spec

(* A window that is alone in front of the files shows what is in them,     *)
(* whatever runs there are behind it.                                      *)
THEOREM OwnTableIsTrueBehindRuns == Spec => []OwnTableIsTrue
<1>1. CASE OneWindow
  <2>1. TableInv /\ OwnInv /\ [Next]_vars => TableInv' /\ OwnInv'
    <3> SUFFICES ASSUME TableInv, OwnInv, [Next]_vars PROVE TableInv' /\ OwnInv'
      OBVIOUS
    <3>1. [NextFiles]_webVars
      BY RunReadsOnly DEF Next, vars
    <3> QED
      BY <1>1, <3>1, StepTableInv, StepOwnInv
  <2>2. Init => OwnInv
    <3> SUFFICES ASSUME Init, NEW w \in Window
                 PROVE  rows[w] = SettledEntries /\ known[w] = SettledAccounts
      BY DEF OwnInv
    <3>1. PICK entries \in SUBSET ((accounts \cup Device) \X Schedule) :
            /\ jobs = [k \in Kind |-> FileOf({e \in entries : KindOf(e[1]) = k})]
            /\ rows = [v \in Window |-> entries]
      BY DEF Init
    <3>2. Entries = entries
      BY <3>1 DEF Entries, FileOf, Kind, KindOf
    <3>3. \A v \in Window : \A step : ~WillFill(v, step)
      BY DEF Init, WillFill, Writing, Submitted
    <3>4. SettledEntries = Entries /\ SettledAccounts = accounts
      BY <3>3 DEF SettledEntries, SettledAccounts
    <3> QED
      BY <3>1, <3>2, <3>4 DEF Init
  <2>3. TableInv /\ OwnInv => OwnTableIsTrue
    BY DEF OwnInv, OwnTableIsTrue, Submitted, TypeOKFiles
  <2> QED
    BY <2>1, <2>2, <2>3, InitKeepsTable, PTL DEF Spec
<1>2. CASE ~OneWindow
  <2>1. OwnTableIsTrue
    BY <1>2 DEF OwnTableIsTrue
  <2> QED
    BY <2>1, PTL
<1> QED
  BY <1>1, <1>2
=============================================================================
