-------------------------- MODULE DiskDaemonProofs --------------------------
(***************************************************************************)
(* Proofs about DiskDaemon, for any number of clients and any set of jobs  *)
(* and faults.  All rest on the inductive invariant Inv.                   *)
(***************************************************************************)
EXTENDS DiskDaemon, TLAPS

(* A daemon process that is gone leaves nothing behind in its memory.      *)
DownIsBare ==
  ~up => ~is_running /\ wpc = "none" /\ reading = Nobody /\ status = FreshStatus

(* A worker works on a job.                                                *)
WorkerHasJob == wpc # "none" => wjob \in Job

(* Only write_progress holds a loaded flag.                                *)
SeenIsRead == reading = Nobody => seen = "unread"

(* The success flag is up only when the worker has nothing left to store   *)
(* but overall_action, and not before the final message is.                *)
SuccessIsFinal ==
  /\ wpc = "succeed" => status.text = "result"
  /\ status.done = "ok" => /\ status.text = "result"
                           /\ wpc \in {"none", "killed"} \cup Ending

(* A loaded success flag is not taken back before write_progress is over.  *)
SeenStands == seen = "ok" => status.done = "ok"

Inv ==
  /\ TypeOK
  /\ BusyIsWorking
  /\ DownIsBare
  /\ WorkerHasJob
  /\ SeenIsRead
  /\ DoneTracksJob
  /\ SuccessIsFinal
  /\ SeenStands
  /\ SuccessToldWhole

-----------------------------------------------------------------------------
USE DEF Inv, BusyIsWorking, DownIsBare, WorkerHasJob, SeenIsRead,
        DoneTracksJob, SuccessIsFinal, SeenStands

(* The main program, up to its loop, establishes the invariant.            *)
LEMMA InitInv == Init => Inv
<1> SUFFICES ASSUME Init PROVE Inv
  OBVIOUS
<1> USE DEF Init, FreshStatus
<1>1. TypeOK
  BY DEF TypeOK, Done, Text, WorkerPc
<1>2. SuccessToldWhole
  BY DEF SuccessToldWhole, NoReply
<1> QED
  BY <1>1, <1>2

(* Each store of a worker into %status, and its death, preserves the       *)
(* invariant.                                                              *)
LEMMA WorkerInv == Inv /\ Worker => Inv'
<1> SUFFICES ASSUME Inv, Worker PROVE Inv'
  OBVIOUS
<1> USE DaemonAssumption DEF Starting, Working, Ending, WorkerPc, Done, Text
<1>1. CASE ResetAction
  BY <1>1 DEF ResetAction, Store, daemonVars, clientVars, TypeOK, SuccessToldWhole
<1>2. CASE ResetDone
  BY <1>2 DEF ResetDone, Store, daemonVars, clientVars, TypeOK, SuccessToldWhole
<1>3. CASE AnnounceJob
  BY <1>3 DEF AnnounceJob, Store, daemonVars, clientVars, TypeOK, SuccessToldWhole
<1>5. CASE ReportSuccess
  BY <1>5 DEF ReportSuccess, Store, daemonVars, clientVars, TypeOK, SuccessToldWhole
<1>6. CASE SetDone
  BY <1>6 DEF SetDone, Store, daemonVars, clientVars, TypeOK, SuccessToldWhole
<1>7. CASE CatchDone
  BY <1>7 DEF CatchDone, Store, daemonVars, clientVars, TypeOK, SuccessToldWhole
<1>8. CASE CatchText
  BY <1>8 DEF CatchText, Store, daemonVars, clientVars, TypeOK, SuccessToldWhole
<1>9. CASE FailQuietly
  BY <1>9 DEF FailQuietly, Store, daemonVars, clientVars, TypeOK, SuccessToldWhole
<1>10. CASE BecomeIdle
  BY <1>10 DEF BecomeIdle, Store, daemonVars, clientVars, TypeOK, SuccessToldWhole
<1>11. CASE KillWorker
  BY <1>11 DEF KillWorker, daemonVars, clientVars, TypeOK, SuccessToldWhole
<1>12. CASE OrphanEnds
  <2>1. UNCHANGED <<daemonVars, wpc, wjob, status, clientVars>> /\ orphan' \in BOOLEAN
    BY <1>12 DEF OrphanEnds
  <2>2. TypeOK'
    BY <2>1 DEF daemonVars, clientVars, TypeOK
  <2> QED
    BY <2>1, <2>2 DEF daemonVars, clientVars, SuccessToldWhole
<1> QED
  BY <1>1, <1>2, <1>3, <1>5, <1>6, <1>7, <1>8, <1>9, <1>10, <1>11, <1>12 DEF Worker

(* on_read preserves the invariant, whichever action the request names.    *)
LEMMA OnReadInv == ASSUME NEW c \in Client, Inv, OnRead(c) PROVE Inv'
<1> USE DaemonAssumption DEF Pending, LoopIsFree, Answer, Request, Query, Reply
<1>1. CASE RejectBusy(c)
  BY <1>1 DEF RejectBusy, daemonVars, workerVars, TypeOK, SuccessToldWhole, Busy
<1>2. CASE RejectError(c)
  BY <1>2 DEF RejectError, daemonVars, workerVars, TypeOK, SuccessToldWhole, Error
<1>3. CASE StartJob(c)
  <2>1. PICK j \in Job :
          /\ reading = Nobody /\ up /\ ~is_running
          /\ is_running' = TRUE /\ wpc' = "start" /\ wjob' = j /\ reading' = c
          /\ status' = [status EXCEPT !.done = IF @ = "no" THEN "no" ELSE "old",
                                      !.text = "other"]
          /\ UNCHANGED <<up, timer, seen, orphan, clientVars>>
    BY <1>3 DEF StartJob
  <2>2. TypeOK'
    BY <2>1 DEF clientVars, TypeOK, Done, Text, WorkerPc, Starting
  <2>3. status'.done \in {"no", "old"} /\ seen = "unread"
    BY <2>1 DEF TypeOK
  <2>4. SuccessToldWhole'
    BY <2>1 DEF clientVars, SuccessToldWhole
  <2> QED
    BY <2>1, <2>2, <2>3, <2>4
<1>4. CASE /\ Pending(c, "progress") /\ reading' = c
           /\ UNCHANGED <<up, is_running, timer, seen, workerVars, clientVars>>
  BY <1>4 DEF workerVars, clientVars, TypeOK, SuccessToldWhole
<1>5. CASE /\ Pending(c, "status")
           /\ Answer(c, [kind |-> "status", overall_action |-> status.overall_action])
           /\ UNCHANGED <<daemonVars, workerVars>>
  BY <1>5 DEF daemonVars, workerVars, TypeOK, SuccessToldWhole, StatusReply
<1>7. CASE CatchQuery(c)
  BY <1>7 DEF CatchQuery, daemonVars, workerVars, TypeOK, SuccessToldWhole, Error
<1>6. CASE UnknownAction(c)
  BY <1>6 DEF UnknownAction, daemonVars, workerVars, TypeOK, SuccessToldWhole, Blank
<1> QED
  BY <1>1, <1>2, <1>3, <1>4, <1>5, <1>6, <1>7 DEF OnRead, QueryProgress, QueryStatus

(* The two loads of write_progress preserve it, whatever the worker stored *)
(* in between: the success flag stands once it was loaded.                 *)
LEMMA WriteProgressInv ==
  Inv /\ (ReadDone \/ \E c \in Client : WriteProgress(c)) => Inv'
<1> SUFFICES ASSUME Inv, ReadDone \/ \E c \in Client : WriteProgress(c) PROVE Inv'
  OBVIOUS
<1>1. CASE ReadDone
  BY <1>1 DEF ReadDone, workerVars, clientVars, TypeOK, SuccessToldWhole
<1>2. ASSUME NEW c \in Client, WriteProgress(c) PROVE Inv'
  <2> DEFINE answer == [kind |-> "progress", done |-> seen, text |-> status.text]
  <2> USE <1>2 DEF WriteProgress, Answer, workerVars
  <2>1. answer \in Reply
    BY DEF TypeOK, Reply, ProgressReply
  <2>2. answer.done = "ok" => answer.text = "result"
    OBVIOUS
  <2>3. TypeOK'
    BY <2>1 DEF TypeOK
  <2>4. SuccessToldWhole'
    BY <2>2 DEF SuccessToldWhole, TypeOK
  <2> QED
    BY <2>3, <2>4
<1> QED
  BY <1>1, <1>2

(* The end of the daemon process, however it comes, preserves it.          *)
LEMMA ExitInv == Inv /\ Exit => Inv'
<1> SUFFICES ASSUME Inv, Exit PROVE Inv'
  OBVIOUS
<1> USE DEF Exit, FreshStatus
<1>1. reply' \in [Client -> Reply \cup {NoReply}]
  BY DEF TypeOK, Reply
<1>2. TypeOK'
  BY <1>1 DEF TypeOK, WorkerPc, Done, Text
<1>3. SuccessToldWhole'
  BY DEF SuccessToldWhole, Eof
<1> QED
  BY <1>2, <1>3

(* The callbacks of functions and timers and the signal handler preserve   *)
(* it.                                                                     *)
LEMMA CallbackInv == Inv /\ Callback => Inv'
<1> SUFFICES ASSUME Inv, Callback PROVE Inv'
  OBVIOUS
<1>1. CASE OnReturn
  BY <1>1 DEF OnReturn, LoopIsFree, clientVars, TypeOK, SuccessToldWhole, WorkerPc
<1>2. CASE OnError
  BY <1>2, ExitInv DEF OnError, TypeOK
<1>3. CASE OnTick
  BY <1>3 DEF OnTick, workerVars, clientVars, TypeOK, SuccessToldWhole
<1>4. CASE OnExpire
  <2>1. CASE Exit
    BY <2>1, ExitInv DEF TypeOK
  <2>2. CASE /\ timer' = "periodic"
             /\ UNCHANGED <<up, is_running, reading, seen, workerVars, clientVars>>
    <3>1. TypeOK'
      BY <2>2 DEF workerVars, clientVars, TypeOK
    <3> QED
      BY <2>2, <3>1 DEF workerVars, clientVars, SuccessToldWhole
  <2> QED
    BY <1>4, <2>1, <2>2 DEF OnExpire
<1>5. CASE Interrupt
  BY <1>5, ExitInv DEF Interrupt, TypeOK
<1> QED
  BY <1>1, <1>2, <1>3, <1>4, <1>5 DEF Callback

(* The calls of BubbaSocket preserve it.                                   *)
LEMMA ClientInv ==
  ASSUME NEW c \in Client, Inv,
         Spawn(c) \/ Getline(c) \/ \E a \in Job \cup Query : Say(c, a)
  PROVE  Inv'
<1>1. CASE Spawn(c)
  BY <1>1 DEF Spawn, FreshStatus, workerVars, clientVars, TypeOK, SuccessToldWhole, Done, Text
<1>2. CASE Getline(c)
  BY <1>2 DEF Getline, NoReply, daemonVars, workerVars, TypeOK, SuccessToldWhole
<1>3. ASSUME NEW a \in Job \cup Query, Say(c, a) PROVE Inv'
  BY <1>3 DEF Say, Request, daemonVars, workerVars, TypeOK, SuccessToldWhole
<1> QED
  BY <1>1, <1>2, <1>3

(* So does a step that changes nothing.                                    *)
LEMMA StutterInv == Inv /\ UNCHANGED vars => Inv'
<1> SUFFICES ASSUME Inv, UNCHANGED vars PROVE Inv'
  OBVIOUS
<1> USE DEF vars, daemonVars, workerVars, clientVars
<1>1. TypeOK'
  BY DEF TypeOK
<1> QED
  BY <1>1 DEF SuccessToldWhole

(* Hence every step of the specification does.                             *)
LEMMA StepInv == Inv /\ [Next]_vars => Inv'
<1> SUFFICES ASSUME Inv, [Next]_vars PROVE Inv'
  OBVIOUS
<1>1. CASE ServerNext
  BY <1>1, OnReadInv, WriteProgressInv, CallbackInv, WorkerInv DEF ServerNext
<1>2. ASSUME NEW c \in Client,
             Spawn(c) \/ Getline(c) \/ \E a \in Job \cup Query : Say(c, a)
      PROVE  Inv'
  BY <1>2, ClientInv
<1>3. CASE UNCHANGED vars
  BY <1>3, StutterInv
<1> QED
  BY <1>1, <1>2, <1>3 DEF Next

(* Inv holds in every reachable state.                                     *)
LEMMA Invariance == Spec => []Inv
<1>1. Init => Inv
  BY InitInv
<1>2. Inv /\ [Next]_vars => Inv'
  BY StepInv
<1> QED
  BY <1>1, <1>2, PTL DEF Spec

-----------------------------------------------------------------------------
(* The state variables of daemon, worker and clients stay within their     *)
(* types, in particular every answer is one that on_read can write.        *)
THEOREM TypeCorrect == Spec => []TypeOK
<1>1. Inv => TypeOK
  OBVIOUS
<1> QED
  BY <1>1, Invariance, PTL

(* $is_running, set in one callback and cleared in others, is up exactly   *)
(* as long as there is a worker whose end the daemon has not taken note of. *)
THEOREM BusyMeansWorking == Spec => []BusyIsWorking
<1>1. Inv => BusyIsWorking
  OBVIOUS
<1> QED
  BY <1>1, Invariance, PTL

(* No answer of write_progress pairs the success flag with the name of a   *)
(* step.                                                                   *)
THEOREM SuccessIsToldWhole == Spec => []SuccessToldWhole
<1>1. Inv => SuccessToldWhole
  OBVIOUS
<1> QED
  BY <1>1, Invariance, PTL

(* When the countdown ends the daemon, no worker is left: the flag that    *)
(* on_expire looks at is in step with the worker.  And a killed worker,    *)
(* the other end of a daemon, has no store left: only the signal leaves    *)
(* one at work.                                                            *)
THEOREM JobsAreNotAbandoned == Spec => NeverAbandonsJob
<1> DEFINE Kept == /\ OnExpire => up' \/ wpc = "none"
                   /\ orphan' => orphan \/ Interrupt
<1>1. Inv /\ OnExpire => up' \/ wpc = "none"
  <2> SUFFICES ASSUME Inv, OnExpire, ~up' PROVE wpc = "none"
    OBVIOUS
  <2>1. up /\ ~is_running
    BY DEF OnExpire, LoopIsFree
  <2> QED
    BY <2>1
<1>2. Inv /\ Next => (orphan' => orphan \/ Interrupt)
  <2> SUFFICES ASSUME Inv, Next, ~Interrupt PROVE orphan' => orphan
    OBVIOUS
  <2>1. CASE OnError \/ OnExpire
    <3>1. orphan' = orphan \/ (Exit /\ wpc \in {"none", "killed"})
      BY <1>1, <2>1 DEF OnError, OnExpire, workerVars, Exit
    <3> QED
      BY <3>1 DEF Exit, Starting, Working
  <2>2. CASE OnReturn \/ OnTick \/ ReadDone \/ Worker
    BY <2>2 DEF OnReturn, OnTick, ReadDone, Worker, ResetAction, ResetDone, AnnounceJob, ReportSuccess, SetDone, CatchDone, CatchText, FailQuietly, BecomeIdle, KillWorker,
                OrphanEnds, Store, workerVars
  <2>3. ASSUME NEW c \in Client,
               \/ OnRead(c) \/ WriteProgress(c) \/ Spawn(c) \/ Getline(c)
               \/ \E a \in Job \cup Query : Say(c, a)
        PROVE  orphan' => orphan
    BY <2>3 DEF OnRead, RejectBusy, RejectError, StartJob, QueryProgress, QueryStatus, CatchQuery,
                UnknownAction, WriteProgress, Spawn, Getline, Say, workerVars
  <2> QED
    BY <2>1, <2>2, <2>3 DEF Next, ServerNext, Callback
<1>3. Inv /\ [Next]_vars => [Kept]_vars
  BY <1>1, <1>2
<1>4. Spec => [][Kept]_vars
  <2> HIDE DEF Kept
  <2> QED
    BY <1>3, Invariance, PTL DEF Spec
<1> QED
  BY <1>4 DEF NeverAbandonsJob

-----------------------------------------------------------------------------
(* The refinement mapping of DiskDaemon's Lock: the lock is held by the    *)
(* job of the worker as long as there is a worker.                         *)
holderBar == IF wpc = "none" THEN NoJob ELSE wjob

(* No store of the worker, and not its death either, releases the lock.    *)
LEMMA WorkerKeepsLock == Inv /\ Worker => UNCHANGED holderBar
  BY DEF holderBar, Worker, Store, ResetAction, ResetDone, AnnounceJob,
     ReportSuccess, SetDone, CatchDone, CatchText, FailQuietly,
     BecomeIdle, KillWorker, OrphanEnds

(* A callback releases the lock or leaves it alone.                        *)
LEMMA CallbackReleasesLock ==
  Inv /\ Callback => UNCHANGED holderBar \/ wpc' = "none"
  BY DEF holderBar, Callback, OnReturn, OnError, OnTick, OnExpire, Interrupt,
     Exit, workerVars

(* on_read acquires the lock for a job, when no job holds it, or leaves it *)
(* alone.                                                                  *)
LEMMA OnReadAcquiresLock ==
  ASSUME NEW c \in Client, Inv, OnRead(c)
  PROVE  \/ UNCHANGED holderBar
         \/ wpc = "none" /\ \E j \in Job : wpc' = "start" /\ wjob' = j
<1>1. CASE StartJob(c)
  BY <1>1 DEF StartJob, Pending, LoopIsFree
<1>2. CASE ~StartJob(c)
  BY <1>2 DEF holderBar, OnRead, RejectBusy, RejectError, QueryProgress,
     QueryStatus, CatchQuery, UnknownAction, workerVars
<1> QED
  BY <1>1, <1>2

(* Polls and clients have no part in it.                                   *)
LEMMA OthersKeepLock ==
  ASSUME NEW c \in Client,
         \/ WriteProgress(c) \/ ReadDone \/ Spawn(c) \/ Getline(c)
         \/ \E a \in Job \cup Query : Say(c, a)
         \/ UNCHANGED vars
  PROVE  UNCHANGED holderBar
  BY DEF holderBar, WriteProgress, ReadDone, Spawn, Getline, Say, workerVars, vars

(* The daemon implements the safety of JobLock, the lock on disk jobs:     *)
(* StartJob acquires it, OnReturn, OnError and Interrupt may release it,   *)
(* all else stutters.                                                      *)
THEOREM RefinesLock == Spec => LockSafety
<1>1. Init => Lock!Init
  BY DEF Init, Lock!Init
<1>2. Inv /\ [Next]_vars => [Lock!Next]_holderBar
  <2> SUFFICES ASSUME Inv, [Next]_vars, ~UNCHANGED holderBar PROVE Lock!Next
    OBVIOUS
  <2>1. CASE wpc' = "none"
    BY <2>1, DaemonAssumption DEF Lock!Next, Lock!Release, holderBar
  <2>2. CASE wpc' # "none"
    <3>1. PICK c \in Client : OnRead(c)
      BY <2>2, WorkerKeepsLock, CallbackReleasesLock, OthersKeepLock
         DEF Next, ServerNext, holderBar, vars, workerVars, ReadDone
    <3>2. PICK j \in Job : wpc = "none" /\ wpc' = "start" /\ wjob' = j
      BY <3>1, OnReadAcquiresLock
    <3> QED
      BY <3>2 DEF Lock!Next, Lock!Acquire
  <2> QED
    BY <2>1, <2>2
<1> QED
  BY <1>1, <1>2, Invariance, PTL DEF Spec, LockSafety, Lock!Safety, holderBar

-----------------------------------------------------------------------------
(* The calls that are open: a client with a request has a daemon and no    *)
(* answer yet, and write_progress is at the request of a job or a poll.    *)
Open ==
  /\ \A c \in Client : request[c] # NoRequest => up /\ reply[c] = NoReply
  /\ reading # Nobody =>
       request[reading] # NoRequest /\ request[reading].action \in Job \cup {"progress"}

(* What OneAnswerEach says of one step.                                    *)
AnsweredWell ==
  \A c \in Client : Answered(c) =>
    /\ request[c] # NoRequest /\ request'[c] = NoRequest
    /\ reply[c] = NoReply /\ reply'[c] \in Answers(request[c].action)

(* A request names what it asks for.                                       *)
LEMMA RequestNames ==
  ASSUME NEW a, a \in Job \cup Query
  PROVE  [action |-> a] # NoRequest /\ [action |-> a].action = a
<1>1. [action |-> a].action = a /\ NoRequest.action = "none"
  BY DEF NoRequest
<1>2. a # "none"
  BY DaemonAssumption DEF Query
<1> QED
  BY <1>1, <1>2

(* A step that writes one answer.                                          *)
LEMMA AnswerOpen ==
  ASSUME TypeOK, Open, NEW c \in Client, NEW r \in Answers(request[c].action), r # NoReply,
         request[c] # NoRequest, Answer(c, r), reading' = Nobody, up' = up
  PROVE  Open' /\ AnsweredWell
BY DEF Open, AnsweredWell, Answered, Answer, TypeOK

(* A step that has nothing to do with the calls.                           *)
LEMMA OtherOpen ==
  ASSUME Open, UNCHANGED <<request, reply, reading, up>>
  PROVE  Open' /\ AnsweredWell
BY DEF Open, AnsweredWell, Answered

(* The process ends: every request that is open is answered by it.         *)
LEMMA ExitOpen ==
  ASSUME TypeOK, Open, Exit
  PROVE  Open' /\ AnsweredWell
<1>1. \A a : Eof \in Answers(a)
  BY DEF Answers
<1>2. /\ reply' = [c \in Client |-> IF request[c] # NoRequest THEN Eof ELSE reply[c]]
      /\ request' = [c \in Client |-> NoRequest] /\ reading' = Nobody
  BY DEF Exit
<1> QED
  BY <1>1, <1>2 DEF Open, AnsweredWell, Answered

(* on_read answers what is asked, or leaves it to write_progress.          *)
LEMMA OnReadOpen ==
  ASSUME Inv, Open, NEW c \in Client, OnRead(c)
  PROVE  Open' /\ AnsweredWell
<1> USE DaemonAssumption DEF Pending, LoopIsFree, daemonVars
<1>1. ASSUME NEW j \in Job PROVE {Busy, Error} \subseteq Answers(j) /\ NoReply \notin {Busy, Error}
  BY DEF Answers, Query, Busy, Error, NoReply
<1>2. CASE RejectBusy(c) \/ RejectError(c)
  <2>1. PICK j \in Job : request[c] = [action |-> j]
    BY <1>2 DEF RejectBusy, RejectError
  <2>2. request[c] # NoRequest /\ request[c].action = j
    BY <2>1, RequestNames
  <2>3. PICK r \in {Busy, Error} : Answer(c, r)
    BY <1>2 DEF RejectBusy, RejectError
  <2>4. reading' = Nobody /\ up' = up
    BY <1>2 DEF RejectBusy, RejectError
  <2> QED
    BY <1>1, <2>2, <2>3, <2>4, AnswerOpen
<1>3. CASE StartJob(c) \/ (QueryProgress(c) /\ ~CatchQuery(c))
  <2>1. PICK a \in Job \cup {"progress"} : request[c] = [action |-> a]
    BY <1>3 DEF StartJob, QueryProgress
  <2>2. request[c] # NoRequest /\ request[c].action = a
    BY <2>1, RequestNames DEF Query
  <2>3. reading' = c /\ UNCHANGED <<up, request, reply>>
    BY <1>3 DEF StartJob, QueryProgress, clientVars
  <2> QED
    BY <2>2, <2>3 DEF Open, AnsweredWell, Answered
<1>4. CASE QueryStatus(c) /\ ~CatchQuery(c)
  <2> DEFINE r == [kind |-> "status", overall_action |-> status.overall_action]
  <2>1. request[c] # NoRequest /\ request[c].action = "status"
    BY <1>4, RequestNames DEF QueryStatus, Query
  <2>2. r \in Answers("status") /\ r # NoReply
    <3>1. status.overall_action \in Job \cup {"idle"}
      BY DEF TypeOK
    <3>2. r \in StatusReply
      BY <3>1 DEF StatusReply
    <3>3. r.kind = "status" /\ NoReply.kind = "none"
      BY DEF NoReply
    <3> QED
      BY <3>2, <3>3 DEF Answers, Query
  <2>3. Answer(c, r) /\ reading' = Nobody /\ up' = up
    BY <1>4 DEF QueryStatus
  <2> QED
    BY <2>1, <2>2, <2>3, AnswerOpen
<1>5. CASE UnknownAction(c)
  <2>1. request[c] # NoRequest /\ request[c].action = "shutdown"
    BY <1>5, RequestNames DEF UnknownAction, Query
  <2>2. Blank \in Answers("shutdown") /\ Blank # NoReply
    BY DEF Answers, Query, Blank, NoReply
  <2>3. Answer(c, Blank) /\ reading' = Nobody /\ up' = up
    BY <1>5 DEF UnknownAction
  <2> QED
    BY <2>1, <2>2, <2>3, AnswerOpen
<1>6. CASE (QueryProgress(c) \/ QueryStatus(c)) /\ CatchQuery(c)
  <2>1. PICK a \in {"progress", "status"} : request[c] = [action |-> a]
    BY <1>6 DEF QueryProgress, QueryStatus
  <2>2. request[c] # NoRequest /\ request[c].action = a
    BY <2>1, RequestNames DEF Query
  <2>3. Error \in Answers(a) /\ Error # NoReply
    BY <2>1 DEF Answers, Query, Error, NoReply
  <2>4. Answer(c, Error) /\ reading' = Nobody /\ up' = up
    BY <1>6 DEF QueryProgress, QueryStatus, CatchQuery
  <2> QED
    BY <2>2, <2>3, <2>4, AnswerOpen
<1> QED
  BY <1>2, <1>3, <1>4, <1>5, <1>6 DEF OnRead

(* write_progress answers the request that on_read has left to it.         *)
LEMMA WriteProgressOpen ==
  ASSUME Inv, Open, NEW c \in Client, WriteProgress(c)
  PROVE  Open' /\ AnsweredWell
<1> DEFINE r == [kind |-> "progress", done |-> seen, text |-> status.text]
<1>1. request[c] # NoRequest /\ request[c].action \in Job \cup {"progress"}
  BY DaemonAssumption DEF WriteProgress, Open
<1>2. r \in ProgressReply
  BY DEF WriteProgress, TypeOK, ProgressReply
<1>3. r \in Answers(request[c].action)
  BY <1>1, <1>2, DaemonAssumption DEF Answers, Query
<1>4. r # NoReply
  <2>1. r.kind = "progress" /\ NoReply.kind = "none"
    BY DEF NoReply
  <2> QED
    BY <2>1
<1>5. Answer(c, r) /\ reading' = Nobody /\ up' = up
  BY DEF WriteProgress
<1> QED
  BY <1>1, <1>3, <1>4, <1>5, AnswerOpen

(* Every step keeps the calls in order.                                    *)
LEMMA StepOpen == Inv /\ Open /\ [Next]_vars => Open' /\ AnsweredWell
<1> SUFFICES ASSUME Inv, Open, [Next]_vars PROVE Open' /\ AnsweredWell
  OBVIOUS
<1>1. CASE ReadDone \/ Worker \/ OnReturn \/ OnTick \/ UNCHANGED vars
  <2>1. UNCHANGED <<request, reply, reading, up>>
    BY <1>1 DEF ReadDone, Worker, ResetAction, ResetDone, AnnounceJob, ReportSuccess,
                SetDone, CatchDone, CatchText, FailQuietly, BecomeIdle, KillWorker, OrphanEnds,
                Store, OnReturn, OnTick, vars, daemonVars, clientVars
  <2> QED
    BY <2>1, OtherOpen
<1>2. CASE OnError \/ OnExpire \/ Interrupt
  <2>1. Exit \/ UNCHANGED <<request, reply, reading, up>>
    BY <1>2 DEF OnError, OnExpire, Interrupt, clientVars
  <2> QED
    BY <2>1, ExitOpen, OtherOpen
<1>3. ASSUME NEW c \in Client, OnRead(c) \/ WriteProgress(c) PROVE Open' /\ AnsweredWell
  BY <1>3, OnReadOpen, WriteProgressOpen
<1>4. ASSUME NEW c \in Client, Spawn(c) PROVE Open' /\ AnsweredWell
  BY <1>4 DEF Spawn, Idle, clientVars, Open, AnsweredWell, Answered
<1>5. ASSUME NEW c \in Client, Getline(c) PROVE Open' /\ AnsweredWell
  <2>1. /\ reply' = [reply EXCEPT ![c] = NoReply] /\ UNCHANGED <<request, reading, up>>
    BY <1>5 DEF Getline, daemonVars
  <2> QED
    BY <2>1 DEF Open, AnsweredWell, Answered, TypeOK
<1>6. ASSUME NEW c \in Client, NEW a \in Job \cup Query, Say(c, a) PROVE Open' /\ AnsweredWell
  <2>1. /\ request' = [request EXCEPT ![c] = [action |-> a]]
        /\ request[c] = NoRequest /\ reply[c] = NoReply /\ up
        /\ UNCHANGED <<reply, reading, up>>
    BY <1>6 DEF Say, Idle, daemonVars
  <2>2. [action |-> a] # NoRequest
    BY RequestNames
  <2>3. reading # c
    BY <2>1, DaemonAssumption DEF Open
  <2> QED
    BY <2>1, <2>2, <2>3 DEF Open, AnsweredWell, Answered, TypeOK
<1> QED
  BY <1>1, <1>2, <1>3, <1>4, <1>5, <1>6 DEF Next, ServerNext, Callback

(* The calls are in order in every reachable state.                        *)
LEMMA OpenInvariance == Spec => []Open
<1>1. Init => Open
  BY DEF Init, Open
<1>2. Inv /\ Open /\ [Next]_vars => Open'
  BY StepOpen
<1> QED
  BY <1>1, <1>2, Invariance, PTL DEF Spec

(* A client gets one answer, to what it has asked: the hand-over from      *)
(* on_read to write_progress and the end of the process, at any time, lose *)
(* no request and mistake none for another.                                *)
THEOREM OneAnswerEachHolds == Spec => OneAnswerEach
<1>1. Inv /\ Open /\ [Next]_vars => [AnsweredWell]_vars
  BY StepOpen
<1>2. Spec => [][AnsweredWell]_vars
  BY <1>1, OpenInvariance, Invariance, PTL DEF Spec
<1> QED
  BY <1>2, PTL DEF OneAnswerEach, AnsweredWell

-----------------------------------------------------------------------------
(* The catch block stores the flag before the message: a script that is    *)
(* between the two has told its end as well.                               *)
EndTold ==
  /\ EndIsTold
  /\ wpc = "die_text" => status.done = "died"

(* The done flag of %status is up only before a job has reset it and after *)
(* its script is over; and every script that comes to its end has raised   *)
(* it, but for the failing steps that return.                              *)
THEOREM DoneIsAccurate == Spec => []DoneIsTrue
<1>1. Init => EndTold
  BY DEF Init, Ending, EndTold, EndIsTold
<1>2. Inv /\ EndTold /\ [Next]_vars => EndTold'
  <2> SUFFICES ASSUME Inv, EndTold, [Next]_vars
               PROVE  EndTold'
    OBVIOUS
  <2> USE DEF EndTold, EndIsTold
  <2>1. CASE Worker
    BY <2>1 DEF Worker, ResetAction, ResetDone, AnnounceJob, ReportSuccess, SetDone,
                CatchDone, CatchText, FailQuietly, BecomeIdle, KillWorker, OrphanEnds, Store,
                Ending, TypeOK
  <2>2. CASE Callback
    BY <2>2 DEF Callback, OnReturn, OnError, OnTick, OnExpire, Interrupt, Exit, Ending, workerVars
  <2>3. ASSUME NEW c \in Client, OnRead(c) PROVE EndTold'
    <3>1. CASE StartJob(c)
      BY <3>1 DEF StartJob, Ending
    <3>2. CASE ~StartJob(c)
      BY <2>3, <3>2 DEF OnRead, RejectBusy, RejectError, QueryProgress, QueryStatus,
                        CatchQuery, UnknownAction, workerVars
    <3> QED
      BY <3>1, <3>2
  <2>4. CASE \/ ReadDone \/ UNCHANGED vars
             \/ \E c \in Client : \/ WriteProgress(c) \/ Spawn(c) \/ Getline(c)
                                  \/ \E a \in Job \cup Query : Say(c, a)
    BY <2>4 DEF ReadDone, vars, WriteProgress, Spawn, Getline, Say, workerVars
  <2> QED
    BY <2>1, <2>2, <2>3, <2>4 DEF Next, ServerNext
<1>3. Inv /\ EndTold => DoneIsTrue
  BY DEF EndTold, DoneIsTrue
<1> QED
  BY <1>1, <1>2, <1>3, Invariance, PTL DEF Spec
=============================================================================
