------------------------- MODULE DiskProgressProofs -------------------------
(***************************************************************************)
(* Proofs about DiskProgress, for any windows, jobs and faults.  What the  *)
(* windows do with the daemon are steps of its clients: all that           *)
(* DiskDaemonProofs proves of the daemon holds behind the pages, too.      *)
(***************************************************************************)
EXTENDS DiskProgress, DiskDaemonProofs

(* Each step of a window says a request, reads an answer, starts a daemon, *)
(* or has nothing to do with the daemon.                                   *)
LEMMA BrowseIsClientStep ==
  ASSUME NEW c \in Client, Browse(c) \/ User(c)
  PROVE  [Next]_vars
<1>1. CASE CheckWorking(c) \/ AskType(c) \/ AskProgress(c)
  <2>1. Say(c, "status") \/ Say(c, "progress")
    BY <1>1 DEF CheckWorking, AskType, AskProgress
  <2> QED
    BY <2>1 DEF Next, Query
<1>2. CASE SubmitJob(c)
  BY <1>2 DEF SubmitJob, Next
<1>3. CASE IsWorkingAnswered(c) \/ JobAnswered(c) \/ TypeAnswered(c)
           \/ InitialAnswered(c) \/ PollAnswered(c)
  BY <1>3 DEF IsWorkingAnswered, JobAnswered, TypeAnswered, InitialAnswered, PollAnswered, Next
<1>4. CASE SpawnFor(c)
  BY <1>4 DEF SpawnFor, Next
<1>5. CASE FindDaemon(c) \/ OpenProgress(c) \/ FindAgain(c) \/ User(c)
  BY <1>5 DEF FindDaemon, OpenProgress, FindAgain, User, Confirm, CloseDialog, Reload
<1> QED
  BY <1>1, <1>2, <1>3, <1>4, <1>5 DEF Browse, Proceed

(* A step of the pages is a step of the clients of DiskDaemon, or none of  *)
(* theirs.                                                                 *)
LEMMA PageStep == [NextPage]_allVars => [Next]_vars
<1> SUFFICES ASSUME [NextPage]_allVars PROVE [Next]_vars
  OBVIOUS
<1>1. CASE ServerStep
  BY <1>1 DEF ServerStep, Next
<1>2. CASE UNCHANGED allVars
  BY <1>2 DEF allVars, pageVars
<1>3. CASE \E c \in Client : Browse(c) \/ User(c)
  BY <1>3, BrowseIsClientStep
<1> QED
  BY <1>1, <1>2, <1>3 DEF NextPage

(* The pages use the daemon as its clients may.                            *)
THEOREM PagesAreClients == SpecPage => Spec
<1>1. InitPage => Init
  BY DEF InitPage
<1>2. [NextPage]_allVars => [Next]_vars
  BY PageStep
<1> QED
  BY <1>1, <1>2, PTL DEF SpecPage, Spec

(* A window moves from page to page, and only one window moves at a time.  *)
LEMMA PageType ==
  ASSUME page \in [Client -> Page], [NextPage]_allVars
  PROVE  page' \in [Client -> Page]
<1> USE DEF Page, Goto
<1>1. CASE ServerStep \/ UNCHANGED allVars
  BY <1>1 DEF ServerStep, allVars, pageVars
<1>2. ASSUME NEW c \in Client, Browse(c) \/ User(c)
      PROVE  page' \in [Client -> Page]
  <2>1. CASE CheckWorking(c) \/ IsWorkingAnswered(c) \/ SubmitJob(c) \/ JobAnswered(c)
    BY <2>1 DEF CheckWorking, IsWorkingAnswered, SubmitJob, JobAnswered
  <2>2. CASE FindDaemon(c) \/ OpenProgress(c) \/ FindAgain(c) \/ AskType(c) \/ TypeAnswered(c)
    BY <2>2 DEF FindDaemon, OpenProgress, FindAgain, AskType, TypeAnswered
  <2>3. CASE AskProgress(c) \/ InitialAnswered(c) \/ PollAnswered(c) \/ SpawnFor(c)
    BY <2>3 DEF AskProgress, InitialAnswered, PollAnswered, SpawnFor
  <2>4. CASE User(c)
    BY <2>4 DEF User, Confirm, CloseDialog, Reload
  <2> QED
    BY <1>2, <2>1, <2>2, <2>3, <2>4 DEF Browse, Proceed
<1> QED
  BY <1>1, <1>2 DEF NextPage

(* The windows and what is behind them keep their types.                   *)
THEOREM PageTypeCorrect == SpecPage => []TypeOKPage
<1> DEFINE Pages == page \in [Client -> Page] /\ untold \subseteq Client
<1>1. SpecPage => []Pages
  <2>1. InitPage => Pages
    BY DEF InitPage, Page
  <2>2. Pages /\ [NextPage]_allVars => Pages'
    BY PageType DEF NextPage, KeepUntold, allVars
  <2> QED
    BY <2>1, <2>2, PTL DEF SpecPage
<1>2. SpecPage => []TypeOK
  BY PagesAreClients, TypeCorrect
<1>3. TypeOK /\ Pages => TypeOKPage
  BY DEF TypeOKPage
<1> QED
  BY <1>1, <1>2, <1>3, PTL

-----------------------------------------------------------------------------
(* What comes as an answer is not the absence of one.                      *)
LEMMA AnswerIsOne == ASSUME NEW a \in Job \cup Query PROVE NoReply \notin Answers(a)
<1>1. /\ NoReply \notin {Eof, Busy, Error, Blank}
      /\ NoReply \notin ProgressReply /\ NoReply \notin StatusReply
  BY DEF NoReply, Eof, Busy, Error, Blank, ProgressReply, StatusReply
<1>2. Answers(a) \subseteq {Eof, Busy, Error, Blank} \cup ProgressReply \cup StatusReply
  BY DaemonAssumption DEF Answers, Query
<1> QED
  BY <1>1, <1>2

(* The daemon takes a request only to answer it, and takes no answer back. *)
LEMMA ServerCalls ==
  ASSUME TypeOK, ServerNext, AnsweredWell, NEW c \in Client
  PROVE  /\ request'[c] \in {request[c], NoRequest}
         /\ reply'[c] \in {reply[c], NoReply} => request'[c] = request[c] /\ reply'[c] = reply[c]
<1>1. request[c] # NoRequest => request[c].action \in Job \cup Query
  BY DEF TypeOK, Request
<1>2. Answered(c) => reply'[c] # NoReply
  BY <1>1, AnswerIsOne DEF AnsweredWell
<1>3. CASE ReadDone \/ Worker \/ OnReturn \/ OnTick
  <2>1. UNCHANGED <<request, reply>>
    BY <1>3 DEF ReadDone, Worker, ResetAction, ResetDone, AnnounceJob, ReportSuccess,
                SetDone, CatchDone, CatchText, FailQuietly, BecomeIdle, KillWorker, OrphanEnds,
                Store, OnReturn, OnTick, clientVars
  <2> QED
    BY <2>1
<1>4. CASE OnError \/ OnExpire \/ Interrupt
  <2>1. \/ UNCHANGED <<request, reply>>
        \/ /\ reply' = [b \in Client |-> IF request[b] # NoRequest THEN Eof ELSE reply[b]]
           /\ request' = [b \in Client |-> NoRequest]
    BY <1>4 DEF OnError, OnExpire, Interrupt, Exit, clientVars
  <2> QED
    BY <1>2, <2>1 DEF Answered, AnsweredWell, Eof, NoReply
<1>5. ASSUME NEW b \in Client, OnRead(b) \/ WriteProgress(b)
      PROVE  /\ request'[c] \in {request[c], NoRequest}
             /\ reply'[c] \in {reply[c], NoReply} => request'[c] = request[c] /\ reply'[c] = reply[c]
  <2>1. UNCHANGED <<request, reply>> \/ \E r : r # NoReply /\ Answer(b, r)
    <3>1. /\ NoReply \notin {Busy, Error, Blank}
          /\ \A o : NoReply # [kind |-> "status", overall_action |-> o]
          /\ \A d, t : NoReply # [kind |-> "progress", done |-> d, text |-> t]
      <4>1. /\ \A o : [kind |-> "status", overall_action |-> o].kind = "status"
            /\ \A d, t : [kind |-> "progress", done |-> d, text |-> t].kind = "progress"
            /\ NoReply.kind = "none"
        BY DEF NoReply
      <4> QED
        BY <4>1 DEF NoReply, Busy, Error, Blank
    <3> QED
      BY <1>5, <3>1 DEF OnRead, RejectBusy, RejectError, StartJob, QueryProgress, QueryStatus,
                        CatchQuery, UnknownAction, WriteProgress, clientVars
  <2>2. CASE UNCHANGED <<request, reply>>
    BY <2>2
  <2>3. ASSUME NEW r, r # NoReply, Answer(b, r)
        PROVE  /\ request'[c] \in {request[c], NoRequest}
               /\ reply'[c] \in {reply[c], NoReply} => request'[c] = request[c] /\ reply'[c] = reply[c]
    <3>1. request' = [request EXCEPT ![b] = NoRequest] /\ reply' = [reply EXCEPT ![b] = r]
      BY <2>3 DEF Answer
    <3>2. CASE b # c
      BY <3>1, <3>2 DEF TypeOK
    <3>3. CASE b = c
      <4>1. request'[c] = NoRequest /\ reply'[c] = r
        BY <3>1, <3>3 DEF TypeOK
      <4>2. request[c] # NoRequest => reply[c] = NoReply
        BY <4>1 DEF AnsweredWell, Answered
      <4> QED
        BY <2>3, <4>1, <4>2
    <3> QED
      BY <3>2, <3>3
  <2> QED
    BY <2>1, <2>2, <2>3
<1> QED
  BY <1>3, <1>4, <1>5 DEF ServerNext, Callback

(* A step of the daemon: what a window has asked is answered, or not yet.  *)
LEMMA ServerAwaits ==
  ASSUME TypeOK, Open', AwaitsAnswer, AnsweredWell, ServerStep
  PROVE  AwaitsAnswer'
<1> SUFFICES ASSUME NEW c \in Client
             PROVE  /\ request'[c] # NoRequest => up' /\ request'[c].action \in Asked(c)'
                    /\ reply'[c] # NoReply => \E a \in Asked(c)' : reply'[c] \in Answers(a)
                    /\ page'[c] \in {"checking", "submitted", "typing"} => ~Idle(c)'
  BY DEF AwaitsAnswer
<1>1. page' = page /\ Asked(c)' = Asked(c) /\ ServerNext
  BY DEF ServerStep, Asked
<1>2. /\ request'[c] \in {request[c], NoRequest}
      /\ reply'[c] \in {reply[c], NoReply} => request'[c] = request[c] /\ reply'[c] = reply[c]
  BY <1>1, ServerCalls
<1>3. CASE reply'[c] \in {reply[c], NoReply}
  BY <1>1, <1>2, <1>3 DEF AwaitsAnswer, Idle, Open
<1>4. CASE reply'[c] \notin {reply[c], NoReply}
  <2>1. /\ request[c] # NoRequest /\ request'[c] = NoRequest
        /\ reply'[c] \in Answers(request[c].action)
    BY <1>4 DEF AnsweredWell, Answered
  <2>2. request[c].action \in Asked(c)
    BY <2>1 DEF AwaitsAnswer
  <2> QED
    BY <1>1, <1>4, <2>1, <2>2 DEF Idle
<1> QED
  BY <1>3, <1>4

(* A step of a window: it asks when it has no answer to wait for, and      *)
(* waits when it has asked.                                                *)
LEMMA WindowAwaits ==
  ASSUME TypeOKPage, Open, Open', AwaitsAnswer, NEW c \in Client, Browse(c) \/ User(c)
  PROVE  AwaitsAnswer'
<1> USE DEF Goto
<1>1. \A b \in Client : b # c =>
        page'[b] = page[b] /\ request'[b] = request[b] /\ reply'[b] = reply[b]
  <2>1. page' = page \/ \E p : page' = [page EXCEPT ![c] = p]
    BY DEF Browse, Proceed, User, FindDaemon, CheckWorking, IsWorkingAnswered, SubmitJob,
           JobAnswered, OpenProgress, FindAgain, AskType, TypeAnswered, AskProgress, InitialAnswered, PollAnswered, SpawnFor, Confirm,
           CloseDialog, Reload
  <2>2. \/ UNCHANGED <<request, reply>>
        \/ request' = request /\ \E r : reply' = [reply EXCEPT ![c] = r]
        \/ reply' = reply /\ \E r : request' = [request EXCEPT ![c] = r]
    BY DEF Browse, Proceed, User, FindDaemon, CheckWorking, IsWorkingAnswered, SubmitJob,
           JobAnswered, OpenProgress, FindAgain, AskType, TypeAnswered, AskProgress, InitialAnswered, PollAnswered, SpawnFor, Confirm,
           CloseDialog, Reload, Say, Getline, Spawn, vars, clientVars
  <2> QED
    BY <2>1, <2>2 DEF TypeOKPage, TypeOK
<1> DEFINE Awaits ==
             /\ request'[c] # NoRequest => request'[c].action \in Asked(c)'
             /\ reply'[c] # NoReply => \E a \in Asked(c)' : reply'[c] \in Answers(a)
             /\ page'[c] \in {"checking", "submitted", "typing"} => ~Idle(c)'
<1>2. Awaits
  <2>1. ASSUME NEW a \in Job \cup Query, Say(c, a), a \in Asked(c)'
        PROVE  Awaits
    <3>1. /\ request' = [request EXCEPT ![c] = [action |-> a]] /\ reply' = reply
          /\ reply[c] = NoReply
      BY <2>1 DEF Say, Idle
    <3>2. request'[c] = [action |-> a]
      BY <3>1 DEF TypeOKPage, TypeOK
    <3> QED
      BY <2>1, <3>1, <3>2, RequestNames DEF Idle
  <2>2. ASSUME Getline(c), page'[c] \notin {"checking", "submitted", "typing"}
        PROVE  Awaits
    <3>1. reply' = [reply EXCEPT ![c] = NoReply] /\ request' = request /\ reply[c] # NoReply
      BY <2>2 DEF Getline
    <3>2. request[c] = NoRequest
      BY <3>1 DEF Open
    <3> QED
      BY <2>2, <3>1, <3>2 DEF TypeOKPage, TypeOK
  <2>3. ASSUME Idle(c), UNCHANGED <<request, reply>>,
               page'[c] \notin {"checking", "submitted", "typing"}
        PROVE  Awaits
    BY <2>3 DEF Idle
  <2>4. page \in [Client -> Page]
    BY DEF TypeOKPage
  <2>5. CASE CheckWorking(c) \/ AskType(c)
    <3>1. Say(c, "status") /\ "status" \in Asked(c)'
      BY <2>4, <2>5 DEF CheckWorking, AskType, Asked
    <3> QED
      BY <2>1, <3>1 DEF Query
  <2>6. CASE SubmitJob(c)
    <3>1. page'[c] = "submitted" /\ \E j \in Job : Say(c, j)
      BY <2>4, <2>6 DEF SubmitJob
    <3> QED
      BY <2>1, <3>1 DEF Asked
  <2>7. CASE AskProgress(c)
    <3>1. Say(c, "progress") /\ "progress" \in Asked(c)'
      BY <2>7 DEF AskProgress, Asked
    <3> QED
      BY <2>1, <3>1 DEF Query
  <2>8. CASE IsWorkingAnswered(c) \/ JobAnswered(c) \/ TypeAnswered(c)
             \/ InitialAnswered(c) \/ PollAnswered(c)
    <3>1. Getline(c) /\ page'[c] \in {"menu", "opening", "initial", "polling", "stuck", "complete"}
      BY <2>4, <2>8 DEF IsWorkingAnswered, JobAnswered, TypeAnswered, InitialAnswered, PollAnswered
    <3> QED
      BY <2>2, <3>1
  <2>9. CASE FindDaemon(c) \/ OpenProgress(c) \/ FindAgain(c) \/ SpawnFor(c) \/ User(c)
    <3>1. /\ UNCHANGED <<request, reply>>
          /\ page'[c] \in {"menu", "found", "opening", "opened", "naming", "confirmed",
                            "initial", "polling"}
      BY <2>4, <2>9 DEF FindDaemon, OpenProgress, FindAgain, SpawnFor, Spawn, User, Confirm,
                        CloseDialog, Reload, vars, clientVars
    <3>2. Idle(c)
      <4>1. CASE FindDaemon(c) \/ OpenProgress(c) \/ FindAgain(c) \/ SpawnFor(c) \/ Confirm(c)
        BY <4>1 DEF FindDaemon, OpenProgress, FindAgain, SpawnFor, Spawn, Confirm
      <4>2. CASE CloseDialog(c) \/ Reload(c)
        <5>1. Asked(c) = {}
          BY <4>2 DEF CloseDialog, Reload, Asked
        <5> QED
          BY <5>1 DEF AwaitsAnswer, Idle
      <4> QED
        BY <2>9, <4>1, <4>2 DEF User
    <3> QED
      BY <2>3, <3>1, <3>2
  <2> QED
    BY <2>5, <2>6, <2>7, <2>8, <2>9 DEF Browse, Proceed
<1>3. \A b \in Client : request'[b] # NoRequest => up'
  BY DEF Open
<1>4. \A b \in Client : b # c => Asked(b)' = Asked(b) /\ Idle(b)' = Idle(b)
  BY <1>1 DEF Asked, Idle
<1> QED
  BY <1>1, <1>2, <1>3, <1>4 DEF AwaitsAnswer

(* No window waits in vain, nor reads the answer to a question that it did *)
(* not ask, wherever a daemon dies and another is started for it.          *)
THEOREM AwaitsAnswerHolds == SpecPage => []AwaitsAnswer
<1>1. InitPage => AwaitsAnswer
  BY DEF InitPage, Init, AwaitsAnswer
<1>2. Inv /\ Open /\ TypeOKPage /\ AwaitsAnswer /\ [NextPage]_allVars => AwaitsAnswer'
  <2> SUFFICES ASSUME Inv, Open, TypeOKPage, AwaitsAnswer, [NextPage]_allVars
               PROVE  AwaitsAnswer'
    OBVIOUS
  <2>1. Open' /\ AnsweredWell
    BY PageStep, StepOpen
  <2>2. CASE ServerStep
    BY <2>1, <2>2, ServerAwaits DEF TypeOKPage
  <2>3. ASSUME NEW c \in Client, Browse(c) \/ User(c) PROVE AwaitsAnswer'
    BY <2>1, <2>3, WindowAwaits
  <2>4. CASE UNCHANGED allVars
    BY <2>4 DEF allVars, pageVars, vars, daemonVars, clientVars, AwaitsAnswer, Asked, Idle
  <2> QED
    BY <2>2, <2>3, <2>4 DEF NextPage
<1>3. SpecPage => [](Inv /\ Open)
  BY PagesAreClients, Invariance, OpenInvariance, PTL
<1> QED
  BY <1>1, <1>2, <1>3, PageTypeCorrect, PTL DEF SpecPage

-----------------------------------------------------------------------------
(* The window is on the progress page, or the answer it is about to read   *)
(* will send it there.                                                     *)
Sent(c) ==
  \/ page[c] \in Dialog
  \/ /\ page[c] \in {"checking", "submitted"}
     /\ reply[c] \notin {NoReply, Error}
     /\ ~(reply[c].kind = "status" /\ reply[c].overall_action = "idle")

SentHaveJob == \A c \in Client \ untold : Sent(c) => HasJob

(* The action that status names is that of a worker, and the progress that *)
(* answers a job is written while the job is at work.                      *)
NamedIsWorking == status.overall_action # "idle" => wpc \notin {"none", "return"}
AcceptedIsWorking ==
  reading # Nobody /\ request[reading].action \in Job => wpc # "none"

(* A worker names its job only until its last store.                       *)
LEMMA NamedKept ==
  ASSUME Inv, NamedIsWorking, [Next]_vars
  PROVE  NamedIsWorking'
<1> USE DEF NamedIsWorking, TypeOK
<1>1. CASE Worker
  <2>1. CASE ResetAction \/ BecomeIdle
    <3>1. status' = [status EXCEPT !.overall_action = "idle"]
      BY <2>1 DEF ResetAction, BecomeIdle, Store
    <3>2. status'.overall_action = "idle"
      BY <3>1
    <3> QED
      BY <3>2
  <2>2. CASE ~ResetAction /\ ~BecomeIdle /\ ~OrphanEnds
    <3>1. wpc' \notin {"none", "return"}
      BY <1>1, <2>2 DEF Worker, ResetDone, AnnounceJob, ReportSuccess, SetDone, CatchDone,
                        CatchText, FailQuietly, KillWorker, Store
    <3> QED
      BY <3>1
  <2>3. CASE OrphanEnds
    BY <2>3 DEF OrphanEnds
  <2> QED
    BY <2>1, <2>2, <2>3
<1>2. CASE Callback
  BY <1>2 DEF Callback, OnReturn, OnError, OnTick, OnExpire, Interrupt, Exit, workerVars, FreshStatus
<1>3. ASSUME NEW c \in Client, OnRead(c) PROVE NamedIsWorking'
  <2>1. CASE StartJob(c)
    BY <2>1 DEF StartJob
  <2>2. CASE ~StartJob(c)
    BY <1>3, <2>2 DEF OnRead, RejectBusy, RejectError, QueryProgress, QueryStatus, CatchQuery,
                      UnknownAction, workerVars
  <2> QED
    BY <2>1, <2>2
<1>4. CASE \/ ReadDone \/ UNCHANGED vars
           \/ \E c \in Client : \/ WriteProgress(c) \/ Spawn(c) \/ Getline(c)
                                \/ \E a \in Job \cup Query : Say(c, a)
  BY <1>4 DEF ReadDone, vars, WriteProgress, Spawn, Getline, Say, workerVars
<1> QED
  BY <1>1, <1>2, <1>3, <1>4 DEF Next, ServerNext

(* The loop is not free while write_progress is under way: no callback     *)
(* takes note of the end of a job before its starter has its answer.       *)
LEMMA AcceptedKept ==
  ASSUME Inv, Open, Open', AcceptedIsWorking, [Next]_vars
  PROVE  AcceptedIsWorking'
<1> USE DaemonAssumption DEF AcceptedIsWorking
<1>1. CASE Worker \/ ReadDone \/ UNCHANGED vars
  <2>1. UNCHANGED <<reading, request>> /\ (wpc # "none" => wpc' # "none")
    BY <1>1 DEF Worker, ResetAction, ResetDone, AnnounceJob, ReportSuccess, SetDone, CatchDone,
                CatchText, FailQuietly, BecomeIdle, KillWorker, OrphanEnds, Store, ReadDone,
                daemonVars, clientVars, workerVars, vars
  <2> QED
    BY <2>1
<1>2. CASE Callback
  <2>1. reading' = Nobody
    BY <1>2 DEF Callback, OnReturn, OnError, OnTick, OnExpire, Interrupt, Exit, LoopIsFree
  <2> QED
    BY <2>1
<1>3. ASSUME NEW c \in Client, OnRead(c) PROVE AcceptedIsWorking'
  <2>1. CASE StartJob(c)
    BY <2>1 DEF StartJob
  <2>2. CASE QueryProgress(c) /\ reading' = c
    <3>1. request[c] = [action |-> "progress"]
      BY <2>2 DEF QueryProgress, Pending
    <3>2. request' = request \/ request' = [request EXCEPT ![c] = NoRequest]
      BY <2>2 DEF QueryProgress, CatchQuery, Answer, clientVars
    <3>3. request'[c] = request[c] \/ request'[c] = NoRequest
      <4>1. TypeOK
        BY DEF Inv
      <4> QED
        BY <3>2, <4>1 DEF TypeOK
    <3>4. request[c].action = "progress" /\ NoRequest.action = "none"
      BY <3>1 DEF NoRequest
    <3>5. request'[c].action \notin Job
      BY <3>3, <3>4 DEF Query
    <3> QED
      BY <2>2, <3>5
  <2>3. CASE ~StartJob(c) /\ ~(QueryProgress(c) /\ reading' = c)
    <3>1. reading' = Nobody
      BY <1>3, <2>3 DEF OnRead, RejectBusy, RejectError, QueryProgress, QueryStatus, CatchQuery,
                        UnknownAction, Pending, LoopIsFree, daemonVars
    <3> QED
      BY <3>1
  <2> QED
    BY <2>1, <2>2, <2>3
<1>4. ASSUME NEW c \in Client, WriteProgress(c) PROVE AcceptedIsWorking'
  BY <1>4 DEF WriteProgress
<1>5. ASSUME NEW c \in Client, Spawn(c) \/ Getline(c) \/ \E a \in Job \cup Query : Say(c, a)
      PROVE  AcceptedIsWorking'
  <2>1. UNCHANGED <<reading, wpc>>
    BY <1>5 DEF Spawn, Getline, Say, daemonVars, workerVars
  <2>2. reading # Nobody => request'[reading] = request[reading]
    <3>1. CASE Spawn(c) \/ Getline(c)
      BY <3>1 DEF Spawn, Getline, clientVars
    <3>2. ASSUME NEW a, Say(c, a), reading # Nobody PROVE request'[reading] = request[reading]
      <4>1. request[c] = NoRequest /\ \E q : request' = [request EXCEPT ![c] = q]
        BY <3>2 DEF Say, Idle
      <4>2. reading # c
        BY <3>2, <4>1 DEF Open
      <4> QED
        BY <3>2, <4>1, <4>2 DEF TypeOK
    <3> QED
      BY <1>5, <3>1, <3>2
  <2> QED
    BY <2>1, <2>2
<1> QED
  BY <1>1, <1>2, <1>3, <1>4, <1>5 DEF Next, ServerNext

(* As long as the daemon stays, the end of a job stays to be told.         *)
LEMMA JobStays ==
  ASSUME Inv, DoneIsTrue, [Next]_vars, HasJob, up => up'
  PROVE  HasJob'
<1> USE DEF HasJob
<1> SUFFICES ASSUME ~("quiet" \in Fault /\ QuietJob # {}),
                    up, up', wpc # "none" \/ status.done \in {"ok", "died"}
             PROVE  wpc' # "none" \/ status'.done \in {"ok", "died"}
  OBVIOUS
<1>1. CASE Worker
  <2>1. CASE wpc = "none"
    BY <1>1, <2>1 DEF Worker, ResetAction, ResetDone, AnnounceJob, ReportSuccess, SetDone,
                      CatchDone, CatchText, FailQuietly, BecomeIdle, KillWorker, OrphanEnds, Store
  <2>2. CASE wpc # "none"
    BY <1>1, <2>2 DEF Worker, ResetAction, ResetDone, AnnounceJob, ReportSuccess, SetDone,
                      CatchDone, CatchText, FailQuietly, BecomeIdle, KillWorker, OrphanEnds, Store
  <2> QED
    BY <2>1, <2>2
<1>2. CASE OnReturn
  <2>1. status.done \in {"ok", "died"}
    BY <1>2 DEF OnReturn, DoneIsTrue, EndIsTold, Ending
  <2> QED
    BY <1>2, <2>1 DEF OnReturn
<1>3. CASE OnError \/ OnTick \/ OnExpire \/ Interrupt
  BY <1>3 DEF OnError, OnTick, OnExpire, Interrupt, Exit, workerVars
<1>4. ASSUME NEW c \in Client, OnRead(c) PROVE wpc' # "none" \/ status'.done \in {"ok", "died"}
  <2>1. CASE StartJob(c)
    BY <2>1 DEF StartJob
  <2>2. CASE ~StartJob(c)
    BY <1>4, <2>2 DEF OnRead, RejectBusy, RejectError, QueryProgress, QueryStatus, CatchQuery,
                      UnknownAction, workerVars
  <2> QED
    BY <2>1, <2>2
<1>5. CASE \/ ReadDone \/ UNCHANGED vars
           \/ \E c \in Client : \/ WriteProgress(c) \/ Spawn(c) \/ Getline(c)
                                \/ \E a \in Job \cup Query : Say(c, a)
  BY <1>5 DEF ReadDone, vars, WriteProgress, Spawn, Getline, Say, workerVars
<1> QED
  BY <1>1, <1>2, <1>3, <1>4, <1>5 DEF Next, ServerNext, Callback

(* The answer that sends a window to the progress page is written while    *)
(* the job is at work.                                                     *)
LEMMA AnswerHasJob ==
  ASSUME Inv, Open, AwaitsAnswer, NamedIsWorking, AcceptedIsWorking, NEW c \in Client,
         ServerStep, up => up', ~Sent(c), Sent(c)'
  PROVE  up /\ wpc # "none"
<1>1. /\ page' = page /\ ServerNext
      /\ page[c] \in {"checking", "submitted"} /\ page[c] \notin Dialog
      /\ reply'[c] \notin {NoReply, Error}
      /\ ~(reply'[c].kind = "status" /\ reply'[c].overall_action = "idle")
      /\ reply'[c] # reply[c]
  BY DEF ServerStep, Sent
<1>2. ~UNCHANGED reply
  BY <1>1
<1>3. PICK b \in Client : OnRead(b) \/ WriteProgress(b)
  BY <1>1, <1>2 DEF ServerNext, Callback, Worker, ResetAction, ResetDone, AnnounceJob,
     ReportSuccess, SetDone, CatchDone, CatchText, FailQuietly, BecomeIdle, KillWorker, OrphanEnds,
     Store, OnReturn, OnTick, OnError, OnExpire, Interrupt, LoopIsFree, Exit, ReadDone, clientVars
<1>13. up
  BY <1>3 DEF OnRead, RejectBusy, RejectError, StartJob, QueryProgress, QueryStatus, UnknownAction,
              WriteProgress, Pending, LoopIsFree
<1>4. ASSUME NEW r, Answer(b, r) PROVE b = c /\ reply'[c] = r /\ request[c].action \in Asked(c)
  <2>1. b = c /\ reply'[c] = r
    BY <1>1, <1>4 DEF Answer, TypeOK
  <2>2. request[c] # NoRequest
    <3>1. CASE WriteProgress(b)
      BY <2>1, <3>1, DaemonAssumption DEF WriteProgress, Open
    <3>2. CASE OnRead(b)
      <4>1. \E a \in Job \cup Query : request[b] = [action |-> a]
        BY <3>2 DEF OnRead, RejectBusy, RejectError, StartJob, QueryProgress, QueryStatus,
                    UnknownAction, Pending, Query
      <4> QED
        BY <2>1, <4>1, RequestNames
    <3> QED
      BY <1>3, <3>1, <3>2
  <2> QED
    BY <2>1, <2>2 DEF AwaitsAnswer
<1>5. Asked(c) = {"status"} \/ Asked(c) = Job
  BY <1>1 DEF Asked
<1>6. CASE RejectBusy(b)
  <2>1. is_running
    BY <1>6 DEF RejectBusy
  <2>2. BusyIsWorking
    BY DEF Inv
  <2> QED
    BY <1>13, <2>1, <2>2 DEF BusyIsWorking
<1>7. CASE RejectError(b) \/ CatchQuery(b)
  <2>1. Answer(b, Error)
    BY <1>7 DEF RejectError, CatchQuery
  <2> QED
    BY <1>1, <1>4, <2>1
<1>8. CASE StartJob(b)
  BY <1>2, <1>8 DEF StartJob, clientVars
<1>9. CASE QueryProgress(b) /\ ~CatchQuery(b)
  BY <1>2, <1>9 DEF QueryProgress, clientVars
<1>10. CASE QueryStatus(b) /\ ~CatchQuery(b)
  <2> DEFINE r == [kind |-> "status", overall_action |-> status.overall_action]
  <2>1. Answer(b, r)
    BY <1>10 DEF QueryStatus
  <2>2. reply'[c] = r
    BY <1>4, <2>1
  <2>3. status.overall_action # "idle"
    BY <1>1, <2>2
  <2> QED
    BY <1>13, <2>3 DEF NamedIsWorking
<1>11. CASE UnknownAction(b)
  <2>1. Answer(b, Blank) /\ request[b] = [action |-> "shutdown"]
    BY <1>11 DEF UnknownAction, Pending
  <2>2. request[c].action = "shutdown" /\ request[c].action \in Asked(c)
    BY <1>4, <2>1
  <2> QED
    BY <1>5, <2>2, DaemonAssumption DEF Query
<1>12. CASE WriteProgress(b)
  <2>1. reading = b /\ Answer(b, [kind |-> "progress", done |-> seen, text |-> status.text])
    BY <1>12 DEF WriteProgress
  <2>2. b = c /\ request[c].action \in Asked(c)
    BY <1>4, <2>1
  <2>3. request[c].action \in Job \cup {"progress"} /\ reading # Nobody
    BY <2>1, <2>2, DaemonAssumption DEF Open
  <2>4. request[c].action \in Job
    BY <1>5, <2>2, <2>3, DaemonAssumption DEF Query
  <2> QED
    BY <1>13, <2>1, <2>2, <2>3, <2>4 DEF AcceptedIsWorking
<1> QED
  BY <1>3, <1>6, <1>7, <1>8, <1>9, <1>10, <1>11, <1>12, <1>13 DEF OnRead

(* A step of the daemon: it leaves with a window uninformed, and the       *)
(* window is among the untold then, or it stays, and so does the job.      *)
LEMMA ServerSends ==
  ASSUME Inv, Open, DoneIsTrue, AwaitsAnswer, NamedIsWorking, AcceptedIsWorking,
         SentHaveJob, ServerStep, KeepUntold
  PROVE  SentHaveJob'
<1> SUFFICES ASSUME NEW c \in Client, c \notin untold', Sent(c)' PROVE HasJob'
  BY DEF SentHaveJob
<1>1. page' = page /\ ServerNext /\ [Next]_vars
  BY DEF ServerStep, Next
<1>2. c \notin untold /\ ~Missed(c)
  BY DEF Sent, Dialog, KeepUntold
<1>3. CASE up /\ ~up'
  <2>1. Exit
    BY <1>1, <1>3 DEF ServerNext, OnRead, RejectBusy, RejectError, StartJob, QueryProgress,
       QueryStatus, CatchQuery, UnknownAction, WriteProgress, ReadDone, Callback, OnReturn, OnError,
       OnTick, OnExpire, Interrupt, Worker, ResetAction, ResetDone, AnnounceJob, ReportSuccess,
       SetDone, CatchDone, CatchText, FailQuietly, BecomeIdle, KillWorker, OrphanEnds, Store,
       daemonVars
  <2>2. page[c] # "confirmed"
    BY <1>1 DEF Sent, Dialog
  <2>3. request[c] = NoRequest /\ wpc = "none" /\ status.done \notin {"ok", "died"}
    BY <1>2, <1>3, <2>2 DEF Missed
  <2>4. reply'[c] = reply[c]
    BY <2>1, <2>3 DEF Exit, TypeOK
  <2>5. Sent(c)
    BY <1>1, <2>4 DEF Sent
  <2> QED
    BY <1>2, <2>3, <2>5 DEF SentHaveJob, HasJob
<1>4. CASE up => up'
  <2>1. CASE Sent(c)
    BY <1>1, <1>2, <1>4, <2>1, JobStays DEF SentHaveJob
  <2>2. CASE ~Sent(c)
    <3>1. HasJob
      BY <1>4, <2>2, AnswerHasJob DEF HasJob
    <3> QED
      BY <1>1, <1>4, <3>1, JobStays
  <2> QED
    BY <2>1, <2>2
<1> QED
  BY <1>3, <1>4

(* A step of a window: it goes to the progress page when it has read an    *)
(* answer that says so, or there was an error.                             *)
LEMMA WindowSends ==
  ASSUME TypeOKPage, Inv, Open, DoneIsTrue, AwaitsAnswer, SentHaveJob, KeepUntold,
         NEW w \in Client, Browse(w) \/ User(w)
  PROVE  SentHaveJob'
<1> SUFFICES ASSUME NEW c \in Client, c \notin untold', Sent(c)' PROVE HasJob'
  BY DEF SentHaveJob
<1> USE DEF Goto
<1>1. c \notin untold /\ ~Missed(c)
  BY DEF Sent, Dialog, KeepUntold
<1>2. [Next]_vars
  BY BrowseIsClientStep
<1>3. up => up'
  BY DEF Browse, Proceed, User, FindDaemon, CheckWorking, IsWorkingAnswered, SubmitJob,
         JobAnswered, OpenProgress, FindAgain, AskType, TypeAnswered, AskProgress, InitialAnswered,
         PollAnswered, SpawnFor, Confirm, CloseDialog, Reload, Say, Getline, Spawn, vars, daemonVars
<1>4. Sent(c)
  <2> USE DEF TypeOKPage, TypeOK
  <2>1. CASE page[c] \in Dialog
    BY <2>1 DEF Sent
  <2>2. CASE page[c] \notin Dialog /\ c # w
    <3>1. page' = page \/ \E p : page' = [page EXCEPT ![w] = p]
      BY DEF Browse, Proceed, User, FindDaemon, CheckWorking, IsWorkingAnswered, SubmitJob,
             JobAnswered, OpenProgress, FindAgain, AskType, TypeAnswered, AskProgress,
             InitialAnswered, PollAnswered, SpawnFor, Confirm, CloseDialog, Reload
    <3>2. reply' = reply \/ \E r : reply' = [reply EXCEPT ![w] = r]
      BY DEF Browse, Proceed, User, FindDaemon, CheckWorking, IsWorkingAnswered, SubmitJob,
             JobAnswered, OpenProgress, FindAgain, AskType, TypeAnswered, AskProgress,
             InitialAnswered, PollAnswered, SpawnFor, Confirm, CloseDialog, Reload, Say, Getline,
             Spawn, vars, clientVars
    <3>3. page'[c] = page[c] /\ reply'[c] = reply[c]
      BY <2>2, <3>1, <3>2
    <3> QED
      BY <3>3 DEF Sent
  <2>3. CASE page[c] \notin Dialog /\ c = w
    <3>1. CASE IsWorkingAnswered(c) \/ JobAnswered(c)
      <4>1. reply[c] # NoReply
        BY <3>1 DEF IsWorkingAnswered, JobAnswered, Getline
      <4>2. page'[c] \in {"menu", "opening"} /\ page[c] \in {"checking", "submitted"}
        BY <3>1 DEF IsWorkingAnswered, JobAnswered
      <4>3. page'[c] = "opening"
        BY <4>2 DEF Sent, Dialog
      <4>4. reply[c] # Error
        BY <1>1, <4>3 DEF Missed
      <4>5. ~(reply[c].kind = "status" /\ reply[c].overall_action = "idle")
        <5>1. CASE IsWorkingAnswered(c)
          BY <4>3, <5>1 DEF IsWorkingAnswered
        <5>2. CASE JobAnswered(c)
          <6>1. page[c] = "submitted"
            BY <5>2 DEF JobAnswered
          <6>2. PICK a \in Job : reply[c] \in Answers(a)
            BY <4>1, <6>1 DEF AwaitsAnswer, Asked
          <6>3. reply[c] \in {Eof, Busy, Error} \cup ProgressReply
            BY <6>2, DaemonAssumption DEF Answers, Query
          <6> QED
            BY <6>3 DEF Eof, Busy, Error, ProgressReply
        <5> QED
          BY <3>1, <5>1, <5>2
      <4> QED
        BY <4>1, <4>2, <4>4, <4>5 DEF Sent
    <3>2. CASE ~IsWorkingAnswered(c) /\ ~JobAnswered(c)
      <4>1. \/ page'[c] \in {"menu", "found", "confirmed"}
            \/ page'[c] \in {"checking", "submitted"} /\ reply'[c] = NoReply
        <5>1. CASE CheckWorking(c) \/ SubmitJob(c)
          BY <5>1 DEF CheckWorking, SubmitJob, Say, Idle
        <5>2. CASE FindDaemon(c) \/ Confirm(c)
          BY <5>2 DEF FindDaemon, Confirm
        <5>3. CASE SpawnFor(c)
          BY <2>3, <5>3 DEF SpawnFor, Dialog
        <5>4. CASE CloseDialog(c)
          BY <5>4 DEF CloseDialog
        <5>5. CASE \/ OpenProgress(c) \/ FindAgain(c) \/ AskType(c) \/ TypeAnswered(c)
                   \/ AskProgress(c) \/ InitialAnswered(c) \/ PollAnswered(c) \/ Reload(c)
          BY <2>3, <5>5 DEF OpenProgress, FindAgain, AskType, TypeAnswered, AskProgress,
                            InitialAnswered, PollAnswered, Reload, Dialog
        <5> QED
          BY <2>3, <3>2, <5>1, <5>2, <5>3, <5>4, <5>5 DEF Browse, Proceed, User
      <4> QED
        BY <4>1 DEF Sent, Dialog
    <3> QED
      BY <3>1, <3>2
  <2> QED
    BY <2>1, <2>2, <2>3
<1> QED
  BY <1>1, <1>2, <1>3, <1>4, JobStays DEF SentHaveJob

(* No dialog waits for a job that never was: whatever started it, and      *)
(* whatever the daemons have gone through, the end is still to be told, or *)
(* it is known where it was lost.                                          *)
THEOREM DialogHasJobHolds == SpecPage => []DialogHasJob
<1> DEFINE PInv == SentHaveJob /\ NamedIsWorking /\ AcceptedIsWorking
<1>1. InitPage => PInv
  BY DEF InitPage, Init, FreshStatus, SentHaveJob, NamedIsWorking, AcceptedIsWorking, Sent, Dialog
<1>2. /\ Inv /\ Open /\ DoneIsTrue /\ TypeOKPage /\ AwaitsAnswer
      /\ PInv /\ [NextPage]_allVars
      => PInv'
  <2> SUFFICES ASSUME Inv, Open, DoneIsTrue, TypeOKPage, AwaitsAnswer, PInv, [NextPage]_allVars
               PROVE  PInv'
    OBVIOUS
  <2>1. [Next]_vars /\ Open'
    BY PageStep, StepOpen
  <2>2. NamedIsWorking' /\ AcceptedIsWorking'
    BY <2>1, NamedKept, AcceptedKept
  <2>3. CASE ServerStep /\ KeepUntold
    BY <2>2, <2>3, ServerSends
  <2>4. ASSUME NEW c \in Client, Browse(c) \/ User(c), KeepUntold PROVE PInv'
    BY <2>2, <2>4, WindowSends
  <2>5. CASE UNCHANGED allVars
    <3>1. SentHaveJob'
      BY <2>5 DEF allVars, pageVars, vars, daemonVars, workerVars, clientVars, SentHaveJob, Sent,
                  HasJob
    <3> QED
      BY <2>2, <3>1
  <2> QED
    BY <2>3, <2>4, <2>5 DEF NextPage
<1>3. SpecPage => [](Inv /\ Open /\ DoneIsTrue)
  BY PagesAreClients, Invariance, OpenInvariance, DoneIsAccurate, PTL
<1>4. PInv => DialogHasJob
  BY DEF SentHaveJob, Sent, DialogHasJob
<1> HIDE DEF PInv
<1> QED
  BY <1>1, <1>2, <1>3, <1>4, AwaitsAnswerHolds, PageTypeCorrect, PTL DEF SpecPage
=============================================================================
