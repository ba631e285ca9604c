----------------------------- MODULE DiskDaemon -----------------------------
(***************************************************************************)
(* The disk daemon, bubba-backend/web-admin/bin/diskdaemon.pl: a process   *)
(* with a single-threaded event loop that answers the requests of PHP      *)
(* clients on a unix socket and forks one worker process per disk job.     *)
(* The worker reports through %status, a hash tied to shared memory; every *)
(* store into it and every load from it is a step of its own here, because *)
(* the daemon answers polls while the worker writes.                       *)
(*                                                                         *)
(* A daemon that exits is spawned again by the next client that fails to   *)
(* connect.  The races between an exiting daemon and its successors are    *)
(* the subject of DaemonSpawn; here an incarnation is gone before the next *)
(* one is up.                                                              *)
(*                                                                         *)
(* The contents of status are named relative to the job in progress:       *)
(*   done: "no" is 0; "ok" and "died" are the 1 stored by the last started *)
(*         job, on success or in its catch block; "old" is the 1 a         *)
(*         previous job left behind.                                       *)
(*   text: "result" is the final message of the job, "other" is anything   *)
(*         else: the name of a step, or what a previous job left.  The     *)
(*         steps of a script change nothing else on their way.             *)
(* The fields progress, error and is_idle are left out: no step of the     *)
(* daemon or of a client depends on them.                                  *)
(***************************************************************************)
CONSTANTS
  Client,     \* PHP requests that talk to the daemon
  Nobody,     \* not a client
  Job,        \* the job actions of on_read
  QuietJob,   \* the jobs whose failing steps return instead of dying
  NoJob,      \* not a job
  Fault       \* the faults that may happen, see FaultKind

(* refuse:    the try block of a request fails: a parameter is missing,    *)
(*            the fork fails, or the shared memory cannot be read          *)
(* die:       a step of a job fails and the job dies into its catch block  *)
(* quiet:     a step of a quiet job fails and the job returns              *)
(* kill:      the worker process is killed                                 *)
(* interrupt: the daemon gets SIGINT                                       *)
FaultKind == {"refuse", "die", "quiet", "kill", "interrupt"}

Query == {"progress", "status", "shutdown"}

ASSUME DaemonAssumption ==
  /\ Nobody \notin Client
  /\ NoJob \notin Job
  /\ QuietJob \subseteq Job
  /\ Job \cap Query = {}
  /\ {"idle", "none"} \cap Job = {}
  /\ Fault \subseteq FaultKind

NoRequest == [action |-> "none"]
Request == {[action |-> a] : a \in Job \cup Query}

Done == {"no", "old", "ok", "died"}
Text == {"other", "result"}

NoReply == [kind |-> "none"]
Eof == [kind |-> "eof"]
Busy == [kind |-> "busy"]
Error == [kind |-> "error"]
Blank == [kind |-> "blank"]
ProgressReply == [kind : {"progress"}, done : Done, text : Text]
StatusReply == [kind : {"status"}, overall_action : Job \cup {"idle"}]
Reply == {Eof, Busy, Error, Blank} \cup ProgressReply \cup StatusReply

VARIABLES
  up,          \* the daemon process runs its event loop
  is_running,  \* $is_running of the daemon process
  timer,       \* "periodic": waiting for a tick, "countdown": for on_expire
  reading,     \* the client whose on_read is in write_progress, or Nobody
  seen,        \* the done flag that on_read has loaded, or "unread"
  wpc,         \* the next store of the worker, "none" if there is no worker
  wjob,        \* the job of the worker
  status,      \* the shared %status
  orphan,      \* is a worker at work whose daemon is gone?
  request,     \* the request of each client that has no answer yet
  reply        \* the first line of the answer, until the client reads it

daemonVars == <<up, is_running, timer, reading, seen>>
workerVars == <<wpc, wjob, status, orphan>>
clientVars == <<request, reply>>
vars == <<daemonVars, workerVars, clientVars>>

(* Where a worker stands: the stores it has left before it announces its   *)
(* job, while it works, and after its last word.                           *)
Starting == {"start", "clear_done", "announce"}
Working == {"work", "succeed", "die_text"}
Ending == {"idle", "return"}
WorkerPc == {"none", "killed"} \cup Starting \cup Working \cup Ending

TypeOK ==
  /\ up \in BOOLEAN
  /\ is_running \in BOOLEAN
  /\ timer \in {"periodic", "countdown"}
  /\ reading \in Client \cup {Nobody}
  /\ seen \in Done \cup {"unread"}
  /\ wpc \in WorkerPc
  /\ wjob \in Job \cup {NoJob}
  /\ status \in [overall_action : Job \cup {"idle"}, done : Done, text : Text]
  /\ orphan \in BOOLEAN
  /\ request \in [Client -> Request \cup {NoRequest}]
  /\ reply \in [Client -> Reply \cup {NoReply}]

(* Mutant: the main program does not store overall_action.                 *)
FreshStatusWithoutAction == [overall_action |-> NoJob, done |-> "no", text |-> "other"]

(* What the main program stores into a fresh %status.                      *)
FreshStatus == [overall_action |-> "idle", done |-> "no", text |-> "other"]

Init ==
  /\ up = TRUE
  /\ is_running = FALSE
  /\ timer = "periodic"
  /\ reading = Nobody
  /\ seen = "unread"
  /\ wpc = "none"
  /\ wjob = NoJob
  /\ status = FreshStatus
  /\ orphan = FALSE
  /\ request = [c \in Client |-> NoRequest]
  /\ reply = [c \in Client |-> NoReply]

-----------------------------------------------------------------------------
(* The event loop runs one callback at a time.                             *)
LoopIsFree == up /\ reading = Nobody

Pending(c, action) ==
  /\ LoopIsFree
  /\ request[c] = [action |-> action]

Answer(c, r) ==
  /\ request' = [request EXCEPT ![c] = NoRequest]
  /\ reply' = [reply EXCEPT ![c] = r]

(* on_read of a job action while a job runs: "allready running".           *)
RejectBusy(c) ==
  /\ \E j \in Job : Pending(c, j)
  /\ is_running
  /\ Answer(c, Busy)
  /\ UNCHANGED <<daemonVars, workerVars>>

(* on_read of a job action that dies in its try block: is_running is set   *)
(* and cleared again within the callback.                                  *)
RejectError(c) ==
  /\ "refuse" \in Fault
  /\ \E j \in Job : Pending(c, j)
  /\ ~is_running
  /\ Answer(c, Error)
  /\ UNCHANGED <<daemonVars, workerVars>>

(* Mutant: a handler that does not look at is_running.                     *)
StartJobAlways(c) ==
  \E j \in Job :
    /\ Pending(c, j)
    /\ is_running' = TRUE
    /\ wpc' = "start"
    /\ wjob' = j
    /\ status' = [status EXCEPT !.done = IF @ = "no" THEN "no" ELSE "old",
                                !.text = "other"]
    /\ reading' = c
    /\ UNCHANGED <<up, timer, seen, orphan, clientVars>>

(* on_read of a job action that is accepted: the worker is forked, then    *)
(* the callback goes on to write_progress.  The flag and the text that     *)
(* are now in status were left by an earlier job.                          *)
StartJob(c) ==
  \E j \in Job :
    /\ Pending(c, j)
    /\ ~is_running
    /\ is_running' = TRUE
    /\ wpc' = "start"
    /\ wjob' = j
    /\ status' = [status EXCEPT !.done = IF @ = "no" THEN "no" ELSE "old",
                                !.text = "other"]
    /\ reading' = c
    /\ UNCHANGED <<up, timer, seen, orphan, clientVars>>

(* The catch block of 'progress' and of 'status'.                          *)
CatchQuery(c) ==
  /\ "refuse" \in Fault
  /\ Answer(c, Error)
  /\ UNCHANGED <<daemonVars, workerVars>>

(* on_read of 'progress'.                                                  *)
QueryProgress(c) ==
  /\ Pending(c, "progress")
  /\ \/ /\ reading' = c
        /\ UNCHANGED <<up, is_running, timer, seen, workerVars, clientVars>>
     \/ CatchQuery(c)

(* write_progress loads done first and the text after it.                  *)
ReadDone ==
  /\ up
  /\ reading # Nobody
  /\ seen = "unread"
  /\ seen' = status.done
  /\ UNCHANGED <<up, is_running, timer, reading, workerVars, clientVars>>

(* Mutant: a poll that waits until the job is done.                        *)
WriteProgressWhenDone(c) ==
  /\ up
  /\ reading = c
  /\ seen \notin {"unread", "no"}
  /\ Answer(c, [kind |-> "progress", done |-> seen, text |-> status.text])
  /\ reading' = Nobody
  /\ seen' = "unread"
  /\ UNCHANGED <<up, is_running, timer, workerVars>>

WriteProgress(c) ==
  /\ up
  /\ reading = c
  /\ seen # "unread"
  /\ Answer(c, [kind |-> "progress", done |-> seen, text |-> status.text])
  /\ reading' = Nobody
  /\ seen' = "unread"
  /\ UNCHANGED <<up, is_running, timer, workerVars>>

(* Mutant: a when() that ends with continue falls through to the next.     *)
QueryStatusFallsThrough(c) ==
  /\ Pending(c, "status")
  /\ reading' = c
  /\ UNCHANGED <<up, is_running, timer, seen, workerVars, clientVars>>

(* on_read of 'status'.                                                    *)
QueryStatus(c) ==
  /\ Pending(c, "status")
  /\ \/ /\ Answer(c, [kind |-> "status", overall_action |-> status.overall_action])
        /\ UNCHANGED <<daemonVars, workerVars>>
     \/ CatchQuery(c)

(* Mutant: nothing is written for an action without a handler.             *)
UnknownActionIgnored(c) ==
  /\ Pending(c, "shutdown")
  /\ UNCHANGED vars

(* No when() matches the 'shutdown' of abort_format: only a newline comes. *)
UnknownAction(c) ==
  /\ Pending(c, "shutdown")
  /\ Answer(c, Blank)
  /\ UNCHANGED <<daemonVars, workerVars>>

(* Mutant: on_return leaves is_running to the worker, where the code after *)
(* try/catch clears a copy of it.                                          *)
OnReturnStaysBusy ==
  /\ LoopIsFree
  /\ wpc = "return"
  /\ wpc' = "none"
  /\ wjob' = NoJob
  /\ UNCHANGED <<daemonVars, status, orphan, clientVars>>

(* The callbacks of IO::Async::Function.  on_error dies out of the loop.   *)
OnReturn ==
  /\ LoopIsFree
  /\ wpc = "return"
  /\ is_running' = FALSE
  /\ wpc' = "none"
  /\ wjob' = NoJob
  /\ UNCHANGED <<up, timer, reading, seen, status, orphan, clientVars>>

(* The process is gone: its clients read end-of-file, nothing of its       *)
(* memory, shared or not, is left to a later one.  A worker that has       *)
(* stores left works on, up to the first of them.                          *)
Exit ==
  /\ up' = FALSE
  /\ is_running' = FALSE
  /\ timer' = "periodic"
  /\ reading' = Nobody
  /\ seen' = "unread"
  /\ wpc' = "none"
  /\ wjob' = NoJob
  /\ status' = FreshStatus
  /\ orphan' = (orphan \/ wpc \in Starting \cup Working \cup {"idle"})
  /\ reply' = [c \in Client |-> IF request[c] # NoRequest THEN Eof ELSE reply[c]]
  /\ request' = [c \in Client |-> NoRequest]

OnError ==
  /\ LoopIsFree
  /\ wpc = "killed"
  /\ Exit

(* Mutant: on_tick with the condition reversed.                            *)
OnTickWhileBusy ==
  /\ LoopIsFree
  /\ timer = "periodic"
  /\ is_running
  /\ timer' = "countdown"
  /\ UNCHANGED <<up, is_running, reading, seen, workerVars, clientVars>>

(* on_tick of the periodic timer: an idle daemon starts the countdown.     *)
OnTick ==
  /\ LoopIsFree
  /\ timer = "periodic"
  /\ ~is_running
  /\ timer' = "countdown"
  /\ UNCHANGED <<up, is_running, reading, seen, workerVars, clientVars>>

(* Mutant: on_expire relies on what on_tick saw ten seconds before.        *)
OnExpireUnchecked ==
  /\ LoopIsFree
  /\ timer = "countdown"
  /\ Exit

(* on_expire of the countdown: still idle, so the daemon goes away; or     *)
(* "we wasn't idle...".                                                    *)
OnExpire ==
  /\ LoopIsFree
  /\ timer = "countdown"
  /\ \/ /\ ~is_running
        /\ Exit
     \/ /\ is_running
        /\ timer' = "periodic"
        /\ UNCHANGED <<up, is_running, reading, seen, workerVars, clientVars>>

(* SIGINT runs HUNTSMAN wherever the daemon is, with a job at work or not. *)
Interrupt ==
  /\ "interrupt" \in Fault
  /\ up
  /\ Exit

-----------------------------------------------------------------------------
(* The worker process, one store into %status per step.  It does not stop  *)
(* for the daemon's event loop.                                            *)
Store(from, to, s) ==
  /\ wpc = from
  /\ wpc' = to
  /\ status' = s
  /\ UNCHANGED <<daemonVars, wjob, orphan, clientVars>>

(* Mutant: reset_status without the done flag.                             *)
ResetDoneForgotten == Store("clear_done", "announce", status)

(* reset_status, in its order.                                             *)
ResetAction == Store("start", "clear_done", [status EXCEPT !.overall_action = "idle"])
ResetDone == Store("clear_done", "announce", [status EXCEPT !.done = "no"])

AnnounceJob == Store("announce", "work", [status EXCEPT !.overall_action = wjob])

(* Mutant: done before the message, as in the catch block.                 *)
SuccessBeforeMessage == Store("work", "succeed", [status EXCEPT !.done = "ok"])

(* The last lines of the try block: the message, then done.                *)
ReportSuccess == Store("work", "succeed", [status EXCEPT !.text = "result"])
SetDone == Store("succeed", "idle", [status EXCEPT !.done = "ok"])

(* Mutant: a catch block that stores the message alone.                    *)
CatchMessageOnly ==
  /\ "die" \in Fault
  /\ Store("work", "die_text", status)

(* The catch block: done, then the message.                                *)
CatchDone ==
  /\ "die" \in Fault
  /\ Store("work", "die_text", [status EXCEPT !.done = "died"])
CatchText == Store("die_text", "idle", [status EXCEPT !.text = "result"])

(* A failing step of add_to_lvm: the message, and return out of the try    *)
(* block; done stays as it is.                                             *)
FailQuietly ==
  /\ "quiet" \in Fault
  /\ wjob \in QuietJob
  /\ Store("work", "idle", [status EXCEPT !.text = "result"])

(* Mutant: the job does not return.                                        *)
IdleForever == Store("idle", "idle", [status EXCEPT !.overall_action = "idle"])

(* Mutant: the status is reset when the job is over.                       *)
BecomeIdleResets ==
  Store("idle", "return", [status EXCEPT !.overall_action = "idle", !.done = "no"])

(* What follows try/catch in every job.                                    *)
BecomeIdle == Store("idle", "return", [status EXCEPT !.overall_action = "idle"])

(* The environment kills the worker process.                               *)
KillWorker ==
  /\ "kill" \in Fault
  /\ wpc \notin {"none", "killed", "return"}
  /\ wpc' = "killed"
  /\ UNCHANGED <<daemonVars, wjob, status, orphan, clientVars>>

(* HUNTSMAN has removed the shared memory: the next store of a worker that *)
(* has outlived its daemon dies, and so does that of its catch block.  The *)
(* last one of them is gone.                                               *)
OrphanEnds ==
  /\ orphan
  /\ orphan' = FALSE
  /\ UNCHANGED <<daemonVars, wpc, wjob, status, clientVars>>

-----------------------------------------------------------------------------
(* BubbaSocket: connect, spawning a daemon when there is none, say, and    *)
(* getline.                                                                *)
Idle(c) == request[c] = NoRequest /\ reply[c] = NoReply

Spawn(c) ==
  /\ ~up
  /\ Idle(c)
  /\ up' = TRUE
  /\ UNCHANGED <<is_running, timer, reading, seen, workerVars, clientVars>>

Say(c, action) ==
  /\ up
  /\ Idle(c)
  /\ request' = [request EXCEPT ![c] = [action |-> action]]
  /\ UNCHANGED <<daemonVars, workerVars, reply>>

Getline(c) ==
  /\ reply[c] # NoReply
  /\ reply' = [reply EXCEPT ![c] = NoReply]
  /\ UNCHANGED <<daemonVars, workerVars, request>>

OnRead(c) ==
  \/ RejectBusy(c) \/ RejectError(c) \/ StartJob(c)
  \/ QueryProgress(c) \/ QueryStatus(c) \/ UnknownAction(c)

Callback == OnReturn \/ OnError \/ OnTick \/ OnExpire \/ Interrupt

Worker ==
  \/ ResetAction \/ ResetDone \/ AnnounceJob
  \/ ReportSuccess \/ SetDone \/ CatchDone \/ CatchText \/ FailQuietly
  \/ BecomeIdle \/ KillWorker \/ OrphanEnds

(* Every step but those of the clients.                                    *)
ServerNext ==
  \/ \E c \in Client : OnRead(c) \/ WriteProgress(c)
  \/ ReadDone
  \/ Callback
  \/ Worker

Next ==
  \/ ServerNext
  \/ \E c \in Client :
       \/ Spawn(c)
       \/ Getline(c)
       \/ \E a \in Job \cup Query : Say(c, a)

(* The worker is scheduled by the kernel and the commands of a script end. *)
(* The loop polls every descriptor and every timer in each of its rounds,  *)
(* so a callback that is ready again and again gets its turn; that is      *)
(* strong fairness.  Nothing is assumed of clients that have no request    *)
(* outstanding, of faults, or of signals.                                  *)
WorkerGoesOn ==
  \/ ResetAction \/ ResetDone \/ AnnounceJob
  \/ ReportSuccess \/ CatchDone \/ FailQuietly
  \/ SetDone \/ CatchText \/ BecomeIdle

WorkFairness ==
  /\ WF_vars(WorkerGoesOn)
  /\ WF_vars(ReadDone \/ \E c \in Client : WriteProgress(c))

CallbackFairness == SF_vars(OnReturn \/ OnError) /\ SF_vars(OnTick \/ OnExpire)

Fairness ==
  /\ WorkFairness
  /\ CallbackFairness
  /\ \A c \in Client : SF_vars(OnRead(c)) /\ WF_vars(Getline(c))

Spec == Init /\ [][Next]_vars

FairSpec == Spec /\ Fairness

-----------------------------------------------------------------------------
(* The flag that guards every job action is in step with the worker        *)
(* process although different processes end and start jobs: a daemon that  *)
(* refuses a job has a worker to wait for, and one that accepts has none.  *)
BusyIsWorking == up => (is_running <=> wpc # "none")

(* What a poll can see of an earlier job: its done flag survives only      *)
(* until the reset of the next one, and the flag of the job itself is set  *)
(* only when its script is over.  Nowhere in between is done set.          *)
DoneTracksJob ==
  up => /\ status.done = "old" => wpc \in {"start", "clear_done", "killed"}
        /\ status.done \in {"ok", "died"} =>
             wpc \in {"none", "die_text", "killed"} \cup Ending

(* A client that is told that a job has succeeded is told its final        *)
(* message in the same answer, although write_progress loads the two in    *)
(* separate steps.  (Of a job that died this is false: the catch block     *)
(* sets done before the message.)                                          *)
SuccessToldWhole ==
  \A c \in Client :
    reply[c].kind = "progress" /\ reply[c].done = "ok" => reply[c].text = "result"

(* Every script that comes to its end has told so, however it came there,  *)
(* and a dialog that waits for it can be closed: only the failing steps    *)
(* that return tell nothing.                                               *)
EndIsTold ==
  wpc \in Ending =>
    \/ status.done \in {"ok", "died"}
    \/ "quiet" \in Fault /\ wjob \in QuietJob

(* Both: the done flag is up when a script has come to its end, and is not *)
(* while it runs.                                                          *)
DoneIsTrue == DoneTracksJob /\ EndIsTold

(* The idle timer never takes the daemon away from under a job that was    *)
(* accepted since it was set, nor before the end of a job is taken note    *)
(* of; and nothing but a signal leaves a worker on the disks that no       *)
(* daemon knows of, beside which the next daemon would accept a job.       *)
NeverAbandonsJob ==
  [][/\ OnExpire => up' \/ wpc = "none"
     /\ orphan' => orphan \/ Interrupt]_vars

(* The daemon implements the lock on disk jobs: that of its own jobs.  The *)
(* signal that ends a daemon releases the lock from under a worker.        *)
Lock == INSTANCE JobLock WITH holder <- IF wpc = "none" THEN NoJob ELSE wjob

LockSafety == Lock!Safety
ImplementsJobLock == Lock!Spec

(* What can be said to a request.                                          *)
Answers(action) ==
  {Eof} \cup CASE action \in Job -> {Busy, Error} \cup ProgressReply
               [] action = "progress" -> {Error} \cup ProgressReply
               [] action = "status" -> {Error} \cup StatusReply
               [] action = "shutdown" -> {Blank}

(* A client gets one answer, to what it has asked, and none that it has    *)
(* not asked for, and no request is forgotten, although on_read hands it   *)
(* over to write_progress and the process may end at any time.             *)
Answered(c) ==
  \/ request[c] # NoRequest /\ request'[c] = NoRequest
  \/ reply'[c] \notin {NoReply, reply[c]}

OneAnswerEach ==
  [][\A c \in Client : Answered(c) =>
       /\ request[c] # NoRequest /\ request'[c] = NoRequest
       /\ reply[c] = NoReply /\ reply'[c] \in Answers(request[c].action)]_vars

(* Nobody is left waiting in getline: a request is answered, or the        *)
(* connection is closed; it is no longer open then (see OneAnswerEach).    *)
RequestsAnswered ==
  \A c \in Client : []<>(request[c] = NoRequest)

(* A daemon that is given no more jobs goes away, however often it is      *)
(* asked for progress or status in the meantime.                           *)
IdleDaemonExits == <>[](~is_running) => []<>(~up)
=============================================================================
