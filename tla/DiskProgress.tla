---------------------------- MODULE DiskProgress ----------------------------
(***************************************************************************)
(* Browser windows in front of the disk daemon: the disk pages of          *)
(* controllers/Disk.php, the dialogs that start a job, and the progress    *)
(* page, whose script views/default/_js/disk_progress.js polls the daemon  *)
(* until a reply says done and only then lets the user close its dialog.   *)
(* Each window has at most one request to the daemon outstanding.          *)
(***************************************************************************)
EXTENDS DiskDaemon

VARIABLES
  page,    \* what each window shows or waits for
  untold   \* the windows that wait for an end nobody is left to tell them:
           \* history, set by Missed

(* menu:       a disk page without a dialog                                *)
(* found, checking: before it shows such a page Disk.php asks is_working,  *)
(*             which has found a daemon; which awaits its status           *)
(* confirmed:  the dialog posts the job                                    *)
(* submitted:  the job is said, its answer awaited                         *)
(* opening:    the window loads disk/progress                              *)
(* opened, naming, typing: Disk.php has found a daemon; has found one      *)
(*             again to ask for the type; awaits the type                  *)
(* initial:    Disk.php asks for the first progress and awaits it          *)
(* polling:    the dialog is open, "complete": it can be closed            *)
(* stuck:      an exception in the script has left "waiting" set           *)
Page == {"menu", "found", "checking", "confirmed", "submitted", "opening", "opened",
         "naming", "typing", "initial", "polling", "complete", "stuck"}

pageVars == <<vars, page>>
allVars == <<pageVars, untold>>

TypeOKPage == TypeOK /\ page \in [Client -> Page] /\ untold \subseteq Client

InitPage == Init /\ page = [c \in Client |-> "menu"] /\ untold = {}

-----------------------------------------------------------------------------
Goto(c, from, to) == page[c] = from /\ page' = [page EXCEPT ![c] = to]

(* index(), raid() and lvm() of Disk.php: diskdaemon_is_working looks for  *)
(* a daemon first, and shows the page if there is none.                    *)
FindDaemon(c) ==
  /\ Idle(c)
  /\ up
  /\ Goto(c, "menu", "found")
  /\ UNCHANGED vars

(* It asks for the status then: the same daemon, or one it has started if  *)
(* that is gone (SpawnFor).                                                *)
CheckWorking(c) ==
  /\ Goto(c, "found", "checking")
  /\ Say(c, "status")

(* Anything but 'idle' redirects to the progress page, an error and a lost *)
(* answer too.                                                             *)
IsWorkingAnswered(c) ==
  /\ page[c] = "checking"
  /\ Getline(c)
  /\ IF reply[c].kind = "status" /\ reply[c].overall_action = "idle"
       THEN Goto(c, "checking", "menu")
       ELSE Goto(c, "checking", "opening")

(* The confirmation dialogs post the job; whatever the answer, the window  *)
(* goes to the progress page.                                              *)
Confirm(c) ==
  /\ Idle(c)
  /\ Goto(c, "menu", "confirmed")
  /\ UNCHANGED vars

SubmitJob(c) ==
  /\ Goto(c, "confirmed", "submitted")
  /\ \E j \in Job : Say(c, j)

JobAnswered(c) ==
  /\ Goto(c, "submitted", "opening")
  /\ Getline(c)

(* progress() of Disk.php: back to the disk page if there is no daemon.    *)
OpenProgress(c) ==
  /\ Idle(c)
  /\ Goto(c, "opening", IF up THEN "opened" ELSE "menu")
  /\ UNCHANGED vars

(* diskdaemon_type_of_action looks for a daemon again, "to be sure"; if    *)
(* there is none now, the page goes on without a type.                     *)
FindAgain(c) ==
  /\ Idle(c)
  /\ Goto(c, "opened", IF up THEN "naming" ELSE "initial")
  /\ UNCHANGED vars

(* It asks that daemon, or one it has started if that is gone, too.        *)
AskType(c) ==
  /\ Goto(c, "naming", "typing")
  /\ Say(c, "status")

(* Mutant: the answer to the question for the type is left to the next.    *)
TypeNotAwaited(c) ==
  /\ Goto(c, "typing", "initial")
  /\ UNCHANGED vars

TypeAnswered(c) ==
  /\ Goto(c, "typing", "initial")
  /\ Getline(c)

AskProgress(c) ==
  /\ page[c] \in {"initial", "polling"}
  /\ Say(c, "progress")
  /\ UNCHANGED page

(* disk_progress.js with the answer rendered into the page: its done flag  *)
(* is not looked at.  With no answer the script fails.                     *)
InitialAnswered(c) ==
  /\ page[c] = "initial"
  /\ Getline(c)
  /\ IF reply[c] = Eof THEN Goto(c, "initial", "stuck")
                       ELSE Goto(c, "initial", "polling")

(* The callback of a poll; data.ret is null if the daemon went away, and   *)
(* has no done if it is an error.                                          *)
PollAnswered(c) ==
  /\ page[c] = "polling"
  /\ Getline(c)
  /\ Goto(c, "polling", IF reply[c] = Eof THEN "stuck"
                        ELSE IF reply[c] = Error THEN "polling"
                        ELSE IF reply[c].done = "no" THEN "polling"
                        ELSE "complete")

(* close: the window goes to the disk page.                                *)
CloseDialog(c) ==
  /\ Goto(c, "complete", "menu")
  /\ UNCHANGED vars

(* The constructor of BubbaSocket on behalf of a request that is next.     *)
SpawnFor(c) ==
  /\ page[c] \in {"found", "confirmed", "naming", "initial", "polling"}
  /\ Spawn(c)
  /\ UNCHANGED page

(* The user leaves a page whose script has failed by loading it again.     *)
Reload(c) ==
  /\ Goto(c, "stuck", "opening")
  /\ UNCHANGED vars

Loading == {"found", "checking", "confirmed", "submitted", "opening", "opened",
            "naming", "typing", "initial"}

Proceed(c) ==
  \/ CheckWorking(c) \/ IsWorkingAnswered(c)
  \/ SubmitJob(c) \/ JobAnswered(c)
  \/ OpenProgress(c) \/ FindAgain(c) \/ AskType(c) \/ TypeAnswered(c)
  \/ AskProgress(c) \/ InitialAnswered(c) \/ PollAnswered(c)

Browse(c) == FindDaemon(c) \/ Proceed(c) \/ SpawnFor(c)

User(c) == Confirm(c) \/ CloseDialog(c) \/ Reload(c)

ServerStep == ServerNext /\ UNCHANGED page

(* The step takes from a window the end it waits for: the daemon goes away *)
(* with the request of the window, with a job, or with a done flag that it *)
(* might have told; or an error sends the window to the progress page.     *)
Missed(c) ==
  \/ /\ up /\ ~up'
     /\ page[c] # "confirmed"
     /\ request[c] # NoRequest \/ wpc # "none" \/ status.done \in {"ok", "died"}
  \/ reply[c] = Error /\ page'[c] = "opening"

(* Until it shows a page without a dialog, or one that can be closed.      *)
KeepUntold ==
  untold' = {c \in Client : /\ page'[c] \notin {"menu", "complete"}
                            /\ c \in untold \/ Missed(c)}

NextPage ==
  \/ ServerStep /\ KeepUntold
  \/ \E c \in Client : (Browse(c) \/ User(c)) /\ KeepUntold

Turn(c) == UNCHANGED page /\ OnRead(c)

(* Windows and PHP requests go on by themselves.  What needs a daemon      *)
(* starts one and finds one at some point: a daemon lives for a minute at  *)
(* least after it was spawned for the request.  What is asked of it gets   *)
(* its turn in the event loop.  What the user does is not assumed, nor is  *)
(* any other callback of the daemon.                                       *)
Fair ==
  /\ WorkFairness
  /\ WF_pageVars(\E c \in Client : SpawnFor(c))
  /\ \A c \in Client : SF_pageVars(Proceed(c) \/ Turn(c))

SpecPage == InitPage /\ [][NextPage]_allVars

FairSpecPage == SpecPage /\ Fair

(* The other callbacks of the daemon get their turn, too.                  *)
TimedSpecPage == FairSpecPage /\ CallbackFairness

-----------------------------------------------------------------------------
(* "Wait for the progress bar to complete": a progress dialog, which the   *)
(* user cannot close, is told at some point that the job is done, also     *)
(* when the job dies.  Not if the end was lost on its way to the window    *)
(* (untold): with a daemon that was signalled or whose worker was killed,  *)
(* with one whose countdown ran out between the end of the job and the     *)
(* next poll, or because there was an error in place of a job.  And not if *)
(* windows start new jobs for ever: each resets the done flag, and a poll  *)
(* of another window may miss it every time.                               *)
ProgressCompletes ==
  <>[](\A c \in Client : page[c] # "confirmed")
  => \A c \in Client : []<>(page[c] # "polling" \/ c \in untold)

(* The pages from the redirect to the end of the dialog; and the end they  *)
(* wait for: of a job at work, or one that is over, unless it ended        *)
(* without a word.                                                         *)
Dialog == {"opening", "opened", "naming", "typing", "initial", "polling", "stuck"}

HasJob ==
  \/ up /\ (wpc # "none" \/ status.done \in {"ok", "died"})
  \/ "quiet" \in Fault /\ QuietJob # {}

(* No dialog is open for nothing: the window that was sent to the progress *)
(* page, by its own job, by that of another window, or by the status, has  *)
(* a job at work before it or the done flag of one, through every restart  *)
(* of the daemon in between, unless the end was lost as above.             *)
DialogHasJob == \A c \in Client \ untold : page[c] \in Dialog => HasJob

(* A window reads answers to what it has asked, whatever has come between, *)
(* and one that can do nothing but wait has something to wait for: the     *)
(* answer is there, or a daemon that has the request.                      *)
Asked(c) ==
  CASE page[c] \in {"checking", "typing"} -> {"status"}
    [] page[c] = "submitted" -> Job
    [] page[c] \in {"initial", "polling"} -> {"progress"}
    [] OTHER -> {}

AwaitsAnswer ==
  \A c \in Client :
    /\ request[c] # NoRequest => up /\ request[c].action \in Asked(c)
    /\ reply[c] # NoReply => \E a \in Asked(c) : reply[c] \in Answers(a)
    /\ page[c] \in {"checking", "submitted", "typing"} => ~Idle(c)

(* No page load hangs, whatever happens to the daemon or to the worker in  *)
(* the meantime: each ends in a page the user can act on.                  *)
LoadsEnd ==
  \A c \in Client : []<>(page[c] \notin Loading)
=============================================================================
