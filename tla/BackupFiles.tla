---------------------------- MODULE BackupFiles ----------------------------
(***************************************************************************)
(* The back-up jobs and the remote accounts, as browser windows change     *)
(* them: the pages (_js/backup.js, _js/remote_accounts.js) with the rows   *)
(* they show and the requests they make of a row, and the requests         *)
(* (controllers/Ajax_backup.php, models/System.php), each of which reads   *)
(* a YAML file, changes what it has read, empties the file and fills it    *)
(* again.  What a window shows may be out of date, and a dialog keeps the  *)
(* row it was opened on; it comes to the same if the window had not been   *)
(* told of the changes since, so that dialogs are left out.                *)
(*                                                                         *)
(* The selection of a job ("data", "music", ...) is left out: it divides   *)
(* the jobs of a target and a schedule as the schedules divide those of a  *)
(* target.  A target is a remote account, with its jobs in one file, or a  *)
(* device, with its jobs in another.                                       *)
(***************************************************************************)
EXTENDS Naturals, Sequences

CONSTANTS
  Account,     \* the keys an account can have
  Device,      \* the devices that can be a target
  Schedule,    \* daily, halfweekly, weekly
  Window,      \* browser windows, and the request of each
  OneSession,  \* do the windows share a session?
  NoAsk,       \* a window without a request
  MaxOps       \* bounds the requests that change a file

ASSUME FilesAssumption ==
  /\ Account \cap Device = {}
  /\ OneSession \in BOOLEAN
  /\ MaxOps \in Nat

VARIABLES
  accounts,  \* remote_accounts.yml
  jobs,      \* remote_backup_jobs.yml and local_backup_jobs.yml
  exists,    \* which of the two there are
  ask,       \* the request of a window
  at,        \* where it stands, 0 if there is none
  file,      \* what that request has read of the jobs
  acc,       \* and of the accounts
  rows,      \* the jobs a window shows
  known,     \* the accounts a window shows
  stale,     \* the windows that have asked for the table again
  ops        \* how many requests have been submitted

fileVars == <<accounts, jobs, exists>>
requestVars == <<ask, at, file, acc>>
windowVars == <<rows, known, stale>>
webVars == <<fileVars, requestVars, windowVars, ops>>

Target == Account \cup Device
Entry == Target \X Schedule
Kind == {"remote", "local"}
KindOf(t) == IF t \in Account THEN "remote" ELSE "local"

(* keys: the targets that have an entry in the file; null: those whose     *)
(* entry is null; entries: the jobs.                                       *)
File == [keys : SUBSET Target, null : SUBSET Target, entries : SUBSET Entry]

Empty == [keys |-> {}, null |-> {}, entries |-> {}]

Query == [op : {"create", "remove", "update", "add", "remove_account", "edit_account"},
          target : Target, slot : Schedule \cup {NoAsk},
          new : Schedule \cup Account \cup {NoAsk}]

ASSUME NoAskAssumption == NoAsk \notin Query

(* What a request does, in its order.  A file is opened for writing, which *)
(* empties it, and filled.                                                 *)
Program ==
  [create |-> << "read_jobs", "open_jobs", "fill_jobs" >>,
   remove |-> << "read_jobs", "open_jobs", "fill_jobs" >>,
   update |-> << "read_jobs", "open_jobs", "fill_jobs" >>,
   add |-> << "read_accounts", "open_accounts", "fill_accounts" >>,
   remove_account |-> << "read_jobs", "open_jobs", "fill_jobs",
                         "read_accounts", "open_accounts", "fill_accounts" >>,
   edit_account |-> << "read_accounts", "read_jobs", "read_accounts", "open_accounts",
                       "fill_accounts", "open_jobs", "fill_jobs" >>]

TypeOKFiles ==
  /\ accounts \subseteq Account
  /\ jobs \in [Kind -> File]
  /\ exists \subseteq Kind
  /\ ask \in [Window -> Query \cup {NoAsk}]
  /\ at \in [Window -> 0..7]
  /\ \A w \in Window : IF ask[w] = NoAsk THEN at[w] = 0
                        ELSE at[w] \in 1..Len(Program[ask[w].op])
  /\ file \in [Window -> File]
  /\ acc \in [Window -> SUBSET Account]
  /\ rows \in [Window -> SUBSET Entry]
  /\ known \in [Window -> SUBSET Account]
  /\ stale \subseteq Window
  /\ ops \in 0..MaxOps

InitFiles ==
  /\ accounts = {}
  /\ jobs = [k \in Kind |-> Empty]
  /\ exists = {}
  /\ ask = [w \in Window |-> NoAsk]
  /\ at = [w \in Window |-> 0]
  /\ file = [w \in Window |-> Empty]
  /\ acc = [w \in Window |-> {}]
  /\ rows = [w \in Window |-> {}]
  /\ known = [w \in Window |-> {}]
  /\ stale = {}
  /\ ops = 0

Entries == jobs["remote"].entries \cup jobs["local"].entries

-----------------------------------------------------------------------------
(* The windows.                                                            *)
Submitted(w) == at[w] # 0

(* PHP keeps the session locked as long as a request of it runs.           *)
SessionIsFree == OneSession => \A w \in Window : ~Submitted(w)

(* Mutant: a table that keeps the rows it had.                             *)
KeepRows(w) == rows' = [rows EXCEPT ![w] = @ \cup Entries]

(* The callbacks that fill the tables with what they are given.            *)
ShowJobs(w) == rows' = [rows EXCEPT ![w] = Entries]

ShowAccounts(w) == known' = [known EXCEPT ![w] = accounts]

(* Mutant: a reload that does not wait for the session.                    *)
ReloadAnytime(w) ==
  /\ ~Submitted(w)
  /\ ShowJobs(w) /\ ShowAccounts(w)
  /\ stale' = stale \ {w}
  /\ UNCHANGED <<fileVars, requestVars, ops>>

(* get_backup_jobs and get_remote_accounts, after a change or when the     *)
(* page is loaded.                                                         *)
Reload(w) ==
  /\ ~Submitted(w) /\ SessionIsFree
  /\ ShowJobs(w) /\ ShowAccounts(w)
  /\ stale' = stale \ {w}
  /\ UNCHANGED <<fileVars, requestVars, ops>>

Send(w, q) ==
  /\ ~Submitted(w) /\ SessionIsFree
  /\ ops < MaxOps
  /\ ops' = ops + 1
  /\ ask' = [ask EXCEPT ![w] = q]
  /\ at' = [at EXCEPT ![w] = 1]
  /\ UNCHANGED <<fileVars, file, acc, windowVars>>

(* The dialogs take their data from the row that was clicked, or from the  *)
(* list of targets they show; the throbber keeps a window to one request.  *)
AskCreate(w) ==
  \E t \in known[w] \cup Device, s \in Schedule :
    Send(w, [op |-> "create", target |-> t, slot |-> s, new |-> NoAsk])

AskRemove(w) ==
  \E e \in rows[w] :
    Send(w, [op |-> "remove", target |-> e[1], slot |-> e[2], new |-> NoAsk])

AskUpdate(w) ==
  \E e \in rows[w], s \in Schedule :
    Send(w, [op |-> "update", target |-> e[1], slot |-> e[2], new |-> s])

AskAdd(w) ==
  \E a \in Account :
    Send(w, [op |-> "add", target |-> a, slot |-> NoAsk, new |-> NoAsk])

AskRemoveAccount(w) ==
  \E a \in known[w] :
    Send(w, [op |-> "remove_account", target |-> a, slot |-> NoAsk, new |-> NoAsk])

AskEditAccount(w) ==
  \E a \in known[w] : \E b \in Account \ {a} :
    Send(w, [op |-> "edit_account", target |-> a, slot |-> NoAsk, new |-> b])

Submit(w) ==
  \/ AskCreate(w) \/ AskRemove(w) \/ AskUpdate(w)
  \/ AskAdd(w) \/ AskRemoveAccount(w) \/ AskEditAccount(w)

-----------------------------------------------------------------------------
(* The requests.                                                           *)
Step(w) == Program[ask[w].op][at[w]]
Doing(w, step) == Submitted(w) /\ Step(w) = step

Of(f, t) == {e \in f.entries : e[1] = t}

(* Mutant: an account is renamed and its jobs are not.                     *)
NotRenamed(f, a, b) == f

(* The jobs of an account that had none are written as null.               *)
Renamed(f, a, b) ==
  [keys |-> (f.keys \ {a}) \cup {b},
   null |-> (f.null \ {a, b}) \cup (IF a \in f.keys \ f.null THEN {} ELSE {b}),
   entries |-> (f.entries \ (Of(f, a) \cup Of(f, b))) \cup {<<b, e[2]>> : e \in Of(f, a)}]

Without(f, t) ==
  [keys |-> f.keys \ {t}, null |-> f.null \ {t}, entries |-> f.entries \ Of(f, t)]

With(f, t, s) ==
  [keys |-> f.keys \cup {t}, null |-> f.null \ {t}, entries |-> f.entries \cup {<<t, s>>}]

Dropped(f, t, s) == [f EXCEPT !.entries = @ \ {<<t, s>>}]

(* What a request writes, after what it has read.                          *)
NewJobs(q, f) ==
  CASE q.op = "create" -> With(f, q.target, q.slot)
    [] q.op = "remove" -> Dropped(f, q.target, q.slot)
    [] q.op = "update" -> With(Dropped(f, q.target, q.slot), q.target, q.new)
    [] q.op = "remove_account" -> Without(f, q.target)
    [] q.op = "edit_account" -> Renamed(f, q.target, q.new)

NewAccounts(q, a) ==
  CASE q.op = "add" -> a \cup {q.target}
    [] q.op = "remove_account" -> a \ {q.target}
    [] q.op = "edit_account" -> (a \ {q.target}) \cup {q.new}

(* What has been read speaks against the request: the account is there, or *)
(* is not, or another job has the schedule.                                *)
Refused(w) ==
  /\ at[w] = 1
  /\ \/ ask[w].op = "add" /\ ask[w].target \in accounts
     \/ ask[w].op = "edit_account" /\ ask[w].target \notin accounts
     \/ /\ ask[w].op = "update"
        /\ <<ask[w].target, ask[w].new>> \in jobs[KindOf(ask[w].target)].entries

(* Mutant: a refused request is not over for its window.                   *)
LeaveOpen(w) ==
  /\ at' = [at EXCEPT ![w] = 0]
  /\ UNCHANGED <<ask, file, acc>>

(* The request has ended and nothing is left of what it has read.          *)
Leave(w) ==
  /\ at' = [at EXCEPT ![w] = 0]
  /\ ask' = [ask EXCEPT ![w] = NoAsk]
  /\ file' = [file EXCEPT ![w] = Empty]
  /\ acc' = [acc EXCEPT ![w] = {}]

(* A dialog that is told of an error stays open over the old table; what   *)
(* edits an account that is gone reports none.                             *)
Refuse(w) ==
  /\ Submitted(w) /\ Refused(w)
  /\ Leave(w)
  /\ stale' = IF ask[w].op = "edit_account" THEN stale \cup {w} ELSE stale
  /\ UNCHANGED <<fileVars, rows, known, ops>>

(* The answer: the dialog closes and the page asks for its table.          *)
GoOn(w) ==
  IF at[w] < Len(Program[ask[w].op])
    THEN /\ at' = [at EXCEPT ![w] = @ + 1]
         /\ UNCHANGED <<ask, stale>>
    ELSE /\ at' = [at EXCEPT ![w] = 0]
         /\ ask' = [ask EXCEPT ![w] = NoAsk]
         /\ stale' = stale \cup {w}

ReadJobs(w) ==
  /\ Doing(w, "read_jobs") /\ ~Refused(w)
  /\ file' = [file EXCEPT ![w] = jobs[KindOf(ask[w].target)]]
  /\ GoOn(w)
  /\ UNCHANGED <<fileVars, acc, rows, known, ops>>

ReadAccounts(w) ==
  /\ Doing(w, "read_accounts") /\ ~Refused(w)
  /\ acc' = [acc EXCEPT ![w] = accounts]
  /\ GoOn(w)
  /\ UNCHANGED <<fileVars, file, rows, known, ops>>

OpenJobs(w) ==
  LET k == KindOf(ask[w].target) IN
  /\ Doing(w, "open_jobs")
  /\ jobs' = [jobs EXCEPT ![k] = Empty]
  /\ exists' = exists \cup {k}
  /\ GoOn(w)
  /\ UNCHANGED <<accounts, file, acc, rows, known, ops>>

FillJobs(w) ==
  /\ Doing(w, "fill_jobs")
  /\ jobs' = [jobs EXCEPT ![KindOf(ask[w].target)] = NewJobs(ask[w], file[w])]
  /\ file' = [file EXCEPT ![w] = Empty]
  /\ GoOn(w)
  /\ UNCHANGED <<accounts, exists, acc, rows, known, ops>>

OpenAccounts(w) ==
  /\ Doing(w, "open_accounts")
  /\ accounts' = {}
  /\ GoOn(w)
  /\ UNCHANGED <<jobs, exists, file, acc, rows, known, ops>>

FillAccounts(w) ==
  /\ Doing(w, "fill_accounts")
  /\ accounts' = NewAccounts(ask[w], acc[w])
  /\ acc' = [acc EXCEPT ![w] = {}]
  /\ GoOn(w)
  /\ UNCHANGED <<jobs, exists, file, rows, known, ops>>

Serve(w) ==
  \/ Refuse(w) \/ ReadJobs(w) \/ OpenJobs(w) \/ FillJobs(w)
  \/ ReadAccounts(w) \/ OpenAccounts(w) \/ FillAccounts(w)

NextFiles ==
  \E w \in Window : Reload(w) \/ Submit(w) \/ Serve(w)

(* PHP runs a request to its end, and what a page asks for arrives.        *)
FairFiles ==
  \A w \in Window : WF_webVars(Serve(w)) /\ WF_webVars(w \in stale /\ Reload(w))

SpecFiles == InitFiles /\ [][NextFiles]_webVars

FairSpecFiles == SpecFiles /\ FairFiles

-----------------------------------------------------------------------------
(* The files as they will be when the request that has begun to write is   *)
(* through: from its first open on, all it will write counts as written.   *)
Rest(w) == {Program[ask[w].op][i] : i \in at[w]..Len(Program[ask[w].op])}

Writing(w) ==
  /\ Submitted(w)
  /\ \E i \in 1..(at[w] - 1) : Program[ask[w].op][i] \in {"open_jobs", "open_accounts"}

WillFill(w, step) == Writing(w) /\ step \in Rest(w)

SettledAccounts ==
  IF \E w \in Window : WillFill(w, "fill_accounts")
    THEN LET w == CHOOSE v \in Window : WillFill(v, "fill_accounts")
         IN  NewAccounts(ask[w], IF Step(w) = "fill_accounts" THEN acc[w] ELSE accounts)
    ELSE accounts

SettledEntries ==
  IF \E w \in Window : WillFill(w, "fill_jobs")
    THEN LET w == CHOOSE v \in Window : WillFill(v, "fill_jobs")
             k == KindOf(ask[w].target)
             other == IF k = "remote" THEN "local" ELSE "remote"
         IN  NewJobs(ask[w], file[w]).entries \cup jobs[other].entries
    ELSE Entries

Table == INSTANCE JobTable WITH accounts <- SettledAccounts, entries <- SettledEntries

(* The requests of one session implement the table, although they spread   *)
(* over two files, each emptied before it is filled, and come from windows *)
(* that show rows which are no more.                                       *)
ImplementsTable == Table!Spec

(* The window that has changed the table shows it as it is some time       *)
(* later, whatever other windows do to it in the meantime: rows that are   *)
(* gone do not stay.                                                       *)
ShowsTable == \A w \in Window : w \in stale ~> rows[w] = SettledEntries

(* A page never shows a file that has been emptied, or jobs that are gone  *)
(* with an account that is still there: what a window is given is the      *)
(* table, between two clicks of whatever window.                           *)
ShownIsSettled ==
  [][\A w \in Window :
       rows'[w] # rows[w] \/ known'[w] # known[w]
         => rows'[w] = SettledEntries /\ known'[w] = SettledAccounts]_webVars

(* If there is no other window, a window that has no request shows the     *)
(* table, or has asked for it again: a request that was refused has not    *)
(* changed it, and after any other the window loads it again.              *)
OneWindow == \A v, w \in Window : v = w

OwnTableIsTrue ==
  OneWindow => \A w \in Window :
    \/ Submitted(w) \/ w \in stale
    \/ rows[w] = SettledEntries /\ known[w] = SettledAccounts
=============================================================================
