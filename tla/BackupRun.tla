----------------------------- MODULE BackupRun -----------------------------
(***************************************************************************)
(* The nightly runs of the back-up jobs, bubba-run-backupjobs: a process   *)
(* per schedule that reads the accounts, the jobs and the status of all    *)
(* jobs, copies what is due, and writes the whole status back before and   *)
(* after each copy.  Runs of different schedules may overlap, and windows  *)
(* change the jobs while they read them.                                   *)
(*                                                                         *)
(* An uncaught exception ends a run.  The order of the jobs is that of a   *)
(* Python dictionary: any.  No lock keeps runs apart, be they of one       *)
(* schedule or of two.  The dump of a status fits into the buffer of the   *)
(* stream: it reaches the file as one piece, when it is flushed.           *)
(***************************************************************************)
EXTENDS BackupFiles, FiniteSets

CONSTANTS
  Process,  \* the runs that cron or an administrator start
  MaxJobs   \* bounds the jobs that there are at first

ASSUME RunsAssumption == MaxJobs \in Nat

VARIABLES
  pc,       \* where each run stands
  of,       \* the schedule it is for
  seen,     \* the accounts it has read
  due,      \* the targets it has still to come to
  bad,      \* those of them that it fails at
  none,     \* the files it has found empty, which YAML loads as None
  copy,     \* its copy of the status
  cur,      \* the target it is at
  retval,   \* what the last rsync has returned
  status,   \* backup_status.yml
  form,     \* what that file is for a reader of YAML
  ran,      \* history: what the rsyncs of each job have returned, ever
  last,     \* history: what the last of them has
  cut,      \* history: the jobs whose run was cut off at them
  mixed,    \* history: have two runs overlapped?
  torn      \* history: has a run dumped over what another had dumped?

runVars == <<pc, of, seen, due, bad, none, copy, cur, retval>>
statusVars == <<status, form>>
historyVars == <<ran, last, cut, mixed, torn>>
vars == <<webVars, runVars, statusVars, historyVars>>

(* What rsync returns: zero, the number of an error, or, as the negative   *)
(* number of the signal, that it was killed.                               *)
Result == {"ok", "failed", "killed"}
Value == {"none", "running"} \cup Result

NoSchedule == NoAsk

TypeOK ==
  /\ TypeOKFiles
  /\ pc \in [Process -> {"off", "jobs", "status", "pick", "mark", "marked", "rsync",
                         "store", "stored", "over"}]
  /\ of \in [Process -> Schedule \cup {NoSchedule}]
  /\ seen \in [Process -> SUBSET Account]
  /\ due \in [Process -> SUBSET Target]
  /\ bad \in [Process -> SUBSET Target]
  /\ none \in [Process -> SUBSET (Kind \cup {"status"})]
  /\ copy \in [Process -> [Entry -> Value]]
  /\ cur \in [Process -> Target \cup {NoAsk}]
  /\ retval \in [Process -> Result \cup {"none"}]
  /\ status \in [Entry -> Value]
  /\ form \in {"table", "empty", "garbled"}
  /\ ran \in [Entry -> SUBSET Result]
  /\ last \in [Entry -> Result \cup {"none"}]
  /\ cut \subseteq Entry
  /\ mixed \in BOOLEAN
  /\ torn \in BOOLEAN

Unset == [e \in Entry |-> "none"]

(* Mutant: the file is listed by jobs and not by targets.                  *)
FileByJob(entries) ==
  [keys |-> entries, null |-> {}, entries |-> entries]

FileOf(entries) ==
  [keys |-> {e[1] : e \in entries}, null |-> {}, entries |-> entries]

(* Any table that windows can have made by adding accounts and jobs.       *)
Init ==
  /\ accounts \in SUBSET Account
  /\ \E entries \in SUBSET ((accounts \cup Device) \X Schedule) :
       /\ Cardinality(entries) \leq MaxJobs
       /\ jobs = [k \in Kind |-> FileOf({e \in entries : KindOf(e[1]) = k})]
       /\ exists = {KindOf(e[1]) : e \in entries}
       /\ rows = [w \in Window |-> entries]
  /\ known = [w \in Window |-> accounts]
  /\ ask = [w \in Window |-> NoAsk]
  /\ at = [w \in Window |-> 0]
  /\ file = [w \in Window |-> Empty]
  /\ acc = [w \in Window |-> {}]
  /\ stale = {}
  /\ ops = 0
  /\ pc = [p \in Process |-> "off"]
  /\ of = [p \in Process |-> NoSchedule]
  /\ seen = [p \in Process |-> {}]
  /\ due = [p \in Process |-> {}]
  /\ bad = [p \in Process |-> {}]
  /\ none = [p \in Process |-> {}]
  /\ copy = [p \in Process |-> Unset]
  /\ cur = [p \in Process |-> NoAsk]
  /\ retval = [p \in Process |-> "none"]
  /\ status = Unset
  /\ form = "table"
  /\ ran = [e \in Entry |-> {}]
  /\ last = Unset
  /\ cut = {}
  /\ mixed = FALSE
  /\ torn = FALSE

-----------------------------------------------------------------------------
Goto(p, from, to) == pc[p] = from /\ pc' = [pc EXCEPT ![p] = to]

Active(p) == pc[p] \notin {"off", "over"}

(* The job that a run is at.                                               *)
Job(p) == <<cur[p], of[p]>>

(* A run is started for a schedule, and reads the accounts first.          *)
Start(p) ==
  /\ Goto(p, "off", "jobs")
  /\ \E s \in Schedule : of' = [of EXCEPT ![p] = s]
  /\ mixed' = (mixed \/ \E q \in Process : Active(q))
  /\ seen' = [seen EXCEPT ![p] = accounts]
  /\ UNCHANGED <<webVars, due, bad, none, copy, cur, retval, statusVars, ran, last, cut, torn>>

(* A file that is not there counts as one without jobs; an empty one is    *)
(* None.  Of the targets in the files, one without a job of the schedule   *)
(* is passed over, unless to look it up fails: its account is not among    *)
(* those that were read, or its jobs are null.                             *)
ReadTables(p) ==
  LET missing == (jobs["remote"].keys \ seen[p]) \cup jobs["remote"].null
  IN  /\ Goto(p, "jobs", "status")
      /\ bad' = [bad EXCEPT ![p] = missing]
      /\ due' = [due EXCEPT ![p] =
                   missing \cup {t \in Target : <<t, of[p]>> \in Entries}]
      /\ none' = [none EXCEPT ![p] = {k \in exists : jobs[k].keys = {}}]
      /\ seen' = [seen EXCEPT ![p] = {}]
      /\ UNCHANGED <<webVars, of, copy, cur, retval, statusVars, historyVars>>

(* A file that is no YAML raises what the script does not catch.           *)
ReadStatus(p) ==
  /\ Goto(p, "status", "pick") /\ form # "garbled"
  /\ copy' = [copy EXCEPT ![p] = status]
  /\ none' = [none EXCEPT ![p] = @ \cup (IF form = "empty" THEN {"status"} ELSE {})]
  /\ UNCHANGED <<webVars, of, seen, due, bad, cur, retval, statusVars, historyVars>>

(* The remote jobs come first, those of devices when they are through.     *)
Turn(p) == IF due[p] \cap Account # {} THEN due[p] \cap Account ELSE due[p]

Pick(p) ==
  /\ Goto(p, "pick", "mark") /\ "remote" \notin none[p]
  /\ Turn(p) \subseteq Device => "local" \notin none[p]
  /\ \E t \in Turn(p) \ bad[p] : cur' = [cur EXCEPT ![p] = t]
  /\ UNCHANGED <<webVars, of, seen, due, bad, none, copy, retval, statusVars, historyVars>>

(* The device is not attached: caught, and then the last result is stored. *)
MountFails(p) ==
  /\ pc[p] = "mark" /\ cur[p] \in Device
  /\ retval[p] # "none"
  /\ pc' = [pc EXCEPT ![p] = "store"]
  /\ UNCHANGED <<webVars, of, seen, due, bad, none, copy, cur, retval, statusVars, historyVars>>

(* write_status changes the copy, and opens the file, which empties it.    *)
WriteStatus(p, from, to, value) ==
  /\ Goto(p, from, to) /\ "status" \notin none[p]
  /\ copy' = [copy EXCEPT ![p] = [@ EXCEPT ![Job(p)] = value]]
  /\ status' = Unset
  /\ form' = "empty"
  /\ UNCHANGED <<webVars, of, seen, due, bad, none, cur, retval, historyVars>>

(* Mutant: a job is marked and then passed over.                           *)
MarkStored(p) == WriteStatus(p, "mark", "stored", "running")

Mark(p) == WriteStatus(p, "mark", "marked", "running")

(* It then dumps the copy from the start of the file.  If another run has  *)
(* dumped its own since the file was opened, the tail of that stays under  *)
(* a dump that is shorter: a line of it counts for its job, or for that at *)
(* which the dump ends, or the whole is no YAML.  (Bound: one line.)       *)
Said(table) == {e \in Entry : table[e] # "none"}

Dump(p) ==
  /\ pc[p] \in {"marked", "stored"}
  /\ torn' = (torn \/ form # "empty")
  /\ \/ status' = copy[p] /\ form' = "table"
     \/ /\ form # "empty"
        /\ form' = "table"
        /\ \E f \in Said(status) : \E e \in {f} \cup Said(copy[p]) :
             status' = [copy[p] EXCEPT ![e] = status[f]]
     \/ /\ form # "empty"
        /\ form' = "garbled"
        /\ status' = Unset

Marked(p) ==
  /\ Dump(p)
  /\ Goto(p, "marked", "rsync")
  /\ UNCHANGED <<webVars, of, seen, due, bad, none, copy, cur, retval, ran, last, cut, mixed>>

Rsync(p) ==
  /\ Goto(p, "rsync", "store")
  /\ \E r \in Result :
       /\ retval' = [retval EXCEPT ![p] = r]
       /\ ran' = [ran EXCEPT ![Job(p)] = @ \cup {r}]
       /\ last' = [last EXCEPT ![Job(p)] = r]
  /\ UNCHANGED <<webVars, of, seen, due, bad, none, copy, cur, statusVars, cut, mixed, torn>>

(* Mutant: the result of a job is stored under the next one.               *)
StoreNext(p) ==
  \E t \in due[p] :
    /\ Goto(p, "store", "stored") /\ "status" \notin none[p]
    /\ copy' = [copy EXCEPT ![p] = [@ EXCEPT ![<<t, of[p]>>] = retval[p]]]
    /\ status' = Unset
    /\ form' = "empty"
    /\ UNCHANGED <<webVars, of, seen, due, bad, none, cur, retval, historyVars>>

Store(p) == WriteStatus(p, "store", "stored", retval[p])

Stored(p) ==
  /\ Dump(p)
  /\ Goto(p, "stored", "pick")
  /\ due' = [due EXCEPT ![p] = @ \ {cur[p]}]
  /\ cut' = cut \ {Job(p)}
  /\ UNCHANGED <<webVars, of, seen, bad, none, copy, cur, retval, ran, last, mixed>>

(* A run that has ended leaves nothing but what it has written.            *)
Gone(p) ==
  /\ pc' = [pc EXCEPT ![p] = "over"]
  /\ of' = [of EXCEPT ![p] = NoSchedule]
  /\ seen' = [seen EXCEPT ![p] = {}]
  /\ due' = [due EXCEPT ![p] = {}]
  /\ bad' = [bad EXCEPT ![p] = {}]
  /\ none' = [none EXCEPT ![p] = {}]
  /\ copy' = [copy EXCEPT ![p] = Unset]
  /\ cur' = [cur EXCEPT ![p] = NoAsk]
  /\ retval' = [retval EXCEPT ![p] = "none"]

End(p) ==
  /\ pc[p] = "pick" /\ none[p] \cap Kind = {} /\ due[p] = {}
  /\ Gone(p)
  /\ UNCHANGED <<webVars, statusVars, historyVars>>

(* The power fails, or an exception is raised that nothing catches; where  *)
(* one must be, this is the only step left: None has no items(); an        *)
(* account that the jobs name is missing, or its jobs are null; a device   *)
(* is not attached and there is no result to store yet; the status is      *)
(* None, or no YAML; a mount point that is still in use is not removed.    *)
Die(p) ==
  /\ Active(p)
  /\ Gone(p)
  /\ cut' = IF pc[p] \in {"marked", "rsync", "store", "stored"}
              THEN cut \cup {Job(p)} ELSE cut
  /\ UNCHANGED <<webVars, statusVars, ran, last, mixed, torn>>

Run(p) ==
  \/ Start(p) \/ ReadTables(p) \/ ReadStatus(p) \/ Pick(p) \/ MountFails(p)
  \/ Mark(p) \/ Marked(p) \/ Rsync(p) \/ Store(p) \/ Stored(p) \/ End(p)
  \/ Die(p)

Next ==
  \/ \E p \in Process : Run(p)
  \/ NextFiles /\ UNCHANGED <<runVars, statusVars, historyVars>>

Spec == Init /\ [][Next]_vars

-----------------------------------------------------------------------------
(* What the page shows as the result of a remote job is a result of that   *)
(* job, although each run writes back what it has read of all jobs, maybe  *)
(* long ago, and although runs overlap and die anywhere, unless a run has  *)
(* once dumped its status over that of another.                            *)
ResultsAreOwn ==
  ~torn => \A e \in Entry : e[1] \in Account /\ status[e] \in Result => status[e] \in ran[e]

(* "Currently running": a run is at the job, or was cut off at it, unless  *)
(* runs have overlapped, and one has written back what it had read of a    *)
(* job of the other.  The page shows the same of a negative result: of a   *)
(* remote job, this is one whose last rsync was killed.                    *)
RunningMeansRunning ==
  ~mixed => \A e \in Entry :
              /\ status[e] = "running" =>
                   \/ e \in cut
                   \/ \E p \in Process : pc[p] \in {"rsync", "store"} /\ Job(p) = e
              /\ status[e] = "killed" /\ e[1] \in Account => last[e] = "killed"

(* "Completed": the data of the job has been copied, at some time.         *)
CompletedMeansCopied == \A e \in Entry : status[e] = "ok" => "ok" \in ran[e]
=============================================================================
