------------------------------ MODULE JobLock ------------------------------
(***************************************************************************)
(* What one disk daemon promises about disk jobs: at any time it runs at   *)
(* most one of them, a job starts only when none is running, and a job     *)
(* that was started is over at some point.  How the daemon forks workers,  *)
(* answers clients, reports progress and goes away when idle is left to    *)
(* DiskDaemon, which implements this specification.                        *)
(***************************************************************************)
CONSTANTS
  Job,      \* the disk jobs: format_disk, create_raid, ...
  NoJob     \* not a job: the value of holder when no job runs

VARIABLE holder   \* the job that runs, or NoJob

Init == holder = NoJob

Acquire(j) ==
  /\ holder = NoJob
  /\ holder' = j

Release ==
  /\ holder # NoJob
  /\ holder' = NoJob

Next == Release \/ \E j \in Job : Acquire(j)

Safety == Init /\ [][Next]_holder

Spec == Safety /\ WF_holder(Release)
=============================================================================
